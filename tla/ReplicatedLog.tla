--------------------------- MODULE ReplicatedLog ---------------------------
(***************************************************************************)
(* What the cluster promises its clients: one sequence of committed        *)
(* commands that only grows, nodes that apply prefixes of it and never go  *)
(* back, and answers that speak of what is in it.                          *)
(***************************************************************************)
EXTENDS Sequences, SequencesExt

CONSTANT Node

VARIABLES
  committed,   \* the sequence
  applied,     \* what each node's state machine has been given
  answers      \* commands answered OK, with their index

vars == <<committed, applied, answers>>

Init ==
  /\ committed = <<>>
  /\ applied = [n \in Node |-> <<>>]
  /\ answers = {}

\* Node n applies more of the sequence, the first node to do so extends it.
Apply(n, l) ==
  /\ IsStrictPrefix(applied[n], l)
  /\ applied' = [applied EXCEPT ![n] = l]
  /\ \/ IsPrefix(l, committed) /\ committed' = committed
     \/ IsStrictPrefix(committed, l) /\ committed' = l
  /\ UNCHANGED answers

\* A command is answered once it is part of the sequence.
AnswerAt(i) ==
  /\ i \in 1..Len(committed)
  /\ answers' = answers \cup {[index |-> i, cmd |-> committed[i]]}
  /\ UNCHANGED <<committed, applied>>

Next ==
  \/ \E n \in Node : Apply(n, applied'[n])
  \/ \E i \in DOMAIN committed : AnswerAt(i)

Spec == Init /\ [][Next]_vars
=============================================================================
