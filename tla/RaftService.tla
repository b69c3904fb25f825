---------------------------- MODULE RaftService ----------------------------
(***************************************************************************)
(* The cluster of Raft as its clients see it: reads through the log        *)
(* (handleGet), and the replicated log that the whole of it implements.    *)
(*                                                                         *)
(* A read is a NOOP proposed and answered like a write; its answer is the  *)
(* key looked up in the leader's state machine, which is what it has       *)
(* applied when the wait ends.                                             *)
(***************************************************************************)
EXTENDS RaftInv

ASSUME MarkerAssumption == NoOp \in Value

VARIABLES
  reading,    \* reads inside proposeAndWait, with the answers given before
  readings    \* history: reads answered, with what the state machine held

serviceVars == <<vars, reading, readings>>

ServiceInit == Init /\ reading = {} /\ readings = {}

\* Mutant: no marker, the read waits for the end of the log as it is.
ReadBegins_NoMarker(n) ==
  LET w == [node |-> n, index |-> LastIndex(log[n]), term |-> currentTerm[n], cmd |-> NoOp]
  IN  /\ role[n] = "LEADER"
      /\ waiting' = waiting \cup {w}
      /\ reading' = reading \cup {[marker |-> w, known |-> acked]}
      /\ UNCHANGED <<nodeVars, electVars, logVars, leaderVars, disk, voteMsgs, appendMsgs,
                     acked, counters, history, readings>>

\* handleGet: the marker is proposed.
ReadBegins(n) ==
  /\ Propose(n, NoOp)
  /\ reading' = reading \cup
       {[marker |-> w, known |-> acked] : w \in waiting' \ waiting}
  /\ UNCHANGED readings

\* The end of a read: the value comes out of the state machine.
ReadEnds(r) ==
  /\ reading' = reading \ {r}
  /\ readings' = readings \cup
       {[marker |-> Answer(r.marker), known |-> r.known, state |-> applied[r.marker.node]]}

\* Mutant: the marker is not waited for.
ReadAnswered_AtOnce(r) ==
  /\ role[r.marker.node] = "LEADER"
  /\ waiting' = waiting \ {r.marker}
  /\ ReadEnds(r)
  /\ UNCHANGED <<nodeVars, electVars, logVars, leaderVars, disk, voteMsgs, appendMsgs,
                 acked, counters, history>>

\* isRead: after the wait and the test of a write.
ReadAnswered(r) == ProposalOk(r.marker) /\ ReadEnds(r)

\* A write, or the end of a wait that was in vain.
Markers == {r.marker : r \in reading}
WriteOrFail ==
  \/ \E n \in Server, v \in Value \ {NoOp} : Propose(n, v)
  \/ \E w \in waiting \ Markers : ProposalOk(w)
  \/ \E w \in waiting : ProposalFails(w)

\* Reads whose thread is gone, with its process or by its own end.
ServiceNext ==
  \/ \E n \in Server : ReadBegins(n)
  \/ \E r \in reading : ReadAnswered(r)
  \/ /\ Election \/ Replication \/ WriteOrFail \/ Failure
     /\ reading' = {r \in reading : r.marker \in waiting'}
     /\ UNCHANGED readings

ServiceSpec == ServiceInit /\ [][ServiceNext]_serviceVars

-----------------------------------------------------------------------------
\* The leader's state when it answers a read has every write that was answered
\* before the read began.
SawKnown(r, known) ==
  \A a \in known : Len(r.state) >= a.index /\ r.state[a.index] = a.cmd
InTerm(a) == a.ackTerm = a.term

\* A read that is answered in the term of its marker is linearizable: it sees
\* every write answered before it began, by whichever leader (server.cpp:588).
ReadsInTerm ==
  \A r \in readings : InTerm(r.marker) => SawKnown(r, {a \in r.known : InTerm(a)})

\* Why: a marker comes after what was answered in its term or before; of a later
\* term something can only be answered once a majority has gone on without the
\* marker, or anything behind it.
Overtaken(i, t) ==
  \E Q \in Quorums : \A v \in Q :
    currentTerm[v] > t /\ \A a \in acks : a.node = v /\ a.term = t => a.index < i
ComesAfter(w, a) ==
  IF a.term <= w.term THEN a.index < w.index ELSE Overtaken(w.index, w.term)

\* The inductive invariant behind ReadsInTerm.
ReadsInv ==
  \A r \in reading :
    LET w == r.marker
    IN  /\ w \in ProposalType /\ r.known \subseteq acked
        /\ w.term \in DOMAIN termLog /\ Has(termLog[w.term], w.index, w.term)
        /\ \A a \in r.known : InTerm(a) => ComesAfter(w, a)

\* The longest of the applied sequences is what is committed; the cluster
\* implements the replicated log, with its answers in their own term.
Longest == CHOOSE n \in Server : \A p \in Server : Len(applied[p]) <= Len(applied[n])
Service == INSTANCE ReplicatedLog WITH
  Node <- Server,
  committed <- applied[Longest],
  applied <- applied,
  answers <- {[index |-> a.index, cmd |-> a.cmd] : a \in {b \in acked : InTerm(b)}}
ImplementsReplicatedLog == Service!Spec
=============================================================================
