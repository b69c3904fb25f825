---------------------------- MODULE StableStore ----------------------------
(***************************************************************************)
(* What the Raft algorithm asks of its files: a value that is replaced as  *)
(* a whole.  A crash during a call leaves the old value or the new one, or *)
(* one of Lost; a call returns only when no crash can bring the old one    *)
(* back.                                                                   *)
(***************************************************************************)
CONSTANTS
  Values,     \* what may be stored
  Initial,    \* what an empty directory stands for, one of Values
  Lost        \* values that a crash during a call may leave besides old and new

VARIABLES
  value,      \* what the process takes to be stored
  outcomes,   \* what a crash now may leave
  busy        \* a call is under way

vars == <<value, outcomes, busy>>

Init == value = Initial /\ outcomes = {Initial} /\ busy = FALSE

\* What may be left moves from the old value to the new one, v.
Shift(v) ==
  /\ outcomes' # {}
  /\ outcomes' \subseteq outcomes \cup {v} \cup Lost

Call(v) ==
  /\ ~busy
  /\ value' = v
  /\ Shift(v)
  /\ busy' = TRUE

Progress ==
  /\ busy
  /\ Shift(value)
  /\ UNCHANGED <<value, busy>>

Return ==
  /\ busy
  /\ outcomes' = {value}
  /\ busy' = FALSE
  /\ UNCHANGED value

\* A crash leaves one of the outcomes, and the next process starts from it.
Crash ==
  /\ \E v \in outcomes : value' = v /\ outcomes' = {v}
  /\ busy' = FALSE

Next == (\E v \in Values : Call(v)) \/ Progress \/ Return \/ Crash

Spec == Init /\ [][Next]_vars
=============================================================================
