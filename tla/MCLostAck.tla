------------------------------ MODULE MCLostAck ------------------------------
(***************************************************************************)
(* Raft with the candidates of the elections fixed: First, Second, First.  *)
(* First takes one command and only First and Second talk to each other    *)
(* about entries.  A subset of the behaviours of Raft, small enough to     *)
(* reach the third election.                                               *)
(***************************************************************************)
EXTENDS Raft

CONSTANTS First, Second

Candidate == <<First, Second, First>>

Scheduled ==
  /\ elections' # elections => ElectionTimeout(Candidate[elections'])
  /\ \A r \in appendReqs' : {r.from, r.to} = {First, Second}
  /\ waiting' \subseteq waiting \/ elections = 1
  /\ waiting = {} => elections <= 1 \/ acked # {}

ScheduledSpec == Init /\ [][Next /\ Scheduled]_vars
=============================================================================
