---------------------------- MODULE RaftLiveness ----------------------------
(***************************************************************************)
(* What must happen in a cluster of Raft once its election timers are      *)
(* quiet.  Nothing is claimed of the timers themselves: they may split     *)
(* votes for ever, which only their random lengths make unlikely.          *)
(***************************************************************************)
EXTENDS Raft

CONSTANT Observed    \* the node whose threads are watched

\* The RPC from n to p, handled; and its reply, handled in n's thread for p.
HandleAppend(n, p) ==
  \E r \in appendReqs :
    /\ r.live /\ r.from = n /\ r.to = p
    /\ RejectStaleAppend(r) \/ RejectMismatch(r) \/ AcceptAppend(r)
HandleAppendReply(n, p) ==
  \E m \in appendReps :
    /\ m.to = n /\ m.from = p
    /\ \/ AppendReplyHigherTerm(m) \/ AppendReplyIgnored(m)
       \/ AppendReplySuccess(m) \/ AppendReplyFailure(m)

\* A sender thread of replicationLoop runs: its wait ends after 100 ms if nobody
\* notifies it.  RPCs may fail, and are sent again at every round: not all of
\* them fail for ever, neither on the way out nor on the way back.
Replicates(n) ==
  \A p \in Peers(n) :
    /\ WF_vars(SendAppendEntries(n, p))
    /\ SF_vars(HandleAppend(n, p))
    /\ SF_vars(HandleAppendReply(n, p))

\* The timer thread gets to its broadcast, and a RequestVote, which is sent once
\* an election, arrives and is answered.
HandleVote(n, p) ==
  \E r \in voteReqs :
    r.from = n /\ r.to = p /\ (RejectStaleVoteRequest(r) \/ HandleRequestVote(r))
HandleVoteReply(n) ==
  \E m \in voteReps :
    /\ m.to = n
    /\ VoteReplyHigherTerm(m) \/ VoteReplyIgnored(m) \/ VoteReplyCounted(m) \/ VoteReplyWins(m)
Campaigns(n) ==
  /\ WF_vars(BroadcastRequestVote(n))
  /\ \A p \in Peers(n) : WF_vars(HandleVote(n, p))
  /\ WF_vars(HandleVoteReply(n))

FairSpec == Spec /\ Replicates(Observed) /\ Campaigns(Observed)

-----------------------------------------------------------------------------
\* Every entry of a node that goes on leading reaches every peer and is
\* committed and applied there, however far behind the peer was and whatever is
\* appended meanwhile (replicationLoop: one index back per failed RPC).
Indexes == 1 .. MaxLogLen + MaxElections
CatchUp ==
  \A p \in Server, i \in Indexes :
    (role[Observed] = "LEADER" /\ Len(log[Observed]) >= i)
      ~> (role[Observed] # "LEADER" \/ (Len(applied[p]) >= i /\ log[p][i] = log[Observed][i]))

\* The only candidate, among followers of earlier terms and with a log that is
\* as good as any, becomes leader, although requests and replies of other terms
\* are still on their way (electionTimerLoop, sendRequestVoteToAll).
Alone(n) ==
  /\ role[n] = "CANDIDATE"
  /\ elections = MaxElections
  /\ \A p \in Peers(n) :
       /\ role[p] = "FOLLOWER" /\ currentTerm[p] < currentTerm[n]
       /\ LogUpToDate(LastTerm(log[n]), LastIndex(log[n]), log[p])
AloneWins == Alone(Observed) ~> role[Observed] = "LEADER"
=============================================================================
