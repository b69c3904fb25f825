------------------------------- MODULE RaftInv -------------------------------
(***************************************************************************)
(* Why logs agree and why what is committed stays: the parts of the        *)
(* inductive invariants.  Logs are compared with the history variable      *)
(* termLog, what the leader of each term has written; majorities are found *)
(* in acks.                                                                *)
(***************************************************************************)
EXTENDS Raft

\* l has an entry of term t at index i.
Has(l, i, t) == i \in 1..Len(l) /\ l[i].term = t

-----------------------------------------------------------------------------
(* Logs *)

\* Every prefix of l was written by the leader of the term it ends in, with T
\* what leaders have written.
Genuine(l, T) ==
  \A i \in 1..Len(l) : l[i].term \in DOMAIN T /\ AgreeUpTo(l, T[l[i].term], i)

\* What the leader of term t has written ends in t; its terms never go back, and
\* entry i is at position i.
WellFormed(l, t) ==
  /\ Has(l, Len(l), t)
  /\ \A i \in 1..Len(l) : l[i].index = i
  /\ \A i, j \in 1..Len(l) : i <= j => l[i].term <= l[j].term
TermLogs ==
  \A t \in DOMAIN termLog : WellFormed(termLog[t], t) /\ Genuine(termLog[t], termLog)

\* So is what a node has, and its terms are no later than its own.
ServerLogs ==
  \A n \in Server :
    /\ Genuine(log[n], termLog)
    /\ \A i \in 1..Len(log[n]) : log[n][i].term <= currentTerm[n]

\* Terms have leaders: those that were elected, in a term they have reached and
\* in which they do not stand again.
Reign(t, n) == [term |-> t, leader |-> n]
Reigned ==
  /\ DOMAIN termLog = {e.term : e \in elected}
  /\ \A e \in elected :
       /\ e.term <= currentTerm[e.leader]
       /\ e.term = currentTerm[e.leader] => role[e.leader] # "CANDIDATE"

\* A leader was elected in its term, and its log is what it wrote in it.
LeadersLog ==
  \A n \in Server : role[n] = "LEADER" =>
    Reign(currentTerm[n], n) \in elected /\ log[n] = termLog[currentTerm[n]]

\* A request is a piece of l, its leader's log, up to an entry of its own term.
Piece(r, l) ==
  /\ Has(l, r.prevLogIndex + Len(r.entries), r.term)
  /\ r.prevLogIndex > 0 => r.prevLogTerm = l[r.prevLogIndex].term
  /\ \A k \in 1..Len(r.entries) : r.entries[k] = l[r.prevLogIndex + k]
RequestsArePieces ==
  \A r \in appendReqs :
    r.from # r.to /\ Reign(r.term, r.from) \in elected /\ Piece(r, termLog[r.term])

\* A reply speaks of such a piece.
RepliesAreEchoes ==
  \A m \in appendReps :
    /\ m.from # m.to /\ Reign(m.electionTerm, m.to) \in elected
    /\ Has(termLog[m.electionTerm], m.prevIndex + m.count, m.electionTerm)

\* A leader never skips past its own log, and what it has counted for a peer
\* ends in an entry of its own.
NextWithinLog ==
  \A n \in Server : role[n] = "LEADER" => \A p \in Server :
    /\ nextIndex[n][p] \in 1 .. Len(log[n]) + 1
    /\ matchIndex[n][p] = 0 \/ Has(log[n], matchIndex[n][p], currentTerm[n])

\* The inductive invariant behind LogMatching.
LogInv ==
  /\ TermLogs /\ ServerLogs /\ Reigned /\ LeadersLog
  /\ RequestsArePieces /\ RepliesAreEchoes /\ NextWithinLog

-----------------------------------------------------------------------------
(* Commitment *)

Ack(v, t, i) == [node |-> v, term |-> t, index |-> i]
Quorums == {Q \in SUBSET Server : Cardinality(Q) >= Majority}

\* A majority holds entry i of the leader of term t, with A what nodes hold.
Chosen(i, t, A) == \E Q \in Quorums : \A v \in Q : Ack(v, t, i) \in A

\* A majority does not hold entry i of term t and has left the term: the entry
\* never will be chosen.
Blocked(i, t) ==
  \E Q \in Quorums : \A v \in Q : currentTerm[v] > t /\ Ack(v, t, i) \notin acks

\* What a node holds for a leader is in its log as long as the term lasts, and
\* later on unless it can no longer be chosen.
Held(a) ==
  /\ a.term \in DOMAIN termLog /\ a.index \in 1..Len(termLog[a.term])
  /\ a.term <= currentTerm[a.node]
  /\ a.term = currentTerm[a.node] => AgreeUpTo(log[a.node], termLog[a.term], a.index)
  /\ Has(termLog[a.term], a.index, a.term) =>
       Has(log[a.node], a.index, a.term) \/ Blocked(a.index, a.term)
AcksHeld == \A a \in acks : Held(a)

\* A leader counts only what is held.
MatchesHeld ==
  /\ \A n \in Server : role[n] = "LEADER" =>
       /\ \A i \in 1..Len(log[n]) : Ack(n, currentTerm[n], i) \in acks
       /\ \A p \in Server : \A i \in 1..matchIndex[n][p] : Ack(p, currentTerm[n], i) \in acks
  /\ \A m \in appendReps : m.success =>
       \A i \in 1 .. m.prevIndex + m.count : Ack(m.from, m.electionTerm, i) \in acks

\* A vote request, while its candidate stands, has the end of its log; and no
\* vote is for a term its candidate has not reached.
Stands(n, t) == role[n] = "CANDIDATE" /\ currentTerm[n] = t
RequestsOfCandidates ==
  /\ \A r \in voteReqs : Stands(r.from, r.term) =>
       r.lastLogIndex = LastIndex(log[r.from]) /\ r.lastLogTerm = LastTerm(log[r.from])
  /\ \A b \in ballots : b.term <= currentTerm[b.candidate]

\* The log of a candidate has whatever its voters held when they voted, and the
\* log of a leader whatever may have been chosen before its term.
VotersComplete ==
  \A b \in ballots, a \in acks :
    /\ Stands(b.candidate, b.term) /\ a.node = b.voter /\ a.term < b.term
    /\ Has(termLog[a.term], a.index, a.term)
    => Has(log[b.candidate], a.index, a.term) \/ Blocked(a.index, a.term)
TermsComplete ==
  \A t, u \in DOMAIN termLog : t < u =>
    \A i \in 1..Len(termLog[t]) :
      termLog[t][i].term = t => Has(termLog[u], i, t) \/ Blocked(i, t)

\* l up to c is part of what was chosen in a term up to t, with T what leaders
\* have written and A what nodes hold.
Settled(l, c, t, T, A) ==
  c = 0 \/ \E u \in DOMAIN T : \E k \in 1..Len(T[u]) :
    u <= t /\ c <= k /\ T[u][k].term = u /\ Chosen(k, u, A) /\ AgreeUpTo(l, T[u], c)
CommitsSettled ==
  /\ \A n \in Server : Settled(log[n], commitIndex[n], currentTerm[n], termLog, acks)
  /\ \A r \in appendReqs : Settled(termLog[r.term], r.leaderCommit, r.term, termLog, acks)

\* The inductive invariant behind LeaderCompleteness and StateMachineSafety.
CommitInv ==
  /\ AcksHeld /\ MatchesHeld /\ RequestsOfCandidates
  /\ VotersComplete /\ TermsComplete /\ CommitsSettled

-----------------------------------------------------------------------------
(* Answers *)

\* What a client waits for is in what the leader of its term has written; what
\* it was told in that term is settled.
OnRecord(w) ==
  /\ w.term \in DOMAIN termLog
  /\ w.index \in 1..Len(termLog[w.term])
  /\ termLog[w.term][w.index].cmd = w.cmd
AnswerSettled(a) ==
  a.ackTerm = a.term =>
    OnRecord(a) /\ Settled(termLog[a.term], a.index, a.term, termLog, acks)

\* The inductive invariant behind AckedInTermDurable.
AnswersInv ==
  /\ \A w \in waiting : OnRecord(w)
  /\ \A a \in acked : AnswerSettled(a)

-----------------------------------------------------------------------------
(* Where a leader sends from *)

\* One RPC for a leader and a peer: its request or its reply.
OneAppendPerPeer ==
  /\ \A r, q \in appendReqs : r.live /\ q.live /\ r.from = q.from /\ r.to = q.to => r = q
  /\ \A m, k \in appendReps : m.to = k.to /\ m.from = k.from => m = k
  /\ \A r \in appendReqs, m \in appendReps : ~(r.live /\ r.from = m.to /\ r.to = m.from)

\* nextIndex is where the RPC under way was sent from, and the entry before it,
\* if the peer lacks it, is beyond what the leader has counted.
Leads(n, t) == role[n] = "LEADER" /\ currentTerm[n] = t
NextAsSent ==
  /\ \A r \in appendReqs : r.live /\ Leads(r.from, r.term) =>
       nextIndex[r.from][r.to] = r.prevLogIndex + 1
  /\ \A m \in appendReps : Leads(m.to, m.electionTerm) =>
       /\ nextIndex[m.to][m.from] = m.prevIndex + 1
       /\ ~m.success /\ m.term <= m.electionTerm => matchIndex[m.to][m.from] < m.prevIndex

MatchBelowNext ==
  \A n \in Server : role[n] = "LEADER" =>
    \A p \in Server : matchIndex[n][p] < nextIndex[n][p]

\* The inductive invariant behind NextIndexInRange.
NextInv == OneAppendPerPeer /\ NextAsSent /\ MatchBelowNext
-----------------------------------------------------------------------------
(* A cluster of one *)

Solo == \A n, p \in Server : n = p

\* No RPC is sent.  Entry i is at position i, the state machine has been given
\* the log as far as it has come, and the command a client waits for, or was told
\* is committed, is in the log where the client was told.
NoRpcs == voteReqs = {} /\ voteReps = {} /\ appendReqs = {} /\ appendReps = {}
AppliesLog(l, a) ==
  /\ \A i \in 1..Len(l) : l[i].index = i
  /\ Len(a) <= Len(l) /\ \A i \in 1..Len(a) : a[i] = l[i].cmd
InLog(w) == w.index \in 1..Len(log[w.node]) /\ log[w.node][w.index].cmd = w.cmd

\* The inductive invariant behind AckedDurable in a cluster of one, whose log no
\* crash takes anything from, not even one that loses the term and the vote.
SoloInv ==
  /\ NoRpcs
  /\ \A n \in Server : AppliesLog(log[n], applied[n])
  /\ \A w \in waiting \cup acked : InLog(w)
=============================================================================
