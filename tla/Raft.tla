-------------------------------- MODULE Raft --------------------------------
(***************************************************************************)
(* A cluster of RaftServer processes (raftkv/src/server.cpp): election,    *)
(* replication, commitment, the client's wait for its command, and crash   *)
(* and recovery from the files of storage.cpp.                             *)
(*                                                                         *)
(* raft_mutex protects all of a node's state, so an action is what one     *)
(* thread does between taking and releasing it.  Where the code releases   *)
(* it half way (electionTimerLoop before the broadcast, a sender thread    *)
(* during its RPC, proposeAndWait while it waits) there is an action for   *)
(* each side.  A process that is down is one that takes no step, so crash  *)
(* and recover() are one action.                                           *)
(*                                                                         *)
(* An RPC is a request record and then a reply record.  The sender of a    *)
(* live request still waits for its reply; a request whose sender timed    *)
(* out or died is not live: it may still be handled, and its reply goes    *)
(* nowhere.  A request that is never handled is a lost one.                *)
(***************************************************************************)
EXTENDS RaftLog, SequencesExt

CONSTANTS
  Server,        \* the nodes
  Nil,           \* 0 as a node id: votedFor none, leader unknown
  Value,         \* the commands clients propose: PUT and DELETE, and with reads NoOp
  NoOp,          \* OP_NOOP
  MetaTearing,   \* TRUE: a crash may leave metadata.bin truncated
  MaxElections,  \* bound: election timeouts in a behaviour
  MaxLogLen,     \* bound: a leader takes no command beyond this length
  MaxCrashes,    \* bound: crashes in a behaviour
  MaxOrphans,    \* bound: abandoned AppendEntries still on their way
  MaxInFlight    \* bound: AppendEntries RPCs under way at once

ASSUME ServerAssumption == IsFiniteSet(Server) /\ Server # {} /\ Nil \notin Server
ASSUME TearingAssumption == MetaTearing \in BOOLEAN
ASSUME BoundAssumption ==
  {MaxElections, MaxLogLen, MaxCrashes, MaxOrphans, MaxInFlight} \subseteq Nat

VARIABLES
  role,           \* "FOLLOWER", "CANDIDATE" or "LEADER"
  currentTerm,
  votedFor,
  leaderId,       \* current_leader_id
  votesReceived,  \* votes_received, a counter
  campaigning,    \* the timer thread is between its unlock and the broadcast
  log,
  commitIndex,
  applied,        \* the commands given to the state machine since boot
  nextIndex, matchIndex,
  disk,           \* what metadata.bin and logs.bin hold
  voteReqs, voteReps, appendReqs, appendReps,
  waiting,        \* client threads inside proposeAndWait
  elections, crashes,       \* counters for the bounds
  acked, ballots, elected,  \* history: waits answered, votes given, elections won
  termLog,                  \* history: the log that the leader of a term has written
  acks                      \* history: entries a node holds for the leader of a term

nodeVars   == <<role, currentTerm, votedFor, leaderId>>
electVars  == <<votesReceived, campaigning>>
logVars    == <<log, commitIndex, applied>>
leaderVars == <<nextIndex, matchIndex>>
voteMsgs   == <<voteReqs, voteReps>>
appendMsgs == <<appendReqs, appendReps>>
clientVars == <<waiting, acked>>
leaderHist == <<elected, termLog, acks>>
history    == <<ballots, leaderHist>>
counters   == <<elections, crashes>>
vars == <<nodeVars, electVars, logVars, leaderVars, disk, voteMsgs, appendMsgs,
          clientVars, counters, history>>

-----------------------------------------------------------------------------
Role    == {"FOLLOWER", "CANDIDATE", "LEADER"}
Command == Value \cup {NoOp}
EntryType == [term : Nat, index : Nat, cmd : Command]
Peers(n) == Server \ {n}

\* majority(): (peers.size() + 1) / 2 + 1.
Majority == Cardinality(Server) \div 2 + 1

\* Mutant: the vote is not part of what is saved.
MetaWritten_NoVote(d, t, v, c) == [d EXCEPT !.currentTerm = t, !.commitIndex = c]

\* Mutant: appended entries stay in memory.
LogWritten_Skipped(d, l) == d

\* Mutant: a commit is not saved.
CommitWritten_Skipped(d, c) == d

\* updateMetaData(metadata), and writelog or rewriteLog, on a node's files.
MetaWritten(d, t, v, c) ==
  [currentTerm |-> t, votedFor |-> v, commitIndex |-> c, log |-> d.log]
LogWritten(d, l) == [d EXCEPT !.log = l]

\* applyCommitted's updateMetaData: of its fields only the commit index is new.
CommitWritten(d, c) == [d EXCEPT !.commitIndex = c]

\* metadata.bin as open(O_TRUNC) leaves it: getMetaData reads the defaults.
MetaTorn(d) == MetaWritten(d, 0, Nil, 0)

\* applyCommitted: the state machine is given the entries up to c, as far as
\* the log reaches.
ApplyCommitted(a, l, c) == a \o Commands(SubSeq(l, Len(a) + 1, Min({c, Len(l)})))

\* stepDown(t) on node n; disk is written before the mutex is released.
StepDown(n, t) ==
  /\ role' = [role EXCEPT ![n] = "FOLLOWER"]
  /\ currentTerm' = [currentTerm EXCEPT ![n] = t]
  /\ votedFor' = [votedFor EXCEPT ![n] = Nil]
  /\ leaderId' = [leaderId EXCEPT ![n] = Nil]
  /\ disk' = [disk EXCEPT ![n] = MetaWritten(@, t, Nil, commitIndex[n])]

\* advanceCommit: the highest entry of the current term t above c that is on
\* a majority, the leader counting itself; c if there is none.
Agreeing(n, match, i) == {n} \cup {p \in Peers(n) : match[p] >= i}
Committable(n, l, match, t, c) ==
  {i \in c + 1 .. Len(l) :
     TermAt(l, i) = t /\ Cardinality(Agreeing(n, match, i)) >= Majority}
AdvancedCommit(n, l, match, t, c) ==
  IF Committable(n, l, match, t, c) = {} THEN c
  ELSE Max(Committable(n, l, match, t, c))

\* A leader's log, votes and per-peer state as advanceCommit leaves them, with
\* l the log and match the match indexes it runs with, and d the files.
CommitAsLeader(n, l, match, t, d) ==
  LET c == AdvancedCommit(n, l, match, t, commitIndex[n])
  IN  /\ log' = [log EXCEPT ![n] = l]
      /\ commitIndex' = [commitIndex EXCEPT ![n] = c]
      /\ applied' = [applied EXCEPT ![n] = ApplyCommitted(@, l, c)]
      /\ disk' = [disk EXCEPT ![n] = CommitWritten(LogWritten(d, l), c)]

\* History: the leader n of term t has written l, and a node has the entries of
\* the leader of t up to k.
Holding(n, t, k) == {[node |-> n, term |-> t, index |-> i] : i \in 1..k}
LeaderWrites(n, t, l) ==
  /\ termLog' = [u \in DOMAIN termLog \cup {t} |-> IF u = t THEN l ELSE termLog[u]]
  /\ acks' = acks \cup Holding(n, t, Len(l))

\* The log of becomeLeader and of proposeAndWait: one entry more.
Extended(n, t, c) == Append(log[n], Entry(t, LastIndex(log[n]) + 1, c))

\* History: n has won the election of term t and written its NOOP.
Reigns(n, t) ==
  /\ elected' = elected \cup {[term |-> t, leader |-> n]}
  /\ LeaderWrites(n, t, Extended(n, t, NoOp))

\* becomeLeader in term t: a NOOP at the end of the log, and nextIndex past it.
BecomeLeader(n, t, d) ==
  LET l == Extended(n, t, NoOp)
      match == [p \in Server |-> 0]
  IN  /\ role' = [role EXCEPT ![n] = "LEADER"]
      /\ leaderId' = [leaderId EXCEPT ![n] = n]
      /\ nextIndex' = [nextIndex EXCEPT ![n] = [p \in Server |-> LastIndex(l) + 1]]
      /\ matchIndex' = [matchIndex EXCEPT ![n] = match]
      /\ CommitAsLeader(n, l, match, t, d)
      /\ Reigns(n, t)

-----------------------------------------------------------------------------
Init ==
  /\ role = [n \in Server |-> "FOLLOWER"]
  /\ currentTerm = [n \in Server |-> 0]
  /\ votedFor = [n \in Server |-> Nil]
  /\ leaderId = [n \in Server |-> Nil]
  /\ votesReceived = [n \in Server |-> 0]
  /\ campaigning = [n \in Server |-> FALSE]
  /\ log = [n \in Server |-> <<>>]
  /\ commitIndex = [n \in Server |-> 0]
  /\ applied = [n \in Server |-> <<>>]
  /\ nextIndex = [n \in Server |-> [p \in Server |-> 0]]
  /\ matchIndex = [n \in Server |-> [p \in Server |-> 0]]
  /\ disk = [n \in Server |->
               [currentTerm |-> 0, votedFor |-> Nil, commitIndex |-> 0, log |-> <<>>]]
  /\ voteReqs = {} /\ voteReps = {} /\ appendReqs = {} /\ appendReps = {}
  /\ waiting = {} /\ acked = {}
  /\ elections = 0 /\ crashes = 0
  /\ ballots = {} /\ elected = {} /\ termLog = [t \in {} |-> <<>>] /\ acks = {}

-----------------------------------------------------------------------------
(* Elections *)

\* The part of electionTimerLoop that every timeout runs.  The timeout is the
\* clock's choice; the thread is not in its loop while it broadcasts.
TimesOut(n) ==
  /\ role[n] # "LEADER"
  /\ ~campaigning[n]
  /\ elections < MaxElections
  /\ elections' = elections + 1
  /\ currentTerm' = [currentTerm EXCEPT ![n] = @ + 1]
  /\ votedFor' = [votedFor EXCEPT ![n] = n]
  /\ votesReceived' = [votesReceived EXCEPT ![n] = 1]
  /\ ballots' = ballots \cup
       {[voter |-> n, term |-> currentTerm[n] + 1, candidate |-> n]}

\* A node with peers: it unlocks and goes on to the broadcast.
ElectionTimeout(n) ==
  /\ Majority > 1
  /\ TimesOut(n)
  /\ role' = [role EXCEPT ![n] = "CANDIDATE"]
  /\ leaderId' = [leaderId EXCEPT ![n] = Nil]
  /\ campaigning' = [campaigning EXCEPT ![n] = TRUE]
  /\ disk' = [disk EXCEPT ![n] = MetaWritten(@, currentTerm[n] + 1, n, commitIndex[n])]
  /\ UNCHANGED <<logVars, leaderVars, voteMsgs, appendMsgs, clientVars, crashes, leaderHist>>

\* A cluster of one wins at once, under the same lock.
ElectSelf(n) ==
  /\ Majority <= 1
  /\ TimesOut(n)
  /\ BecomeLeader(n, currentTerm[n] + 1,
                  MetaWritten(disk[n], currentTerm[n] + 1, n, commitIndex[n]))
  /\ UNCHANGED <<campaigning, voteMsgs, appendMsgs, clientVars, crashes>>

\* sendRequestVoteToAll takes the lock again and reads the term it finds: one
\* detached thread and one request for each peer.
VoteRequest(n, p) ==
  [from |-> n, to |-> p, term |-> currentTerm[n],
   lastLogIndex |-> LastIndex(log[n]), lastLogTerm |-> LastTerm(log[n]), live |-> TRUE]

BroadcastRequestVote(n) ==
  /\ campaigning[n]
  /\ campaigning' = [campaigning EXCEPT ![n] = FALSE]
  /\ voteReqs' = voteReqs \cup {VoteRequest(n, p) : p \in Peers(n)}
  /\ UNCHANGED <<nodeVars, votesReceived, logVars, leaderVars, disk, voteReps,
                 appendMsgs, clientVars, counters, history>>

\* The answer of the handler, if anyone still waits for it.
VoteReplies(r, t, granted) ==
  IF r.live THEN {[from |-> r.to, to |-> r.from, electionTerm |-> r.term,
                   term |-> t, voteGranted |-> granted]}
  ELSE {}

\* Mutant: a request of an old term is handled like any other.
Stale_Never(r) == FALSE

\* Step 1 of both handlers.
Stale(r) == r.term < currentTerm[r.to]

RejectStaleVoteRequest(r) ==
  /\ r \in voteReqs
  /\ Stale(r)
  /\ voteReqs' = voteReqs \ {r}
  /\ voteReps' = voteReps \cup VoteReplies(r, currentTerm[r.to], FALSE)
  /\ UNCHANGED <<nodeVars, electVars, logVars, leaderVars, disk, appendMsgs,
                 clientVars, counters, history>>

\* handleRequestVote, step 2: the vote of this term, reset by stepDown when the
\* request carries a higher one.
VoteInTerm(v, t) == IF t > currentTerm[v] THEN Nil ELSE votedFor[v]
CanVote(r) == VoteInTerm(r.to, r.term) \in {Nil, r.from}
Grants(r)  == CanVote(r) /\ LogUpToDate(r.lastLogTerm, r.lastLogIndex, log[r.to])

\* Mutant: the leader hint survives the change of term.
AdoptTerm_KeepLeader(v, t) ==
  /\ currentTerm' = [currentTerm EXCEPT ![v] = t]
  /\ role' = [role EXCEPT ![v] = IF t > currentTerm[v] THEN "FOLLOWER" ELSE @]
  /\ UNCHANGED leaderId

\* role and leader hint: only stepDown changes them.
AdoptTerm(v, t) ==
  /\ currentTerm' = [currentTerm EXCEPT ![v] = t]
  /\ role' = [role EXCEPT ![v] = IF t > currentTerm[v] THEN "FOLLOWER" ELSE @]
  /\ leaderId' = [leaderId EXCEPT ![v] = IF t > currentTerm[v] THEN Nil ELSE @]

HandleRequestVote(r) ==
  LET v == r.to
      vote == IF Grants(r) THEN r.from ELSE VoteInTerm(v, r.term)
  IN  /\ r \in voteReqs
      /\ ~Stale(r)
      /\ AdoptTerm(v, r.term)
      /\ votedFor' = [votedFor EXCEPT ![v] = vote]
      /\ disk' = [disk EXCEPT ![v] = MetaWritten(@, r.term, vote, commitIndex[v])]
      /\ ballots' = IF Grants(r)
                    THEN ballots \cup {[voter |-> v, term |-> r.term, candidate |-> r.from]}
                    ELSE ballots
      /\ voteReqs' = voteReqs \ {r}
      /\ voteReps' = voteReps \cup VoteReplies(r, r.term, Grants(r))
      /\ UNCHANGED <<electVars, logVars, leaderVars, appendMsgs, clientVars, counters, leaderHist>>

\* Mutant: a reply may be handled again.
ReceiveVote_Again(m) == m \in voteReps /\ UNCHANGED voteReps

\* The reply as the sender's thread handles it, once it has the lock again.
ReceiveVote(m) == m \in voteReps /\ voteReps' = voteReps \ {m}

\* Mutant: the term alone is compared.
ElectionOpen_NoRole(m) == currentTerm[m.to] = m.electionTerm

\* The test that drops an answer to an election that is over.
ElectionOpen(m) ==
  role[m.to] = "CANDIDATE" /\ currentTerm[m.to] = m.electionTerm

VoteReplyHigherTerm(m) ==
  /\ ReceiveVote(m)
  /\ m.term > currentTerm[m.to]
  /\ StepDown(m.to, m.term)
  /\ UNCHANGED <<electVars, logVars, leaderVars, voteReqs, appendMsgs, clientVars,
                 counters, history>>

VoteReplyIgnored(m) ==
  /\ ReceiveVote(m)
  /\ m.term <= currentTerm[m.to]
  /\ ~(ElectionOpen(m) /\ m.voteGranted)
  /\ UNCHANGED <<nodeVars, electVars, logVars, leaderVars, disk, voteReqs, appendMsgs,
                 clientVars, counters, history>>

\* Mutant: one vote more than the majority is asked for.
Wins_More(m) == votesReceived[m.to] + 1 > Majority

\* A vote that counts: votes_received++, and the majority makes a leader.
Counts(m) ==
  /\ ReceiveVote(m)
  /\ m.term <= currentTerm[m.to]
  /\ ElectionOpen(m) /\ m.voteGranted
  /\ votesReceived' = [votesReceived EXCEPT ![m.to] = @ + 1]
Wins(m) == votesReceived[m.to] + 1 >= Majority

VoteReplyCounted(m) ==
  /\ Counts(m)
  /\ ~Wins(m)
  /\ UNCHANGED <<nodeVars, campaigning, logVars, leaderVars, disk, voteReqs, appendMsgs,
                 clientVars, counters, history>>

VoteReplyWins(m) ==
  /\ Counts(m)
  /\ Wins(m)
  /\ BecomeLeader(m.to, currentTerm[m.to], disk[m.to])
  /\ UNCHANGED <<currentTerm, votedFor, campaigning, voteReqs, appendMsgs, clientVars,
                 counters, ballots>>

-----------------------------------------------------------------------------
(* Replication *)

\* Mutants: one entry at a time; an off-by-one in prevLogIndex.
EntriesFrom_One(l, next) == SubSeq(l, next, Min({next, Len(l)}))
PrevOf_TwoBack(next) == next - 2

\* What replicationLoop sends peer p: everything from nextIndex on.
EntriesFrom(l, next) == SubSeq(l, next, Len(l))
PrevOf(next) == next - 1
AppendRequest(n, p) ==
  LET next == Max({nextIndex[n][p], 1})
  IN  [from |-> n, to |-> p, term |-> currentTerm[n],
       prevLogIndex |-> PrevOf(next), prevLogTerm |-> TermAt(log[n], PrevOf(next)),
       entries |-> EntriesFrom(log[n], next),
       leaderCommit |-> commitIndex[n], live |-> TRUE]

\* The thread for p is inside its RPC.
InRpc(n, p) ==
  \/ \E r \in appendReqs : r.live /\ r.from = n /\ r.to = p
  \/ \E m \in appendReps : m.to = n /\ m.from = p

\* The requests still on their way that nobody waits for.
Orphans(reqs) == {r \in reqs : ~r.live}

SendAppendEntries(n, p) ==
  /\ role[n] = "LEADER"
  /\ ~InRpc(n, p)
  /\ Cardinality(appendReqs \ Orphans(appendReqs)) + Cardinality(appendReps) < MaxInFlight
  /\ appendReqs' = appendReqs \cup {AppendRequest(n, p)}
  /\ UNCHANGED <<nodeVars, electVars, logVars, leaderVars, disk, voteMsgs, appendReps,
                 clientVars, counters, history>>

\* A send or a receive fails or times out; the request may be on its way still.
RpcFails(r) ==
  /\ r \in appendReqs /\ r.live
  /\ \/ appendReqs' = appendReqs \ {r}
     \/ /\ appendReqs' = (appendReqs \ {r}) \cup {[r EXCEPT !.live = FALSE]}
        /\ Cardinality(Orphans(appendReqs')) <= MaxOrphans
  /\ UNCHANGED <<nodeVars, electVars, logVars, leaderVars, disk, voteMsgs, appendReps,
                 clientVars, counters, history>>

LoseAppendReply(m) ==
  /\ m \in appendReps
  /\ appendReps' = appendReps \ {m}
  /\ UNCHANGED <<nodeVars, electVars, logVars, leaderVars, disk, voteMsgs, appendReqs,
                 clientVars, counters, history>>

AppendReplies(r, t, ok) ==
  IF r.live THEN {[from |-> r.to, to |-> r.from, electionTerm |-> r.term,
                   prevIndex |-> r.prevLogIndex, count |-> Len(r.entries),
                   term |-> t, success |-> ok]}
  ELSE {}

RejectStaleAppend(r) ==
  /\ r \in appendReqs
  /\ Stale(r)
  /\ appendReqs' = appendReqs \ {r}
  /\ appendReps' = appendReps \cup AppendReplies(r, currentTerm[r.to], FALSE)
  /\ UNCHANGED <<nodeVars, electVars, logVars, leaderVars, disk, voteMsgs,
                 clientVars, counters, history>>

\* Mutant: the role is left as it is.
Recognise_KeepRole(v, t, leader) ==
  /\ currentTerm' = [currentTerm EXCEPT ![v] = t]
  /\ votedFor' = [votedFor EXCEPT ![v] = VoteInTerm(v, t)]
  /\ leaderId' = [leaderId EXCEPT ![v] = leader]
  /\ UNCHANGED role

\* Step 2: recognise the leader; only a higher term resets the vote.
Recognise(v, t, leader) ==
  /\ currentTerm' = [currentTerm EXCEPT ![v] = t]
  /\ votedFor' = [votedFor EXCEPT ![v] = VoteInTerm(v, t)]
  /\ role' = [role EXCEPT ![v] = "FOLLOWER"]
  /\ leaderId' = [leaderId EXCEPT ![v] = leader]

\* Mutant: the new term is saved with the next vote only.
TermWritten_Lazy(v, t) == disk[v]

\* The files once step 2 has run: metadata.bin is written for a new term only.
TermWritten(v, t) ==
  IF t > currentTerm[v] THEN MetaWritten(disk[v], t, Nil, commitIndex[v]) ELSE disk[v]

\* Step 3 fails.
RejectMismatch(r) ==
  LET v == r.to
  IN  /\ r \in appendReqs
      /\ ~Stale(r)
      /\ ~PrevMatches(log[v], r.prevLogIndex, r.prevLogTerm)
      /\ Recognise(v, r.term, r.from)
      /\ disk' = [disk EXCEPT ![v] = TermWritten(v, r.term)]
      /\ appendReqs' = appendReqs \ {r}
      /\ appendReps' = appendReps \cup AppendReplies(r, r.term, FALSE)
      /\ UNCHANGED <<electVars, logVars, leaderVars, voteMsgs, clientVars, counters, history>>

\* Step 6: what the leader has committed, as far as this request vouches for.
FollowerCommit(r, l, c) ==
  LET new == Min({r.leaderCommit, r.prevLogIndex + Len(r.entries), LastIndex(l)})
  IN  Max({new, c})

AcceptAppend(r) ==
  LET v == r.to
      l == Reconcile(log[v], r.entries)
      c == FollowerCommit(r, l, commitIndex[v])
  IN  /\ r \in appendReqs
      /\ ~Stale(r)
      /\ PrevMatches(log[v], r.prevLogIndex, r.prevLogTerm)
      /\ Recognise(v, r.term, r.from)
      /\ log' = [log EXCEPT ![v] = l]
      /\ commitIndex' = [commitIndex EXCEPT ![v] = c]
      /\ applied' = [applied EXCEPT ![v] = ApplyCommitted(@, l, c)]
      /\ disk' = [disk EXCEPT ![v] =
                    CommitWritten(LogWritten(TermWritten(v, r.term), l), c)]
      /\ appendReqs' = appendReqs \ {r}
      /\ appendReps' = appendReps \cup AppendReplies(r, r.term, TRUE)
      /\ acks' = acks \cup Holding(v, r.term, r.prevLogIndex + Len(r.entries))
      /\ UNCHANGED <<electVars, leaderVars, voteMsgs, clientVars, counters, ballots,
                     elected, termLog>>

\* The reply, in the thread that replicates to m.from.
ReceiveAck(m) == m \in appendReps /\ appendReps' = appendReps \ {m}
StillLeads(m) == role[m.to] = "LEADER" /\ currentTerm[m.to] = m.electionTerm

AppendReplyHigherTerm(m) ==
  /\ ReceiveAck(m)
  /\ m.term > currentTerm[m.to]
  /\ StepDown(m.to, m.term)
  /\ UNCHANGED <<electVars, logVars, leaderVars, voteMsgs, appendReqs, clientVars,
                 counters, history>>

AppendReplyIgnored(m) ==
  /\ ReceiveAck(m)
  /\ m.term <= currentTerm[m.to]
  /\ ~StillLeads(m)
  /\ UNCHANGED <<nodeVars, electVars, logVars, leaderVars, disk, voteMsgs, appendReqs,
                 clientVars, counters, history>>

NewMatch(m) == Max({m.prevIndex + m.count, matchIndex[m.to][m.from]})

\* Mutant: nextIndex stays at the last entry the peer has.
NextAfter_Same(match) == match

NextAfter(match) == match + 1

AppendReplySuccess(m) ==
  LET n == m.to
      match == [matchIndex[n] EXCEPT ![m.from] = NewMatch(m)]
  IN  /\ ReceiveAck(m)
      /\ m.term <= currentTerm[n]
      /\ StillLeads(m) /\ m.success
      /\ matchIndex' = [matchIndex EXCEPT ![n] = match]
      /\ nextIndex' = [nextIndex EXCEPT ![n][m.from] = NextAfter(NewMatch(m))]
      /\ CommitAsLeader(n, log[n], match, currentTerm[n], disk[n])
      /\ UNCHANGED <<nodeVars, electVars, voteMsgs, appendReqs, clientVars, counters, history>>

\* Mutant: never below 2.
BackedUp_Two(i) == IF i > 2 THEN i - 1 ELSE i

\* nextIndex after a failure: back one, never below 1.
BackedUp(i) == IF i > 1 THEN i - 1 ELSE i

AppendReplyFailure(m) ==
  /\ ReceiveAck(m)
  /\ m.term <= currentTerm[m.to]
  /\ StillLeads(m) /\ ~m.success
  /\ nextIndex' = [nextIndex EXCEPT ![m.to][m.from] = BackedUp(@)]
  /\ UNCHANGED <<nodeVars, electVars, logVars, matchIndex, disk, voteMsgs, appendReqs,
                 clientVars, counters, history>>

-----------------------------------------------------------------------------
(* Clients *)

\* proposeAndWait up to its wait.
Propose(n, v) ==
  LET l == Extended(n, currentTerm[n], v)
  IN  /\ role[n] = "LEADER"
      /\ Len(log[n]) < MaxLogLen
      /\ CommitAsLeader(n, l, matchIndex[n], currentTerm[n], disk[n])
      /\ LeaderWrites(n, currentTerm[n], l)
      /\ waiting' = waiting \cup
           {[node |-> n, index |-> LastIndex(l), term |-> currentTerm[n], cmd |-> v]}
      /\ UNCHANGED <<nodeVars, electVars, leaderVars, voteMsgs, appendMsgs, acked,
                     counters, ballots, elected>>

\* Mutant: a leader answers without looking at the commit index.
SeenCommitted_AnyLeader(w) == role[w.node] = "LEADER"

\* What the thread tests when the wait ends: not the term of its entry.
SeenCommitted(w) == commitIndex[w.node] >= w.index /\ role[w.node] = "LEADER"

\* The answer "OK (committed at index ... in term ...)", with the term in which
\* the node really gives it.
Answer(w) == [node |-> w.node, index |-> w.index, term |-> w.term, cmd |-> w.cmd,
              ackTerm |-> currentTerm[w.node]]

ProposalOk(w) ==
  /\ w \in waiting
  /\ SeenCommitted(w)
  /\ waiting' = waiting \ {w}
  /\ acked' = acked \cup {Answer(w)}
  /\ UNCHANGED <<nodeVars, electVars, logVars, leaderVars, disk, voteMsgs, appendMsgs,
                 counters, history>>

\* Leadership lost, or three seconds passed: the client is told it failed.
ProposalFails(w) ==
  /\ w \in waiting
  /\ ~SeenCommitted(w)
  /\ waiting' = waiting \ {w}
  /\ UNCHANGED <<nodeVars, electVars, logVars, leaderVars, disk, voteMsgs, appendMsgs,
                 acked, counters, history>>

-----------------------------------------------------------------------------
(* Crash and recovery *)

\* The requests the dead process waited on, now without an owner.
Disown(reqs, n) ==
  {IF r.from = n THEN [r EXCEPT !.live = FALSE] ELSE r : r \in reqs}

\* Mutant: the persisted lastApplied is trusted and nothing is replayed.
Replay_Skipped(l, c) == <<>>

\* The state machine recover() builds: it starts empty, whatever was applied
\* before the crash.
Replay(l, c) == Commands(SubSeq(l, 1, c))

\* recover() from the files d; its threads, and their RPCs, are gone.
Recover(n, d) ==
  LET c == Min({d.commitIndex, Len(d.log)})
  IN  /\ crashes < MaxCrashes
      /\ crashes' = crashes + 1
      /\ role' = [role EXCEPT ![n] = "FOLLOWER"]
      /\ currentTerm' = [currentTerm EXCEPT ![n] = d.currentTerm]
      /\ votedFor' = [votedFor EXCEPT ![n] = d.votedFor]
      /\ leaderId' = [leaderId EXCEPT ![n] = Nil]
      /\ votesReceived' = [votesReceived EXCEPT ![n] = 0]
      /\ campaigning' = [campaigning EXCEPT ![n] = FALSE]
      /\ log' = [log EXCEPT ![n] = d.log]
      /\ commitIndex' = [commitIndex EXCEPT ![n] = c]
      /\ applied' = [applied EXCEPT ![n] = Replay(d.log, c)]
      /\ nextIndex' = [nextIndex EXCEPT ![n] = [p \in Server |-> 0]]
      /\ matchIndex' = [matchIndex EXCEPT ![n] = [p \in Server |-> 0]]
      /\ disk' = [disk EXCEPT ![n] = [d EXCEPT !.commitIndex = c]]
      /\ voteReps' = {m \in voteReps : m.to # n}
      /\ appendReps' = {m \in appendReps : m.to # n}
      /\ waiting' = {w \in waiting : w.node # n}
      /\ UNCHANGED acked

\* Between two critical sections.
Crash(n) ==
  /\ Recover(n, disk[n])
  /\ voteReqs' = Disown(voteReqs, n)
  /\ appendReqs' = Disown(appendReqs, n)
  /\ UNCHANGED <<history, elections>>

\* In handleRequestVote, stepDown on disk and the vote not yet.
CrashInRequestVote(r) ==
  /\ r \in voteReqs
  /\ r.term > currentTerm[r.to]
  /\ Recover(r.to, MetaWritten(disk[r.to], r.term, Nil, commitIndex[r.to]))
  /\ voteReqs' = Disown(voteReqs \ {r}, r.to)
  /\ appendReqs' = Disown(appendReqs, r.to)
  /\ UNCHANGED <<history, elections>>

\* In handleAppendEntries: after the new term is on disk, or after the log is
\* and before the commit index.
CrashInAppendEntries(r) ==
  LET v == r.to
      d == TermWritten(v, r.term)
  IN  /\ r \in appendReqs
      /\ ~Stale(r)
      /\ PrevMatches(log[v], r.prevLogIndex, r.prevLogTerm)
      /\ \/ Recover(v, d)
         \/ Recover(v, LogWritten(d, Reconcile(log[v], r.entries)))
      /\ voteReqs' = Disown(voteReqs, v)
      /\ appendReqs' = Disown(appendReqs \ {r}, v)
      /\ UNCHANGED <<history, elections>>

\* In becomeLeader of a cluster of one: before or after writelog of the NOOP.
CrashInElectSelf(n) ==
  LET t == currentTerm[n] + 1
      d == MetaWritten(disk[n], t, n, commitIndex[n])
  IN  /\ Majority <= 1
      /\ role[n] # "LEADER"
      /\ elections < MaxElections
      /\ \/ Recover(n, d) /\ UNCHANGED leaderHist
         \/ Recover(n, LogWritten(d, Extended(n, t, NoOp))) /\ Reigns(n, t)
      /\ ballots' = ballots \cup {[voter |-> n, term |-> t, candidate |-> n]}
      /\ elections' = elections + 1
      /\ UNCHANGED <<voteReqs, appendReqs>>

\* In proposeAndWait of a cluster of one: after writelog, before the command
\* is committed and applied.
CrashInPropose(n, v) ==
  /\ Majority <= 1
  /\ role[n] = "LEADER"
  /\ Len(log[n]) < MaxLogLen
  /\ Recover(n, LogWritten(disk[n], Extended(n, currentTerm[n], v)))
  /\ LeaderWrites(n, currentTerm[n], Extended(n, currentTerm[n], v))
  /\ UNCHANGED <<voteReqs, appendReqs, ballots, elected, elections>>

\* In the updateMetaData of an election timeout, between open(O_TRUNC) and
\* write.
CrashInUpdateMetaData(n) ==
  /\ MetaTearing
  /\ role[n] # "LEADER"
  /\ ~campaigning[n]
  /\ Recover(n, MetaTorn(disk[n]))
  /\ voteReqs' = Disown(voteReqs, n)
  /\ appendReqs' = Disown(appendReqs, n)
  /\ UNCHANGED <<history, elections>>

-----------------------------------------------------------------------------
Election ==
  \/ \E n \in Server : ElectionTimeout(n) \/ ElectSelf(n) \/ BroadcastRequestVote(n)
  \/ \E r \in voteReqs : RejectStaleVoteRequest(r) \/ HandleRequestVote(r)
  \/ \E m \in voteReps :
       VoteReplyHigherTerm(m) \/ VoteReplyIgnored(m) \/ VoteReplyCounted(m) \/ VoteReplyWins(m)

Replication ==
  \/ \E n \in Server : \E p \in Peers(n) : SendAppendEntries(n, p)
  \/ \E r \in appendReqs :
       RpcFails(r) \/ RejectStaleAppend(r) \/ RejectMismatch(r) \/ AcceptAppend(r)
  \/ \E m \in appendReps :
       \/ LoseAppendReply(m) \/ AppendReplyHigherTerm(m) \/ AppendReplyIgnored(m)
       \/ AppendReplySuccess(m) \/ AppendReplyFailure(m)

Client ==
  \/ \E n \in Server, v \in Value : Propose(n, v)
  \/ \E w \in waiting : ProposalOk(w) \/ ProposalFails(w)

Failure ==
  \/ \E n \in Server : Crash(n) \/ CrashInElectSelf(n) \/ CrashInUpdateMetaData(n)
  \/ \E n \in Server, v \in Value : CrashInPropose(n, v)
  \/ \E r \in voteReqs : CrashInRequestVote(r)
  \/ \E r \in appendReqs : CrashInAppendEntries(r)

Next == Election \/ Replication \/ Client \/ Failure

Spec == Init /\ [][Next]_vars

-----------------------------------------------------------------------------
(* Properties *)

DiskType == [currentTerm : Nat, votedFor : Server \cup {Nil}, commitIndex : Nat,
             log : Seq(EntryType)]
VoteReqType == [from : Server, to : Server, term : Nat, lastLogIndex : Nat,
                lastLogTerm : Nat, live : BOOLEAN]
VoteRepType == [from : Server, to : Server, electionTerm : Nat, term : Nat,
                voteGranted : BOOLEAN]
AppendReqType == [from : Server, to : Server, term : Nat, prevLogIndex : Nat,
                  prevLogTerm : Nat, entries : Seq(EntryType), leaderCommit : Nat,
                  live : BOOLEAN]
AppendRepType == [from : Server, to : Server, electionTerm : Nat, prevIndex : Nat,
                  count : Nat, term : Nat, success : BOOLEAN]
ProposalType == [node : Server, index : Nat, term : Nat, cmd : Command]
AnswerType == [node : Server, index : Nat, term : Nat, cmd : Command, ackTerm : Nat]

\* Every variable has the type of the field or message it models.
TypeOK ==
  /\ role \in [Server -> Role]
  /\ currentTerm \in [Server -> Nat]
  /\ votedFor \in [Server -> Server \cup {Nil}]
  /\ leaderId \in [Server -> Server \cup {Nil}]
  /\ votesReceived \in [Server -> Nat]
  /\ campaigning \in [Server -> BOOLEAN]
  /\ log \in [Server -> Seq(EntryType)]
  /\ commitIndex \in [Server -> Nat]
  /\ applied \in [Server -> Seq(Command)]
  /\ nextIndex \in [Server -> [Server -> Nat]]
  /\ matchIndex \in [Server -> [Server -> Nat]]
  /\ disk \in [Server -> DiskType]
  /\ voteReqs \subseteq VoteReqType /\ voteReps \subseteq VoteRepType
  /\ appendReqs \subseteq AppendReqType /\ appendReps \subseteq AppendRepType
  /\ waiting \subseteq ProposalType /\ acked \subseteq AnswerType
  /\ elections \in Nat /\ crashes \in Nat
  /\ ballots \subseteq [voter : Server, term : Nat, candidate : Server]
  /\ elected \subseteq [term : Nat, leader : Server]
  /\ DOMAIN termLog \subseteq Nat /\ termLog \in [DOMAIN termLog -> Seq(EntryType)]
  /\ acks \subseteq [node : Server, term : Nat, index : Nat]

\* At most one node is ever elected in a term, counting leaders that have since
\* crashed (design.md section 12).
ElectionSafety ==
  \A a, b \in elected : a.term = b.term => a.leader = b.leader

\* A node gives its vote to one candidate a term, whatever it forgets in a
\* crash (handleRequestVote: "persist BEFORE replying").
OneVotePerTerm ==
  \A a, b \in ballots : a.voter = b.voter /\ a.term = b.term => a.candidate = b.candidate

\* When no thread holds raft_mutex the files hold the term, the vote, the log
\* and the commit index that are in memory: no answer leaves before its state.
DurableState ==
  \A n \in Server : disk[n] = [currentTerm |-> currentTerm[n], votedFor |-> votedFor[n],
                               commitIndex |-> commitIndex[n], log |-> log[n]]

\* The leader a node names in NOT_LEADER did win the node's current term.
LeaderHintSound ==
  \A n \in Server : leaderId[n] # Nil =>
    [term |-> currentTerm[n], leader |-> leaderId[n]] \in elected

\* Two logs with the same term at an index are the same up to it, and entry i
\* is at position i: the code uses one for the other.
LogMatching ==
  /\ \A n \in Server : \A i \in 1..Len(log[n]) : log[n][i].index = i
  /\ \A n, p \in Server : \A i \in 1..Min({Len(log[n]), Len(log[p])}) :
       log[n][i].term = log[p][i].term => SubSeq(log[n], 1, i) = SubSeq(log[p], 1, i)

\* The state machines have been given the same commands in the same order, as
\* far as each has come (design.md section 12).
StateMachineSafety ==
  \A n, p \in Server : IsPrefix(applied[n], applied[p]) \/ IsPrefix(applied[p], applied[n])

\* A leader has every entry that a node of its term or an earlier one counts as
\* committed.
LeaderCompleteness ==
  \A n, p \in Server : role[n] = "LEADER" /\ currentTerm[p] <= currentTerm[n] =>
    IsPrefix(SubSeq(log[p], 1, commitIndex[p]), log[n])

\* What a leader believes replicated is in the peer's log, as long as the peer
\* has not gone on to another term.
MatchIndexSound ==
  \A n, p \in Server : role[n] = "LEADER" /\ currentTerm[p] = currentTerm[n] =>
    /\ matchIndex[n][p] <= Len(log[p])
    /\ IsPrefix(SubSeq(log[p], 1, matchIndex[n][p]), log[n])

\* A peer that has acknowledged anything has the leader's own NOOP: what the
\* count of advanceCommit adds up is always of the current term.
MatchCoversNoop ==
  \A n, p \in Server : role[n] = "LEADER" /\ matchIndex[n][p] > 0 =>
    TermAt(log[n], matchIndex[n][p]) = currentTerm[n]

\* A leader never sends a peer what the peer has acknowledged, nor skips past
\* its own log.
NextIndexInRange ==
  \A n \in Server : role[n] = "LEADER" => \A p \in Peers(n) :
    matchIndex[n][p] < nextIndex[n][p] /\ nextIndex[n][p] <= Len(log[n]) + 1

\* Within a term, a leader only appends to its log.
LeaderAppendOnly ==
  [][\A n \in Server : role[n] = "LEADER" /\ role'[n] = "LEADER"
       => IsPrefix(log[n], log'[n])]_vars

\* The committed part of a node's log, as it stands, is what the node's state
\* machine has been given: lastApplied keeps up and nothing applied is rewritten
\* behind it.
Committed(n) == SubSeq(log[n], 1, commitIndex[n])
AppliedIsCommitted == \A n \in Server : applied[n] = Commands(Committed(n))

\* What a node has counted as committed it never loses or replaces, neither when
\* a leader overwrites its log nor in a crash.
CommitStable ==
  [][\A n \in Server : IsPrefix(Committed(n), Committed(n)')]_vars

\* The write a client was told is committed is the one that every node applies
\* at that index (README.md: "without losing an acknowledged write").
DurableAt(a) == \A n \in Server : Len(applied[n]) >= a.index => applied[n][a.index] = a.cmd
AckedDurable == \A a \in acked : DurableAt(a)

\* The same for an answer given in the term in which the command was taken.
AckedInTermDurable == \A a \in acked : a.ackTerm = a.term => DurableAt(a)

-----------------------------------------------------------------------------
(* Why a term has one leader: the parts of an inductive invariant *)

Ballot(v, t, c) == [voter |-> v, term |-> t, candidate |-> c]

\* A node remembers the vote it gave in its current term, and gave none beyond.
BallotsRemembered ==
  \A b \in ballots :
    /\ b.term <= currentTerm[b.voter]
    /\ b.term = currentTerm[b.voter] => votedFor[b.voter] = b.candidate

\* RPCs of an election go to the peers and belong to a term the candidate has
\* reached; one that has not broadcast yet has none under way in its own term.
Past(n, t) == t <= currentTerm[n] /\ (campaigning[n] => t < currentTerm[n])
ElectionRpcsPast ==
  /\ \A r \in voteReqs : r.from # r.to /\ Past(r.from, r.term)
  /\ \A m \in voteReps : m.from # m.to /\ Past(m.to, m.electionTerm)

\* One RPC for a peer and an election: its request or its reply.
Pending(n, p, t) ==
  \/ \E r \in voteReqs : r.live /\ r.from = n /\ r.to = p /\ r.term = t
  \/ \E m \in voteReps : m.to = n /\ m.from = p /\ m.electionTerm = t
OneRpcPerPeer ==
  /\ \A r, q \in voteReqs : r.live /\ q.live /\ r.from = q.from /\ r.to = q.to
       /\ r.term = q.term => r = q
  /\ \A m, k \in voteReps : m.to = k.to /\ m.from = k.from
       /\ m.electionTerm = k.electionTerm => m = k
  /\ \A r \in voteReqs, m \in voteReps :
       ~(r.live /\ r.from = m.to /\ r.to = m.from /\ r.term = m.electionTerm)

\* A granted vote on its way was given.
RepliesBacked ==
  \A m \in voteReps : m.voteGranted => Ballot(m.from, m.electionTerm, m.to) \in ballots

\* votes_received is a mere counter, but no vote is counted twice: there are as
\* many voters whose RPC is over.
CountedVoters(n) ==
  {v \in Server : Ballot(v, currentTerm[n], n) \in ballots /\ ~Pending(n, v, currentTerm[n])}
VotesBacked ==
  \A n \in Server : role[n] = "CANDIDATE" =>
    /\ Ballot(n, currentTerm[n], n) \in ballots
    /\ votesReceived[n] <= Cardinality(CountedVoters(n))
    /\ campaigning[n] => votesReceived[n] <= 1

\* A leader was elected by a majority.
ElectedByMajority ==
  \A e \in elected : \E Q \in SUBSET Server :
    /\ Cardinality(Q) >= Majority
    /\ \A v \in Q : Ballot(v, e.term, e.leader) \in ballots

\* The inductive invariant behind ElectionSafety: votes are remembered, given
\* once, counted once, and a majority of them makes a leader.
ElectionInv ==
  /\ BallotsRemembered /\ OneVotePerTerm
  /\ ElectionRpcsPast /\ OneRpcPerPeer /\ RepliesBacked
  /\ VotesBacked /\ ElectedByMajority
=============================================================================
