------------------------------ MODULE SafetyProof ------------------------------
(***************************************************************************)
(* What a cluster promises, for every set of servers and every bound, on   *)
(* the assumption that metadata.bin is never found truncated: committed    *)
(* entries stay and later leaders have them, the state machines are given  *)
(* the same commands, and an acknowledged write of the term is durable.    *)
(* All of it follows from LogInv and CommitInv.  At the end a cluster of   *)
(* one, which keeps every acknowledged write, torn metadata or not.        *)
(***************************************************************************)
EXTENDS CommitProof

-----------------------------------------------------------------------------
(* Prefixes and agreement *)

LEMMA AgreeIsPrefix ==
  ASSUME NEW l \in Seq(EntryType), NEW m \in Seq(EntryType), NEW k \in Nat, AgreeUpTo(l, m, k)
  PROVE  SubSeq(l, 1, k) = SubSeq(m, 1, k) /\ IsPrefix(SubSeq(l, 1, k), m)
<1>1. k <= Len(l) /\ k <= Len(m) /\ \A i \in 1..k : l[i] = m[i]
  BY DEF AgreeUpTo
<1>2. /\ SubSeq(l, 1, k) \in Seq(EntryType) /\ Len(SubSeq(l, 1, k)) = k
      /\ \A i \in 1..k : SubSeq(l, 1, k)[i] = l[i]
  BY <1>1, PrefixFacts
<1>3. /\ SubSeq(m, 1, k) \in Seq(EntryType) /\ Len(SubSeq(m, 1, k)) = k
      /\ \A i \in 1..k : SubSeq(m, 1, k)[i] = m[i]
  BY <1>1, PrefixFacts
<1>4. SubSeq(l, 1, k) = SubSeq(m, 1, k)
  <2>. DEFINE a == SubSeq(l, 1, k)
              b == SubSeq(m, 1, k)
  <2>1. a \in Seq(EntryType) /\ b \in Seq(EntryType) /\ Len(a) = Len(b)
        /\ \A i \in 1..Len(a) : a[i] = b[i]
    BY <1>1, <1>2, <1>3
  <2>. HIDE DEF a, b
  <2>2. a = b
    BY <2>1, SeqEqual
  <2>. QED  BY <2>2 DEF a, b
<1>5. IsPrefix(SubSeq(l, 1, k), m)
  <2>1. SubSeq(SubSeq(l, 1, k), 1, k) = SubSeq(l, 1, k)
    <3>. DEFINE a == SubSeq(l, 1, k)
    <3>1. a \in Seq(EntryType) /\ Len(a) = k
      BY <1>2
    <3>. HIDE DEF a
    <3>. QED  BY <3>1
  <2>. QED  BY <1>1, <1>2, <1>4, <2>1 DEF IsPrefix
<1>. QED  BY <1>4, <1>5

-----------------------------------------------------------------------------
(* Leader completeness *)

LEMMA CommittedInLeader ==
  ASSUME TypeOK, LogInv, CommitInv
  PROVE  LeaderCompleteness
<1>. SUFFICES ASSUME NEW n \in Server, NEW p \in Server, role[n] = "LEADER",
                     currentTerm[p] <= currentTerm[n]
              PROVE  IsPrefix(SubSeq(log[p], 1, commitIndex[p]), log[n])
  BY DEF LeaderCompleteness
<1>1. /\ log[p] \in Seq(EntryType) /\ log[n] \in Seq(EntryType)
      /\ commitIndex[p] \in Nat /\ currentTerm[p] \in Nat
  BY DEF TypeOK
<1>2. currentTerm[n] \in DOMAIN termLog /\ log[n] = termLog[currentTerm[n]]
  BY LeaderFacts
<1>3. Settled(log[p], commitIndex[p], currentTerm[p], termLog, acks)
  BY DEF CommitInv, CommitsSettled
<1>4. AgreeUpTo(log[p], log[n], commitIndex[p])
  BY <1>1, <1>2, <1>3, SettledLater DEF CommitInv
<1>. QED  BY <1>1, <1>4, AgreeIsPrefix

\* A leader has every entry that any node of its term or an earlier one counts
\* as committed: what the election restriction of handleRequestVote and the rule
\* of advanceCommit, to count for entries of the current term only, are for.
THEOREM LeadersAreComplete == ~MetaTearing => (Spec => []LeaderCompleteness)
<1>. SUFFICES ASSUME ~MetaTearing PROVE Spec => []LeaderCompleteness
  OBVIOUS
<1>1. TypeOK /\ LogInv /\ CommitInv => LeaderCompleteness
  BY CommittedInLeader
<1>. QED  BY <1>1, TypeCorrect, LogInvariant, CommitInvariant, PTL

-----------------------------------------------------------------------------
(* What leaders count *)

LEMMA MatchInPeer ==
  ASSUME TypeOK, LogInv, CommitInv
  PROVE  MatchIndexSound
<1>. SUFFICES ASSUME NEW n \in Server, NEW p \in Server, role[n] = "LEADER",
                     currentTerm[p] = currentTerm[n]
              PROVE  /\ matchIndex[n][p] <= Len(log[p])
                     /\ IsPrefix(SubSeq(log[p], 1, matchIndex[n][p]), log[n])
  BY DEF MatchIndexSound
<1>. DEFINE k == matchIndex[n][p]
            t == currentTerm[n]
<1>1. /\ log[p] \in Seq(EntryType) /\ log[n] \in Seq(EntryType) /\ k \in Nat /\ t \in Nat
  BY DEF TypeOK
<1>2. t \in DOMAIN termLog /\ log[n] = termLog[t]
  BY LeaderFacts
<1>3. AgreeUpTo(log[p], log[n], k)
  <2>1. CASE k = 0
    <3>1. Len(log[p]) \in Nat /\ Len(log[n]) \in Nat
      BY <1>1
    <3>. QED  BY <2>1, <3>1 DEF AgreeUpTo
  <2>2. CASE k # 0
    <3>1. k \in 1..k
      BY <1>1, <2>2
    <3>2. Ack(p, t, k) \in acks
      BY <3>1 DEF CommitInv, MatchesHeld
    <3>3. Held(Ack(p, t, k))
      BY <3>2 DEF CommitInv, AcksHeld
    <3>4. AgreeUpTo(log[p], termLog[t], k)
      BY <3>3 DEF Held, Ack
    <3>. QED  BY <1>2, <3>4
  <2>. QED  BY <2>1, <2>2
<1>. HIDE DEF k, t
<1>4. k <= Len(log[p])
  BY <1>3 DEF AgreeUpTo
<1>5. IsPrefix(SubSeq(log[p], 1, k), log[n])
  BY <1>1, <1>3, AgreeIsPrefix
<1>. QED  BY <1>4, <1>5 DEF k

\* What a leader believes replicated to a peer is there as long as the peer has
\* not gone on to another term, whatever replies were lost, late or out of order
\* and whatever the peer has been through since.
THEOREM MatchesAreSound == ~MetaTearing => (Spec => []MatchIndexSound)
<1>. SUFFICES ASSUME ~MetaTearing PROVE Spec => []MatchIndexSound
  OBVIOUS
<1>1. TypeOK /\ LogInv /\ CommitInv => MatchIndexSound
  BY MatchInPeer
<1>. QED  BY <1>1, TypeCorrect, LogInvariant, CommitInvariant, PTL

-----------------------------------------------------------------------------
(* What is committed stays *)

LEMMA PointwisePrefix ==
  ASSUME NEW S, NEW s \in Seq(S), NEW t \in Seq(S), Len(s) <= Len(t),
         \A i \in 1..Len(s) : s[i] = t[i]
  PROVE  IsPrefix(s, t)
<1>1. SubSeq(s, 1, Len(s)) = s
  OBVIOUS
<1>2. Len(s) \in Nat /\ SubSeq(t, 1, Len(s)) \in Seq(S) /\ Len(SubSeq(t, 1, Len(s))) = Len(s)
      /\ \A i \in 1..Len(s) : SubSeq(t, 1, Len(s))[i] = t[i]
  OBVIOUS
<1>3. SubSeq(t, 1, Len(s)) = s
  BY <1>2, SeqEqual
<1>. QED  BY <1>1, <1>3 DEF IsPrefix

LEMMA PrefixOfPrefix ==
  ASSUME NEW l \in Seq(EntryType), NEW m \in Seq(EntryType), NEW c \in Nat, NEW d \in Nat,
         AgreeUpTo(l, m, c), c <= d, d <= Len(m)
  PROVE  IsPrefix(SubSeq(l, 1, c), SubSeq(m, 1, d))
<1>1. /\ SubSeq(m, 1, d) \in Seq(EntryType) /\ Len(SubSeq(m, 1, d)) = d
      /\ \A i \in 1..d : SubSeq(m, 1, d)[i] = m[i]
  BY PrefixFacts
<1>2. AgreeUpTo(l, SubSeq(m, 1, d), c)
  <2>. DEFINE o == SubSeq(m, 1, d)
  <2>1. Len(o) = d /\ \A i \in 1..c : o[i] = m[i]
    BY <1>1
  <2>. HIDE DEF o
  <2>2. AgreeUpTo(l, o, c)
    BY <2>1 DEF AgreeUpTo
  <2>. QED  BY <2>2 DEF o
<1>. QED  BY <1>1, <1>2, AgreeIsPrefix

StableStep == \A n \in Server : IsPrefix(Committed(n), Committed(n)')

LEMMA CommittedStays ==
  ASSUME TypeOK, TypeOK', CommitsWithin', \A n \in Server : NodeCommits(n)
  PROVE  StableStep
<1>. SUFFICES ASSUME NEW n \in Server
              PROVE  IsPrefix(SubSeq(log[n], 1, commitIndex[n]), SubSeq(log'[n], 1, commitIndex'[n]))
  BY DEF StableStep, Committed
<1>1. /\ commitIndex[n] \in Nat /\ commitIndex'[n] \in Nat
      /\ log[n] \in Seq(EntryType) /\ log'[n] \in Seq(EntryType)
  BY NodeTypes
<1>2. commitIndex'[n] <= Len(log'[n])
  BY DEF CommitsWithin
<1>3. AgreeUpTo(log[n], log'[n], commitIndex[n]) /\ commitIndex[n] <= commitIndex'[n]
  BY AgreeFacts DEF NodeCommits
<1>. QED  BY <1>1, <1>2, <1>3, PrefixOfPrefix

LEMMA CommitsAreWithinAfter ==
  ASSUME TypeOK', CommitInv'
  PROVE  CommitsWithin'
<1>1. ASSUME NEW n \in Server PROVE commitIndex'[n] <= Len(log'[n])
  <2>1. Settled(log'[n], commitIndex'[n], currentTerm'[n], termLog', acks')
    BY DEF CommitInv, CommitsSettled
  <2>2. Len(log'[n]) \in Nat
    BY LogTypesAfter
  <2>. QED  BY <2>1, <2>2 DEF Settled, AgreeUpTo
<1>. QED  BY <1>1 DEF CommitsWithin

\* What a node has counted as committed it never loses or replaces: neither when
\* handleAppendEntries deletes what conflicts with a leader's entries, nor when
\* recover() finds less on disk than the node had in memory.
THEOREM CommitsAreStable == ~MetaTearing => (Spec => CommitStable)
<1>1. /\ TypeOK /\ TypeOK' /\ DurableState /\ ElectionInv /\ ElectionInv' /\ ElectionSafety'
      /\ LogInv /\ LogInv' /\ CommitInv /\ CommitInv' /\ ~MetaTearing /\ [Next]_vars
      => [StableStep]_vars
  BY CommitInvStep, CommitsAreWithinAfter, CommittedStays
<1>2. ~MetaTearing => (Spec => [][StableStep]_vars)
  <2>. SUFFICES ASSUME ~MetaTearing PROVE Spec => [][StableStep]_vars
    OBVIOUS
  <2>1. /\ TypeOK /\ TypeOK' /\ DurableState /\ ElectionInv /\ ElectionInv' /\ ElectionSafety'
        /\ LogInv /\ LogInv' /\ CommitInv /\ CommitInv' /\ [Next]_vars
        => [StableStep]_vars
    BY <1>1
  <2>. QED  BY <2>1, TypeCorrect, Durable, AtMostOneLeader, ElectionInvariant,
               LogInvariant, CommitInvariant, PTL DEF Spec
<1>. QED  BY <1>2 DEF CommitStable, StableStep

-----------------------------------------------------------------------------
(* What the state machines are given *)

LEMMA PartFacts ==
  ASSUME NEW l \in Seq(EntryType), NEW i \in Nat, NEW j \in Nat, i <= j, j <= Len(l)
  PROVE  /\ SubSeq(l, i + 1, j) \in Seq(EntryType) /\ Len(SubSeq(l, i + 1, j)) = j - i
         /\ \A k \in 1 .. j - i : SubSeq(l, i + 1, j)[k] = l[i + k]
  OBVIOUS

LEMMA CommandFacts ==
  ASSUME NEW l \in Seq(EntryType)
  PROVE  /\ Commands(l) \in Seq(Command) /\ Len(Commands(l)) = Len(l)
         /\ \A k \in 1..Len(l) : Commands(l)[k] = l[k].cmd
<1>1. \A e \in EntryType : e.cmd \in Command
  BY DEF EntryType
<1>. QED  BY <1>1, CommandsType DEF Commands

\* The commands of a part of a log, one by one.
LEMMA PartCommands ==
  ASSUME NEW l \in Seq(EntryType), NEW i \in Nat, NEW j \in Nat, i <= j, j <= Len(l)
  PROVE  /\ Commands(SubSeq(l, i + 1, j)) \in Seq(Command)
         /\ Len(Commands(SubSeq(l, i + 1, j))) = j - i
         /\ \A k \in 1 .. j - i : Commands(SubSeq(l, i + 1, j))[k] = l[i + k].cmd
<1>. DEFINE p == SubSeq(l, i + 1, j)
<1>1. p \in Seq(EntryType) /\ Len(p) = j - i /\ \A k \in 1 .. j - i : p[k] = l[i + k]
  BY PartFacts
<1>. HIDE DEF p
<1>2. /\ Commands(p) \in Seq(Command) /\ Len(Commands(p)) = j - i
      /\ \A k \in 1 .. j - i : Commands(p)[k] = l[i + k].cmd
  BY <1>1, CommandFacts
<1>. QED  BY <1>2 DEF p

LEMMA PrefixCommands ==
  ASSUME NEW l \in Seq(EntryType), NEW j \in Nat, j <= Len(l)
  PROVE  /\ Commands(SubSeq(l, 1, j)) \in Seq(Command)
         /\ Len(Commands(SubSeq(l, 1, j))) = j
         /\ \A k \in 1..j : Commands(SubSeq(l, 1, j))[k] = l[k].cmd
<1>. DEFINE p == SubSeq(l, 1, j)
<1>1. p \in Seq(EntryType) /\ Len(p) = j /\ \A k \in 1..j : p[k] = l[k]
  BY PrefixFacts
<1>. HIDE DEF p
<1>2. /\ Commands(p) \in Seq(Command) /\ Len(Commands(p)) = j
      /\ \A k \in 1..j : Commands(p)[k] = l[k].cmd
  BY <1>1, CommandFacts
<1>. QED  BY <1>2 DEF p

\* applyCommitted goes on where the state machine is.
LEMMA AppliedOn ==
  ASSUME NEW l \in Seq(EntryType), NEW m \in Seq(EntryType), NEW c \in Nat, NEW d \in Nat,
         AgreeUpTo(m, l, c), c <= d, d <= Len(m)
  PROVE  ApplyCommitted(Commands(SubSeq(l, 1, c)), m, d) = Commands(SubSeq(m, 1, d))
<1>. DEFINE a == Commands(SubSeq(l, 1, c))
            b == Commands(SubSeq(m, c + 1, d))
            o == Commands(SubSeq(m, 1, d))
<1>1. c <= Len(l) /\ \A k \in 1..c : m[k] = l[k]
  BY DEF AgreeUpTo
<1>2. a \in Seq(Command) /\ Len(a) = c /\ \A k \in 1..c : a[k] = l[k].cmd
  BY <1>1, PrefixCommands
<1>3. b \in Seq(Command) /\ Len(b) = d - c /\ \A k \in 1 .. d - c : b[k] = m[c + k].cmd
  BY PartCommands
<1>4. o \in Seq(Command) /\ Len(o) = d /\ \A k \in 1..d : o[k] = m[k].cmd
  BY PrefixCommands
<1>5. Min({d, Len(m)}) = d
  <2>1. Len(m) \in Nat
    OBVIOUS
  <2>. QED  BY <2>1, MinIsFirst
<1>6. ApplyCommitted(a, m, d) = a \o b
  <2>1. Len(a) = c
    BY <1>2
  <2>. QED  BY <1>5, <2>1 DEF ApplyCommitted
<1>. HIDE DEF a, b, o
<1>7. /\ a \o b \in Seq(Command) /\ Len(a \o b) = d
      /\ \A k \in 1..d : (a \o b)[k] = IF k <= c THEN a[k] ELSE b[k - c]
  <2>1. /\ a \o b \in Seq(Command) /\ Len(a \o b) = Len(a) + Len(b)
        /\ \A k \in 1 .. Len(a) + Len(b) :
             (a \o b)[k] = IF k <= Len(a) THEN a[k] ELSE b[k - Len(a)]
    BY <1>2, <1>3, ConcatProperties, ZenonT(60)
  <2>2. Len(a) = c /\ Len(a) + Len(b) = d
    BY <1>2, <1>3
  <2>. QED  BY <2>1, <2>2
<1>8. ASSUME NEW k \in 1..d PROVE (a \o b)[k] = o[k]
  <2>1. CASE k <= c
    <3>1. k \in 1..c
      BY <2>1
    <3>. QED  BY <1>1, <1>2, <1>4, <1>7, <2>1, <3>1
  <2>2. CASE ~(k <= c)
    <3>1. k - c \in 1 .. d - c /\ c + (k - c) = k
      BY <2>2
    <3>2. (a \o b)[k] = b[k - c]
      BY <1>7, <2>2
    <3>3. b[k - c] = m[c + (k - c)].cmd
      BY <1>3, <3>1
    <3>. QED  BY <1>4, <3>1, <3>2, <3>3
  <2>. QED  BY <2>1, <2>2
<1>9. a \o b = o
  BY <1>4, <1>7, <1>8, SeqEqual
<1>. QED  BY <1>6, <1>9 DEF a, b, o

\* Node n's state machine: as it is, given more of the log, or built anew.
NodeApplies(n) ==
  \/ /\ applied'[n] = applied[n] /\ log'[n] = log[n] /\ commitIndex'[n] = commitIndex[n]
  \/ applied'[n] = ApplyCommitted(applied[n], log'[n], commitIndex'[n])
  \/ applied'[n] = Replay(log'[n], commitIndex'[n])
AllApply == \A n \in Server : NodeApplies(n)

LEMMA OneApplies ==
  ASSUME TypeOK, NEW v \in Server, NEW l, NEW c, NEW a,
         log' = [log EXCEPT ![v] = l], commitIndex' = [commitIndex EXCEPT ![v] = c],
         applied' = [applied EXCEPT ![v] = a],
         a = ApplyCommitted(applied[v], l, c) \/ a = Replay(l, c)
  PROVE  AllApply
<1>1. log \in [Server -> Seq(EntryType)] /\ commitIndex \in [Server -> Nat]
      /\ applied \in [Server -> Seq(Command)]
  BY DEF TypeOK
<1>2. log'[v] = l /\ commitIndex'[v] = c /\ applied'[v] = a
  BY <1>1
<1>3. \A n \in Server \ {v} :
        applied'[n] = applied[n] /\ log'[n] = log[n] /\ commitIndex'[n] = commitIndex[n]
  BY <1>1
<1>. QED  BY <1>2, <1>3 DEF AllApply, NodeApplies

LEMMA NoneApplies ==
  ASSUME UNCHANGED logVars
  PROVE  AllApply
  BY DEF AllApply, NodeApplies, logVars

LEMMA LeaderApplies ==
  ASSUME TypeOK, NEW n \in Server, NEW l, NEW match, NEW t, NEW d, CommitAsLeader(n, l, match, t, d)
  PROVE  AllApply
<1>. DEFINE c == AdvancedCommit(n, l, match, t, commitIndex[n])
<1>1. /\ log' = [log EXCEPT ![n] = l] /\ commitIndex' = [commitIndex EXCEPT ![n] = c]
      /\ applied' = [applied EXCEPT ![n] = ApplyCommitted(@, l, c)]
  BY DEF CommitAsLeader
<1>. HIDE DEF c
<1>. QED  BY <1>1, OneApplies

LEMMA RecoveredApplies ==
  ASSUME TypeOK, NEW n \in Server, NEW d, Recover(n, d)
  PROVE  AllApply
<1>. DEFINE c == Min({d.commitIndex, Len(d.log)})
<1>1. /\ log' = [log EXCEPT ![n] = d.log] /\ commitIndex' = [commitIndex EXCEPT ![n] = c]
      /\ applied' = [applied EXCEPT ![n] = Replay(d.log, c)]
  BY DEF Recover
<1>. HIDE DEF c
<1>. QED  BY <1>1, OneApplies

LEMMA StepsApply ==
  ASSUME TypeOK, Next
  PROVE  AllApply
<1>1. CASE Election
  <2>1. ASSUME NEW n \in Server, ElectSelf(n) PROVE AllApply
    BY <2>1, LeaderApplies DEF ElectSelf, BecomeLeader
  <2>2. ASSUME NEW m \in voteReps, VoteReplyWins(m) PROVE AllApply
    <3>1. m.to \in Server
      BY DEF TypeOK, VoteRepType
    <3>. QED  BY <2>2, <3>1, LeaderApplies DEF VoteReplyWins, BecomeLeader
  <2>. QED  BY <1>1, <2>1, <2>2, NoneApplies
            DEF Election, ElectionTimeout, BroadcastRequestVote, RejectStaleVoteRequest,
                HandleRequestVote, VoteReplyHigherTerm, VoteReplyIgnored, VoteReplyCounted
<1>2. CASE Replication
  <2>1. ASSUME NEW r \in appendReqs, AcceptAppend(r) PROVE AllApply
    <3>. DEFINE l == Reconcile(log[r.to], r.entries)
                c == FollowerCommit(r, l, commitIndex[r.to])
    <3>1. /\ log' = [log EXCEPT ![r.to] = l]
          /\ commitIndex' = [commitIndex EXCEPT ![r.to] = c]
          /\ applied' = [applied EXCEPT ![r.to] = ApplyCommitted(@, l, c)]
      BY <2>1 DEF AcceptAppend
    <3>2. r.to \in Server
      BY LogTypes
    <3>. HIDE DEF l, c
    <3>. QED  BY <3>1, <3>2, OneApplies
  <2>2. ASSUME NEW m \in appendReps, AppendReplySuccess(m) PROVE AllApply
    <3>1. m.to \in Server
      BY LogTypes
    <3>. QED  BY <2>2, <3>1, LeaderApplies DEF AppendReplySuccess
  <2>. QED  BY <1>2, <2>1, <2>2, NoneApplies
            DEF Replication, SendAppendEntries, RpcFails, RejectStaleAppend, RejectMismatch,
                LoseAppendReply, AppendReplyHigherTerm, AppendReplyIgnored, AppendReplyFailure
<1>3. CASE Client
  <2>1. ASSUME NEW n \in Server, NEW v \in Value, Propose(n, v) PROVE AllApply
    BY <2>1, LeaderApplies DEF Propose
  <2>. QED  BY <1>3, <2>1, NoneApplies DEF Client, ProposalOk, ProposalFails
<1>4. CASE Failure
  <2>1. \A r \in voteReqs : r.to \in Server
    BY DEF TypeOK, VoteReqType
  <2>2. \A r \in appendReqs : r.to \in Server
    BY LogTypes
  <2>. QED  BY <1>4, <2>1, <2>2, RecoveredApplies
            DEF Failure, Crash, CrashInElectSelf, CrashInUpdateMetaData, CrashInPropose,
                CrashInRequestVote, CrashInAppendEntries
<1>. QED  BY <1>1, <1>2, <1>3, <1>4 DEF Next

LEMMA AppliedStep ==
  ASSUME TypeOK, TypeOK', CommitsWithin', \A n \in Server : NodeCommits(n), AllApply,
         AppliedIsCommitted
  PROVE  AppliedIsCommitted'
<1>. SUFFICES ASSUME NEW n \in Server
              PROVE  applied'[n] = Commands(SubSeq(log'[n], 1, commitIndex'[n]))
  BY DEF AppliedIsCommitted, Committed
<1>1. /\ commitIndex[n] \in Nat /\ commitIndex'[n] \in Nat
      /\ log[n] \in Seq(EntryType) /\ log'[n] \in Seq(EntryType)
  BY NodeTypes
<1>2. commitIndex'[n] <= Len(log'[n])
  BY DEF CommitsWithin
<1>3. AgreeUpTo(log'[n], log[n], commitIndex[n]) /\ commitIndex[n] <= commitIndex'[n]
  BY DEF NodeCommits
<1>4. applied[n] = Commands(SubSeq(log[n], 1, commitIndex[n]))
  BY DEF AppliedIsCommitted, Committed
<1>5. CASE applied'[n] = applied[n] /\ log'[n] = log[n] /\ commitIndex'[n] = commitIndex[n]
  BY <1>4, <1>5
<1>6. CASE applied'[n] = ApplyCommitted(applied[n], log'[n], commitIndex'[n])
  BY <1>1, <1>2, <1>3, <1>4, <1>6, AppliedOn
<1>7. CASE applied'[n] = Replay(log'[n], commitIndex'[n])
  BY <1>7 DEF Replay
<1>. QED  BY <1>5, <1>6, <1>7 DEF AllApply, NodeApplies

LEMMA AppliedInit == Init => AppliedIsCommitted
<1>1. ASSUME Init, NEW n \in Server PROVE applied[n] = Commands(Committed(n))
  <2>1. applied[n] = <<>> /\ log[n] = <<>> /\ commitIndex[n] = 0
    BY <1>1 DEF Init
  <2>2. Commands(SubSeq(<<>>, 1, 0)) = <<>>
    BY DEF Commands
  <2>. QED  BY <2>1, <2>2 DEF Committed
<1>. QED  BY <1>1 DEF AppliedIsCommitted

\* lastApplied keeps up with the commit index, and what a state machine was given
\* is still what the log says: no entry is applied that is rewritten later, and
\* the replay of recover() gives a restarted node what it had been given.
THEOREM AppliedAsCommitted == ~MetaTearing => (Spec => []AppliedIsCommitted)
<1>. SUFFICES ASSUME ~MetaTearing PROVE Spec => []AppliedIsCommitted
  OBVIOUS
<1>1. /\ TypeOK /\ TypeOK' /\ DurableState /\ ElectionInv /\ ElectionInv' /\ ElectionSafety'
      /\ LogInv /\ LogInv' /\ CommitInv /\ CommitInv' /\ AppliedIsCommitted /\ [Next]_vars
      => AppliedIsCommitted'
  <2>1. ASSUME TypeOK, TypeOK', DurableState, ElectionInv, ElectionInv', ElectionSafety',
               LogInv, LogInv', CommitInv, CommitInv', AppliedIsCommitted, Next
        PROVE  AppliedIsCommitted'
    <3>1. \A n \in Server : NodeCommits(n)
      BY <2>1, CommitInvStep
    <3>2. CommitsWithin'
      BY <2>1, CommitsAreWithinAfter
    <3>3. AllApply
      BY <2>1, StepsApply
    <3>. QED  BY <2>1, <3>1, <3>2, <3>3, AppliedStep
  <2>2. ASSUME AppliedIsCommitted, UNCHANGED vars PROVE AppliedIsCommitted'
    BY <2>2 DEF AppliedIsCommitted, Committed, vars, logVars
  <2>. QED  BY <2>1, <2>2
<1>. QED  BY <1>1, AppliedInit, TypeCorrect, Durable, AtMostOneLeader, ElectionInvariant,
             LogInvariant, CommitInvariant, PTL DEF Spec

\* Of two settled logs the shorter committed part is the start of the other.
LEMMA SettledAgree ==
  ASSUME TypeOK, LogInv, TermsComplete, NEW l \in Seq(EntryType), NEW m \in Seq(EntryType),
         NEW c \in Nat, NEW d \in Nat, NEW t \in Nat, NEW u \in Nat, c <= d,
         Settled(l, c, t, termLog, acks), Settled(m, d, u, termLog, acks)
  PROVE  AgreeUpTo(l, m, c)
<1>1. CASE c = 0
  <2>1. Len(l) \in Nat /\ Len(m) \in Nat
    OBVIOUS
  <2>. QED  BY <1>1, <2>1 DEF AgreeUpTo
<1>2. CASE c # 0
  <2>1. PICK w \in DOMAIN termLog : Settled(l, c, w, termLog, acks)
    BY <1>2, LogTypes DEF Settled, LogsType
  <2>2. PICK x \in DOMAIN termLog : Settled(m, d, x, termLog, acks)
    BY <1>2, LogTypes DEF Settled, LogsType
  <2>3. /\ w \in Nat /\ x \in Nat
        /\ termLog[w] \in Seq(EntryType) /\ termLog[x] \in Seq(EntryType)
    BY LogTypes DEF LogsType
  <2>4. PICK z \in {w, x} : w <= z /\ x <= z
    BY <2>3
  <2>5. z \in DOMAIN termLog /\ termLog[z] \in Seq(EntryType)
    BY <2>3, <2>4
  <2>6. AgreeUpTo(l, termLog[z], c)
    BY <2>1, <2>3, <2>4, <2>5, SettledLater
  <2>7. AgreeUpTo(m, termLog[z], d)
    BY <2>2, <2>3, <2>4, <2>5, SettledLater
  <2>8. AgreeUpTo(m, termLog[z], c)
    BY <2>5, <2>7, AgreeLess
  <2>. QED  BY <2>6, <2>8, AgreeFacts
<1>. QED  BY <1>1, <1>2

LEMMA CommandsPrefix ==
  ASSUME NEW l \in Seq(EntryType), NEW m \in Seq(EntryType), NEW c \in Nat, NEW d \in Nat,
         AgreeUpTo(l, m, c), c <= d, d <= Len(m)
  PROVE  IsPrefix(Commands(SubSeq(l, 1, c)), Commands(SubSeq(m, 1, d)))
<1>. DEFINE a == Commands(SubSeq(l, 1, c))
            b == Commands(SubSeq(m, 1, d))
<1>1. c <= Len(l) /\ \A k \in 1..c : l[k] = m[k]
  BY DEF AgreeUpTo
<1>2. a \in Seq(Command) /\ Len(a) = c /\ \A k \in 1..c : a[k] = l[k].cmd
  BY <1>1, PrefixCommands
<1>3. b \in Seq(Command) /\ Len(b) = d /\ \A k \in 1..d : b[k] = m[k].cmd
  BY PrefixCommands
<1>. HIDE DEF a, b
<1>4. Len(a) <= Len(b) /\ \A k \in 1..Len(a) : a[k] = b[k]
  BY <1>1, <1>2, <1>3
<1>5. IsPrefix(a, b)
  BY <1>2, <1>3, <1>4, PointwisePrefix
<1>. QED  BY <1>5 DEF a, b

LEMMA MachinesAgree ==
  ASSUME TypeOK, LogInv, CommitInv, AppliedIsCommitted
  PROVE  StateMachineSafety
<1>1. ASSUME NEW n \in Server
      PROVE  /\ log[n] \in Seq(EntryType) /\ commitIndex[n] \in Nat /\ currentTerm[n] \in Nat
             /\ commitIndex[n] <= Len(log[n])
             /\ applied[n] = Commands(SubSeq(log[n], 1, commitIndex[n]))
             /\ Settled(log[n], commitIndex[n], currentTerm[n], termLog, acks)
  <2>1. log[n] \in Seq(EntryType) /\ commitIndex[n] \in Nat /\ currentTerm[n] \in Nat
    BY DEF TypeOK
  <2>2. commitIndex[n] <= Len(log[n])
    BY CommitsAreWithin DEF CommitInv, CommitsWithin
  <2>3. applied[n] = Commands(SubSeq(log[n], 1, commitIndex[n]))
    BY DEF AppliedIsCommitted, Committed
  <2>4. Settled(log[n], commitIndex[n], currentTerm[n], termLog, acks)
    BY DEF CommitInv, CommitsSettled
  <2>. QED  BY <2>1, <2>2, <2>3, <2>4
<1>2. ASSUME NEW n \in Server, NEW p \in Server, commitIndex[n] <= commitIndex[p]
      PROVE  IsPrefix(applied[n], applied[p])
  <2>1. AgreeUpTo(log[n], log[p], commitIndex[n])
    BY <1>1, <1>2, SettledAgree DEF CommitInv
  <2>2. IsPrefix(Commands(SubSeq(log[n], 1, commitIndex[n])),
                 Commands(SubSeq(log[p], 1, commitIndex[p])))
    BY <1>1, <1>2, <2>1, CommandsPrefix
  <2>. QED  BY <1>1, <2>2
<1>3. \A n, p \in Server : commitIndex[n] <= commitIndex[p] \/ commitIndex[p] <= commitIndex[n]
  BY <1>1
<1>. QED  BY <1>2, <1>3 DEF StateMachineSafety

\* No two state machines are ever given different commands at a position, in no
\* order of elections, crashes and late or lost messages: the promise of the
\* whole program.
THEOREM StateMachinesAgree == ~MetaTearing => (Spec => []StateMachineSafety)
<1>. SUFFICES ASSUME ~MetaTearing PROVE Spec => []StateMachineSafety
  OBVIOUS
<1>1. TypeOK /\ LogInv /\ CommitInv /\ AppliedIsCommitted => StateMachineSafety
  BY MachinesAgree
<1>. QED  BY <1>1, TypeCorrect, LogInvariant, CommitInvariant, AppliedAsCommitted, PTL

-----------------------------------------------------------------------------
(* What clients are told *)

\* A client that waits waited before or has proposed in this step, and an answer
\* that is new answers one that waited.
Proposal(n, v) ==
  [node |-> n, index |-> LastIndex(Extended(n, currentTerm[n], v)), term |-> currentTerm[n],
   cmd |-> v]
NewProposal(w) ==
  \E n \in Server, v \in Command :
    /\ LeaderWrites(n, currentTerm[n], Extended(n, currentTerm[n], v))
    /\ w = Proposal(n, v)
NewAnswer(a) == \E w \in waiting : SeenCommitted(w) /\ a = Answer(w)
ClientsAnswered ==
  /\ \A w \in waiting' : w \in waiting \/ NewProposal(w)
  /\ \A a \in acked' : a \in acked \/ NewAnswer(a)

LEMMA ClientsRest ==
  ASSUME waiting' \subseteq waiting, UNCHANGED acked
  PROVE  ClientsAnswered
  BY DEF ClientsAnswered

LEMMA ProposedStep ==
  ASSUME NEW n \in Server, NEW v \in Command, Propose(n, v)
  PROVE  ClientsAnswered
<1>1. LeaderWrites(n, currentTerm[n], Extended(n, currentTerm[n], v))
      /\ waiting' = waiting \cup {Proposal(n, v)} /\ acked' = acked
  BY DEF Propose, Proposal
<1>. QED  BY <1>1 DEF ClientsAnswered, NewProposal

LEMMA AnsweredStep ==
  ASSUME Next
  PROVE  ClientsAnswered
<1>. USE DEF clientVars
<1>1. CASE Election
  BY <1>1, ClientsRest
     DEF Election, ElectionTimeout, ElectSelf, BroadcastRequestVote, RejectStaleVoteRequest,
         HandleRequestVote, VoteReplyHigherTerm, VoteReplyIgnored, VoteReplyCounted, VoteReplyWins
<1>2. CASE Replication
  BY <1>2, ClientsRest
     DEF Replication, SendAppendEntries, RpcFails, RejectStaleAppend, RejectMismatch, AcceptAppend,
         LoseAppendReply, AppendReplyHigherTerm, AppendReplyIgnored, AppendReplySuccess,
         AppendReplyFailure
<1>3. CASE Client
  <2>1. ASSUME NEW n \in Server, NEW v \in Value, Propose(n, v) PROVE ClientsAnswered
    BY <2>1, ProposedStep DEF Command
  <2>2. ASSUME NEW w \in waiting, ProposalOk(w) PROVE ClientsAnswered
    BY <2>2 DEF ProposalOk, ClientsAnswered, NewAnswer
  <2>3. ASSUME NEW w \in waiting, ProposalFails(w) PROVE ClientsAnswered
    BY <2>3, ClientsRest DEF ProposalFails
  <2>. QED  BY <1>3, <2>1, <2>2, <2>3 DEF Client
<1>4. ASSUME NEW n, NEW d, Recover(n, d) PROVE ClientsAnswered
  BY <1>4, ClientsRest DEF Recover
<1>5. CASE Failure
  BY <1>4, <1>5
     DEF Failure, Crash, CrashInElectSelf, CrashInUpdateMetaData, CrashInPropose,
         CrashInRequestVote, CrashInAppendEntries
<1>. QED  BY <1>1, <1>2, <1>3, <1>5 DEF Next

LEMMA ClientTypes ==
  ASSUME TypeOK
  PROVE  /\ \A w \in waiting : w.node \in Server /\ w.index \in Nat /\ w.term \in Nat
         /\ \A a \in acked : a.index \in Nat /\ a.term \in Nat
  BY DEF TypeOK, ProposalType, AnswerType

LEMMA WrittenStays ==
  ASSUME Grows(termLog, termLog'), NEW w, OnRecord(w)
  PROVE  OnRecord(w)'
<1>1. w.term \in DOMAIN termLog' /\ w.index \in 1..Len(termLog'[w.term])
      /\ termLog'[w.term][w.index] = termLog[w.term][w.index]
  BY HasGrows DEF OnRecord
<1>. QED  BY <1>1 DEF OnRecord

\* The answer an entry gets from the leader of its term is about settled entries.
LEMMA AnswerBacked ==
  ASSUME TypeOK, LogInv, CommitsSettled, NEW w \in waiting, OnRecord(w), SeenCommitted(w)
  PROVE  AnswerSettled(Answer(w))
<1>. DEFINE a == Answer(w)
            n == w.node
            t == w.term
<1>1. a.term = t /\ a.index = w.index /\ a.cmd = w.cmd /\ a.ackTerm = currentTerm[n]
  BY DEF Answer
<1>2. SUFFICES ASSUME currentTerm[n] = t
               PROVE  OnRecord(a) /\ Settled(termLog[t], w.index, t, termLog, acks)
  BY <1>1 DEF AnswerSettled
<1>3. OnRecord(a)
  BY <1>1 DEF OnRecord
<1>4. /\ n \in Server /\ w.index \in Nat /\ t \in Nat /\ commitIndex[n] \in Nat
      /\ role[n] = "LEADER" /\ w.index <= commitIndex[n]
  BY ClientTypes DEF SeenCommitted, TypeOK
<1>5. log[n] = termLog[t] /\ log[n] \in Seq(EntryType)
  BY <1>2, <1>4, LeaderFacts, LogTypes
<1>6. Settled(log[n], commitIndex[n], t, termLog, acks)
  BY <1>2, <1>4 DEF CommitsSettled
<1>7. w.index > 0 => AgreeUpTo(log[n], log[n], w.index)
  <2>1. w.index <= Len(log[n])
    BY <1>5 DEF OnRecord
  <2>. QED  BY <1>4, <1>5, <2>1, AgreeAll
<1>8. Settled(log[n], w.index, t, termLog, acks)
  <2>1. LogsType(termLog) /\ Grows(termLog, termLog) /\ acks \subseteq acks /\ t <= t
    BY <1>4, LogTypes, GrowsSame
  <2>. HIDE DEF n, t
  <2>. QED  BY <1>4, <1>5, <1>6, <1>7, <2>1, SettledStays
<1>. QED  BY <1>3, <1>5, <1>8

LEMMA AnswerStays ==
  ASSUME TypeOK, TypeOK', Later, NEW a, a.index \in Nat, AnswerSettled(a)
  PROVE  AnswerSettled(a)'
<1>1. SUFFICES ASSUME a.ackTerm = a.term
               PROVE  OnRecord(a)' /\ Settled(termLog'[a.term], a.index, a.term, termLog', acks')
  BY DEF AnswerSettled
<1>2. /\ OnRecord(a) /\ a.term \in DOMAIN termLog
      /\ Settled(termLog[a.term], a.index, a.term, termLog, acks)
  BY <1>1 DEF AnswerSettled, OnRecord
<1>. QED  BY <1>2, WrittenStays, TermLogSettled DEF Later

LEMMA NewWritten ==
  ASSUME TypeOK, LogInv, NEW w, NewProposal(w)
  PROVE  OnRecord(w)'
<1>1. PICK n \in Server, v \in Command :
        /\ LeaderWrites(n, currentTerm[n], Extended(n, currentTerm[n], v))
        /\ w = Proposal(n, v)
  BY DEF NewProposal
<1>. DEFINE t == currentTerm[n]
            l == Extended(n, t, v)
            e == Entry(t, Len(log[n]) + 1, v)
<1>2. t \in Nat /\ log[n] \in Seq(EntryType)
  BY DEF TypeOK
<1>3. l = Append(log[n], e) /\ e \in EntryType /\ LastIndex(l) = Len(log[n]) + 1 /\ e.cmd = v
  BY <1>2, ExtendedFacts DEF Entry
<1>4. t \in DOMAIN termLog' /\ termLog'[t] = l
  BY <1>1 DEF LeaderWrites
<1>5. w.term = t /\ w.index = LastIndex(l) /\ w.cmd = v
  BY <1>1 DEF Proposal
<1>. HIDE DEF l, e
<1>6. Len(l) = Len(log[n]) + 1 /\ l[Len(log[n]) + 1] = e /\ Len(log[n]) \in Nat
  BY <1>2, <1>3, AppendAgrees
<1>. HIDE DEF t
<1>7. w.index \in 1..Len(l) /\ l[w.index].cmd = w.cmd
  BY <1>3, <1>5, <1>6
<1>. QED  BY <1>4, <1>5, <1>7 DEF OnRecord

LEMMA AnswersStep ==
  ASSUME TypeOK, TypeOK', LogInv, CommitsSettled, Later, ClientsAnswered, AnswersInv
  PROVE  AnswersInv'
<1>1. ASSUME NEW w \in waiting' PROVE OnRecord(w)'
  <2>1. CASE w \in waiting
    BY <2>1, WrittenStays DEF AnswersInv, Later
  <2>2. CASE NewProposal(w)
    BY <2>2, NewWritten
  <2>. QED  BY <2>1, <2>2 DEF ClientsAnswered
<1>2. ASSUME NEW a \in acked' PROVE AnswerSettled(a)'
  <2>1. a.index \in Nat
    BY DEF TypeOK, AnswerType
  <2>2. AnswerSettled(a)
    <3>1. CASE a \in acked
      BY <3>1 DEF AnswersInv
    <3>2. CASE NewAnswer(a)
      <4>1. PICK w \in waiting : SeenCommitted(w) /\ a = Answer(w)
        BY <3>2 DEF NewAnswer
      <4>2. OnRecord(w)
        BY DEF AnswersInv
      <4>. QED  BY <4>1, <4>2, AnswerBacked
    <3>. QED  BY <3>1, <3>2 DEF ClientsAnswered
  <2>. QED  BY <2>1, <2>2, AnswerStays
<1>. QED  BY <1>1, <1>2 DEF AnswersInv

\* Whoever waits waits for what the leader of the term wrote, and an answer in
\* that term is about entries that are settled.
THEOREM AnswersAreBacked == ~MetaTearing => (Spec => []AnswersInv)
<1>. SUFFICES ASSUME ~MetaTearing PROVE Spec => []AnswersInv
  OBVIOUS
<1>1. Init => AnswersInv
  BY DEF Init, AnswersInv
<1>2. TypeOK /\ TypeOK' /\ DurableState /\ ElectionSafety' /\ LogInv /\ CommitInv /\ AnswersInv
      /\ [Next]_vars => AnswersInv'
  <2>1. ASSUME TypeOK, TypeOK', DurableState, ElectionSafety', LogInv, CommitInv, AnswersInv, Next
        PROVE  AnswersInv'
    <3>1. CommitsWithin /\ CommitsSettled
      BY <2>1, CommitsAreWithin DEF CommitInv
    <3>2. Later
      BY <2>1, <3>1, StepsShaped, LaterStep
    <3>3. ClientsAnswered
      BY <2>1, AnsweredStep
    <3>. QED  BY <2>1, <3>1, <3>2, <3>3, AnswersStep
  <2>2. ASSUME AnswersInv, UNCHANGED vars PROVE AnswersInv'
    <3>1. UNCHANGED <<waiting, acked, termLog, acks>>
      BY <2>2 DEF vars, clientVars, history, leaderHist
    <3>. QED  BY <2>2, <3>1 DEF AnswersInv, OnRecord, AnswerSettled
  <2>. QED  BY <2>1, <2>2
<1>. QED  BY <1>1, <1>2, TypeCorrect, Durable, AtMostOneLeader, LogInvariant, CommitInvariant,
             PTL DEF Spec

LEMMA AnswersDurable ==
  ASSUME TypeOK, LogInv, CommitInv, AppliedIsCommitted, AnswersInv
  PROVE  AckedInTermDurable
<1>. SUFFICES ASSUME NEW a \in acked, a.ackTerm = a.term, NEW n \in Server,
                     Len(applied[n]) >= a.index
              PROVE  applied[n][a.index] = a.cmd
  BY DEF AckedInTermDurable, DurableAt
<1>. DEFINE m == termLog[a.term]
            c == commitIndex[n]
            i == a.index
<1>1. /\ a.term \in Nat /\ i \in Nat /\ c \in Nat /\ currentTerm[n] \in Nat
      /\ log[n] \in Seq(EntryType)
  BY ClientTypes DEF TypeOK
<1>2. /\ a.term \in DOMAIN termLog /\ i \in 1..Len(m) /\ m[i].cmd = a.cmd
      /\ Settled(m, i, a.term, termLog, acks)
  BY DEF AnswersInv, AnswerSettled, OnRecord
<1>3. m \in Seq(EntryType)
  BY <1>2, LogTypes DEF LogsType
<1>4. c <= Len(log[n])
  BY CommitsAreWithin DEF CommitInv, CommitsWithin
<1>5. applied[n] = Commands(SubSeq(log[n], 1, c))
  BY DEF AppliedIsCommitted, Committed
<1>6. Settled(log[n], c, currentTerm[n], termLog, acks)
  BY DEF CommitInv, CommitsSettled
<1>. HIDE DEF m, c, i
<1>7. Len(applied[n]) = c /\ \A k \in 1..c : applied[n][k] = log[n][k].cmd
  BY <1>1, <1>4, <1>5, PrefixCommands
<1>8. i <= c
  BY <1>7 DEF i
<1>9. AgreeUpTo(m, log[n], i)
  BY <1>1, <1>2, <1>3, <1>6, <1>8, SettledAgree DEF CommitInv
<1>10. i \in 1..i /\ i \in 1..c /\ m[i] = log[n][i]
  BY <1>1, <1>2, <1>3, <1>8, <1>9 DEF AgreeUpTo
<1>11. applied[n][i] = a.cmd
  BY <1>2, <1>7, <1>10
<1>. QED  BY <1>11 DEF i

\* A write that its client is told is committed, by the node that led when it
\* was written and in that term, is what every node applies at that index, then
\* and ever after.
THEOREM AnswersAreDurable == ~MetaTearing => (Spec => []AckedInTermDurable)
<1>. SUFFICES ASSUME ~MetaTearing PROVE Spec => []AckedInTermDurable
  OBVIOUS
<1>1. TypeOK /\ LogInv /\ CommitInv /\ AppliedIsCommitted /\ AnswersInv => AckedInTermDurable
  BY AnswersDurable
<1>. QED  BY <1>1, TypeCorrect, LogInvariant, CommitInvariant, AppliedAsCommitted,
             AnswersAreBacked, PTL

-----------------------------------------------------------------------------
(* Where leaders send from *)

\* What a step does to the RPCs of replication: some end, one is sent, or one is
\* answered; a failure in the term asked about is of an entry that the leader
\* has not counted.
AppendsEnd ==
  /\ \A r \in appendReqs' : r.live => r \in appendReqs
  /\ appendReps' \subseteq appendReps
AppendSent(n, p) ==
  /\ role[n] = "LEADER" /\ ~InRpc(n, p)
  /\ appendReqs' = appendReqs \cup {AppendRequest(n, p)} /\ UNCHANGED appendReps
AppendAnswered(r, t, ok) ==
  /\ r \in appendReqs
  /\ appendReqs' = appendReqs \ {r}
  /\ appendReps' = appendReps \cup AppendReplies(r, t, ok)
  /\ ~ok /\ t <= r.term /\ Leads(r.from, r.term) =>
       matchIndex[r.from][r.to] < r.prevLogIndex

\* Leaders have sent and counted what they had; or a new one starts, or one
\* hears of success, or of a failure.
AllLeadOn == \A p \in Server : LeadsOn(p)
Starts(n) ==
  /\ \A p \in Server \ {n} : LeadsOn(p)
  /\ currentTerm'[n] \notin DOMAIN termLog /\ AppendsEnd
  /\ \A p \in Server : matchIndex'[n][p] < nextIndex'[n][p]
Hears(m, match, next) ==
  /\ m \in appendReps /\ StillLeads(m) /\ appendReps' = appendReps \ {m}
  /\ UNCHANGED <<role, currentTerm, appendReqs>>
  /\ match < next
  /\ \A n, p \in Server :
       /\ nextIndex'[n][p] = IF n = m.to /\ p = m.from THEN next ELSE nextIndex[n][p]
       /\ matchIndex'[n][p] = IF n = m.to /\ p = m.from THEN match ELSE matchIndex[n][p]
AppendsStep ==
  \/ AllLeadOn /\ AppendsEnd
  \/ AllLeadOn /\ \E n \in Server : \E p \in Peers(n) :
       AppendSent(n, p) /\ UNCHANGED <<role, currentTerm, nextIndex>>
  \/ AllLeadOn /\ \E r \in appendReqs : \E t \in Nat, ok \in BOOLEAN : AppendAnswered(r, t, ok)
  \/ \E n \in Server : Starts(n)
  \/ \E m \in appendReps : \E match, next \in Nat : Hears(m, match, next)

\* What the peer has not got the leader has not counted.
LEMMA MismatchBeyond ==
  ASSUME TypeOK, LogInv, CommitInv, NEW r \in appendReqs, ~Stale(r),
         ~PrevMatches(log[r.to], r.prevLogIndex, r.prevLogTerm), Leads(r.from, r.term)
  PROVE  matchIndex[r.from][r.to] < r.prevLogIndex
<1>. DEFINE n == r.from
            p == r.to
            k == matchIndex[n][p]
            i == r.prevLogIndex
            l == log[p]
<1>1. /\ n \in Server /\ p \in Server /\ r.term \in Nat /\ i \in Nat /\ l \in Seq(EntryType)
      /\ role[n] = "LEADER" /\ currentTerm[n] = r.term
  BY LogTypes DEF Leads
<1>2. k \in Nat /\ currentTerm[p] \in Nat /\ currentTerm[p] <= r.term
  <2>1. k \in Nat /\ currentTerm[p] \in Nat
    BY <1>1 DEF TypeOK
  <2>. QED  BY <1>1, <2>1 DEF Stale
<1>3. i > 0 /\ ~(i <= Len(l) /\ TermAt(l, i) = r.prevLogTerm)
  BY DEF PrevMatches
<1>4. ASSUME i <= k PROVE FALSE
  <2>1. k \in 1..k
    BY <1>1, <1>2, <1>3, <1>4
  <2>2. Ack(p, r.term, k) \in acks
    BY <1>1, <2>1 DEF CommitInv, MatchesHeld
  <2>3. Held(Ack(p, r.term, k))
    BY <2>2 DEF CommitInv, AcksHeld
  <2>4. /\ r.term \in DOMAIN termLog /\ r.term <= currentTerm[p]
        /\ r.term = currentTerm[p] => AgreeUpTo(l, termLog[r.term], k)
    BY <2>3 DEF Held, Ack
  <2>5. AgreeUpTo(l, termLog[r.term], k)
    BY <1>1, <1>2, <2>4
  <2>6. r.prevLogTerm = termLog[r.term][i].term
    BY <1>3 DEF LogInv, RequestsArePieces, Piece
  <2>. HIDE DEF k, i, l
  <2>7. Len(l) \in Nat /\ k <= Len(l) /\ \A j \in 1..k : l[j] = termLog[r.term][j]
    BY <1>1, <2>5 DEF AgreeUpTo
  <2>8. i \in 1..k /\ i \in 1..Len(l)
    BY <1>1, <1>2, <1>3, <1>4, <2>7
  <2>9. i <= Len(l) /\ TermAt(l, i) = r.prevLogTerm
    BY <2>6, <2>7, <2>8 DEF TermAt
  <2>. QED  BY <1>3, <2>9
<1>. QED  BY <1>1, <1>2, <1>4

LEMMA OneAppendStep ==
  ASSUME TypeOK, OneAppendPerPeer, AppendsStep
  PROVE  OneAppendPerPeer'
<1>1. CASE AppendsEnd \/ \E m \in appendReps : \E match, next \in Nat : Hears(m, match, next)
  BY <1>1 DEF OneAppendPerPeer, AppendsEnd, Hears
<1>2. ASSUME NEW n \in Server, NEW p \in Peers(n), AppendSent(n, p) PROVE OneAppendPerPeer'
  <2>. DEFINE q == AppendRequest(n, p)
  <2>1. q.from = n /\ q.to = p
    BY DEF AppendRequest
  <2>. HIDE DEF q
  <2>2. /\ appendReqs' = appendReqs \cup {q} /\ appendReps' = appendReps
        /\ \A r \in appendReqs : ~(r.live /\ r.from = n /\ r.to = p)
        /\ \A m \in appendReps : ~(m.to = n /\ m.from = p)
    BY <1>2 DEF AppendSent, InRpc, q
  <2>. QED  BY <2>1, <2>2 DEF OneAppendPerPeer
<1>3. ASSUME NEW r \in appendReqs, NEW t \in Nat, NEW ok \in BOOLEAN, AppendAnswered(r, t, ok)
      PROVE  OneAppendPerPeer'
  <2>1. /\ appendReqs' = appendReqs \ {r} /\ appendReps' = appendReps \cup AppendReplies(r, t, ok)
        /\ \A m, k \in AppendReplies(r, t, ok) : m = k
        /\ \A m \in AppendReplies(r, t, ok) : r.live /\ m.from = r.to /\ m.to = r.from
    BY <1>3 DEF AppendAnswered, AppendReplies
  <2>. QED  BY <2>1 DEF OneAppendPerPeer
<1>. QED  BY <1>1, <1>2, <1>3 DEF AppendsStep, Starts

LEMMA LeadsBefore ==
  ASSUME NEW n \in Server, LeadsOn(n), NEW t, Leads(n, t)'
  PROVE  Leads(n, t) /\ nextIndex'[n] = nextIndex[n] /\ matchIndex'[n] = matchIndex[n]
  BY DEF LeadsOn, Leads

\* An RPC that was under way before, as far as its leader leads on.
LEMMA OldAsSent ==
  ASSUME TypeOK, NextAsSent
  PROVE  /\ \A r \in appendReqs : r.live /\ LeadsOn(r.from) /\ Leads(r.from, r.term)' =>
              nextIndex'[r.from][r.to] = r.prevLogIndex + 1
         /\ \A m \in appendReps : LeadsOn(m.to) /\ Leads(m.to, m.electionTerm)' =>
              /\ nextIndex'[m.to][m.from] = m.prevIndex + 1
              /\ ~m.success /\ m.term <= m.electionTerm =>
                   matchIndex'[m.to][m.from] < m.prevIndex
<1>1. \A r \in appendReqs : r.from \in Server
  BY LogTypes
<1>2. \A m \in appendReps : m.to \in Server
  BY LogTypes
<1>. QED  BY <1>1, <1>2, LeadsBefore DEF NextAsSent

LEMMA AsSentStep ==
  ASSUME TypeOK, LogInv, OneAppendPerPeer, NextAsSent, AppendsStep
  PROVE  NextAsSent'
<1>0. /\ \A r \in appendReqs : r.from \in Server /\ r.to \in Server /\ r.term \in Nat
      /\ \A m \in appendReps : m.to \in Server /\ m.from \in Server /\ m.electionTerm \in Nat
  BY LogTypes
<1>1. CASE AllLeadOn /\ AppendsEnd
  BY <1>0, <1>1, OldAsSent DEF AllLeadOn, AppendsEnd, NextAsSent
<1>2. ASSUME NEW n \in Server, NEW p \in Peers(n), AllLeadOn, AppendSent(n, p),
             UNCHANGED <<role, currentTerm, nextIndex>>
      PROVE  NextAsSent'
  <2>. DEFINE q == AppendRequest(n, p)
  <2>1. q.from = n /\ q.to = p /\ q.prevLogIndex + 1 = nextIndex[n][p]
    BY <1>2, SentPiece DEF AppendSent
  <2>. HIDE DEF q
  <2>2. appendReqs' = appendReqs \cup {q} /\ appendReps' = appendReps
    BY <1>2 DEF AppendSent, q
  <2>3. nextIndex'[q.from][q.to] = q.prevLogIndex + 1
    BY <1>2, <2>1
  <2>. QED  BY <1>0, <1>2, <2>2, <2>3, OldAsSent DEF AllLeadOn, NextAsSent
<1>3. ASSUME NEW r \in appendReqs, NEW t \in Nat, NEW ok \in BOOLEAN, AllLeadOn,
             AppendAnswered(r, t, ok)
      PROVE  NextAsSent'
  <2>1. ASSUME NEW m \in AppendReplies(r, t, ok), Leads(m.to, m.electionTerm)'
        PROVE  /\ nextIndex'[m.to][m.from] = m.prevIndex + 1
               /\ ~m.success /\ m.term <= m.electionTerm =>
                    matchIndex'[m.to][m.from] < m.prevIndex
    <3>1. /\ r.live /\ m.to = r.from /\ m.from = r.to /\ m.electionTerm = r.term
          /\ m.prevIndex = r.prevLogIndex /\ m.success = ok /\ m.term = t
      BY DEF AppendReplies
    <3>2. /\ Leads(r.from, r.term)
          /\ nextIndex'[r.from] = nextIndex[r.from] /\ matchIndex'[r.from] = matchIndex[r.from]
      BY <1>0, <1>3, <2>1, <3>1, LeadsBefore DEF AllLeadOn
    <3>3. nextIndex[r.from][r.to] = r.prevLogIndex + 1
      BY <3>1, <3>2 DEF NextAsSent
    <3>4. ~ok /\ t <= r.term => matchIndex[r.from][r.to] < r.prevLogIndex
      BY <1>3, <3>2 DEF AppendAnswered
    <3>. QED  BY <3>1, <3>2, <3>3, <3>4
  <2>2. appendReqs' \subseteq appendReqs /\ appendReps' = appendReps \cup AppendReplies(r, t, ok)
    BY <1>3 DEF AppendAnswered
  <2>. QED  BY <1>0, <1>3, <2>1, <2>2, OldAsSent DEF AllLeadOn, NextAsSent
<1>4. ASSUME NEW n \in Server, Starts(n) PROVE NextAsSent'
  <2>1. \A r \in appendReqs : r.term \in DOMAIN termLog
    BY RequestFacts
  <2>2. \A m \in appendReps : m.electionTerm \in DOMAIN termLog
    <3>1. \A m \in appendReps :
            Reign(m.electionTerm, m.to) \in elected
            /\ Reign(m.electionTerm, m.to).term = m.electionTerm
      BY DEF LogInv, RepliesAreEchoes, Reign
    <3>. QED  BY <3>1 DEF LogInv, Reigned
  <2>3. /\ \A r \in appendReqs : Leads(r.from, r.term)' => r.from # n
        /\ \A m \in appendReps : Leads(m.to, m.electionTerm)' => m.to # n
    BY <1>4, <2>1, <2>2 DEF Starts, Leads
  <2>. QED  BY <1>0, <1>4, <2>3, OldAsSent DEF Starts, AppendsEnd, NextAsSent
<1>5. ASSUME NEW m \in appendReps, NEW match \in Nat, NEW next \in Nat, Hears(m, match, next)
      PROVE  NextAsSent'
  <2>1. /\ appendReqs' = appendReqs /\ appendReps' = appendReps \ {m}
        /\ \A n, t : Leads(n, t)' <=> Leads(n, t)
        /\ \A n, p \in Server : ~(n = m.to /\ p = m.from) =>
             nextIndex'[n][p] = nextIndex[n][p] /\ matchIndex'[n][p] = matchIndex[n][p]
    BY <1>5 DEF Hears, Leads
  <2>2. /\ \A r \in appendReqs : r.live => ~(r.from = m.to /\ r.to = m.from)
        /\ \A k \in appendReps : k # m => ~(k.to = m.to /\ k.from = m.from)
    BY DEF OneAppendPerPeer
  <2>. QED  BY <1>0, <2>1, <2>2 DEF NextAsSent
<1>. QED  BY <1>1, <1>2, <1>3, <1>4, <1>5 DEF AppendsStep

LEMMA BelowNextStep ==
  ASSUME MatchBelowNext, AppendsStep
  PROVE  MatchBelowNext'
<1>1. CASE AllLeadOn
  BY <1>1 DEF AllLeadOn, LeadsOn, MatchBelowNext
<1>2. CASE \E n \in Server : Starts(n)
  BY <1>2 DEF Starts, LeadsOn, MatchBelowNext
<1>3. CASE \E m \in appendReps : \E match, next \in Nat : Hears(m, match, next)
  BY <1>3 DEF Hears, MatchBelowNext
<1>. QED  BY <1>1, <1>2, <1>3 DEF AppendsStep

\* Node v changes its role or its term, and does not come to lead by it.
LEMMA LeadersKept ==
  ASSUME TypeOK, NEW v \in Server, NEW t, NEW x,
         currentTerm' = [currentTerm EXCEPT ![v] = t], role' = [role EXCEPT ![v] = x],
         \/ x # "LEADER"
         \/ x = role[v] /\ t = currentTerm[v],
         \A p \in Server : role'[p] = "LEADER" =>
           nextIndex'[p] = nextIndex[p] /\ matchIndex'[p] = matchIndex[p]
  PROVE  AllLeadOn
<1>1. /\ currentTerm'[v] = t /\ role'[v] = x
      /\ \A p \in Server \ {v} : currentTerm'[p] = currentTerm[p] /\ role'[p] = role[p]
  BY DEF TypeOK
<1>. QED  BY <1>1 DEF AllLeadOn, LeadsOn

LEMMA NobodyLeads ==
  ASSUME UNCHANGED <<role, currentTerm, nextIndex, matchIndex>>
  PROVE  AllLeadOn
  BY DEF AllLeadOn, LeadsOn

LEMMA CalmSends ==
  ASSUME AllLeadOn, UNCHANGED appendMsgs
  PROVE  AppendsStep
  BY DEF AppendsStep, AppendsEnd, appendMsgs

\* A new leader starts past its NOOP, with nothing counted.
LEMMA WinnerStarts ==
  ASSUME TypeOK, LogInv, ElectionSafety', NEW n \in Server, NEW t \in Nat,
         t > currentTerm[n] \/ (t = currentTerm[n] /\ role[n] = "CANDIDATE"),
         NEW d, BecomeLeader(n, t, d), currentTerm' = [currentTerm EXCEPT ![n] = t],
         UNCHANGED appendMsgs
  PROVE  AppendsStep
<1>. DEFINE l == Extended(n, t, NoOp)
<1>1. /\ role' = [role EXCEPT ![n] = "LEADER"] /\ Reigns(n, t)
      /\ nextIndex' = [nextIndex EXCEPT ![n] = [p \in Server |-> LastIndex(l) + 1]]
      /\ matchIndex' = [matchIndex EXCEPT ![n] = [p \in Server |-> 0]]
  BY DEF BecomeLeader, CommitAsLeader
<1>2. LastIndex(l) \in Nat
  <2>1. NoOp \in Command /\ log[n] \in Seq(EntryType)
    BY DEF Command, TypeOK
  <2>2. LastIndex(l) = Len(log[n]) + 1
    BY <2>1, ExtendedFacts
  <2>. HIDE DEF l
  <2>. QED  BY <2>1, <2>2
<1>. HIDE DEF l
<1>3. /\ currentTerm \in [Server -> Nat] /\ role \in [Server -> Role]
      /\ nextIndex \in [Server -> [Server -> Nat]] /\ matchIndex \in [Server -> [Server -> Nat]]
  BY DEF TypeOK
<1>4. /\ currentTerm'[n] = t
      /\ \A p \in Server : matchIndex'[n][p] = 0 /\ nextIndex'[n][p] = LastIndex(l) + 1
      /\ \A p \in Server \ {n} : /\ role'[p] = role[p] /\ currentTerm'[p] = currentTerm[p]
                                 /\ nextIndex'[p] = nextIndex[p] /\ matchIndex'[p] = matchIndex[p]
  BY <1>1, <1>3
<1>5. t \notin DOMAIN termLog
  <2>1. Reign(t, n) \in elected' /\ elected \subseteq elected'
    BY <1>1 DEF Reigns, Reign
  <2>. QED  BY <2>1, FreshTerm DEF LogInv
<1>6. AppendsEnd
  BY DEF AppendsEnd, appendMsgs
<1>7. /\ \A p \in Server \ {n} : LeadsOn(p)
      /\ \A p \in Server : matchIndex'[n][p] < nextIndex'[n][p]
  BY <1>2, <1>4 DEF LeadsOn
<1>. QED  BY <1>4, <1>5, <1>6, <1>7 DEF AppendsStep, Starts

LEMMA ElectionSends ==
  ASSUME TypeOK, LogInv, ElectionSafety', Election
  PROVE  AppendsStep
<1>. USE DEF nodeVars, electVars, logVars, leaderVars, voteMsgs
<1>1. ASSUME NEW n \in Server, ElectionTimeout(n) PROVE AppendsStep
  <2>. DEFINE t == currentTerm[n] + 1
  <2>1. /\ currentTerm' = [currentTerm EXCEPT ![n] = t]
        /\ role' = [role EXCEPT ![n] = "CANDIDATE"]
        /\ UNCHANGED <<nextIndex, matchIndex, appendMsgs>>
    BY <1>1 DEF ElectionTimeout, TimesOut
  <2>. HIDE DEF t
  <2>. QED  BY <2>1, LeadersKept, CalmSends
<1>2. ASSUME NEW n \in Server, ElectSelf(n) PROVE AppendsStep
  <2>. DEFINE t == currentTerm[n] + 1
              d == MetaWritten(disk[n], t, n, commitIndex[n])
  <2>1. /\ currentTerm' = [currentTerm EXCEPT ![n] = t] /\ BecomeLeader(n, t, d)
        /\ UNCHANGED appendMsgs
    BY <1>2 DEF ElectSelf, TimesOut
  <2>2. t \in Nat /\ t > currentTerm[n]
    BY DEF TypeOK
  <2>. HIDE DEF t, d
  <2>. QED  BY <2>1, <2>2, WinnerStarts
<1>3. ASSUME NEW r \in voteReqs, HandleRequestVote(r) PROVE AppendsStep
  <2>. DEFINE v == r.to
              x == IF r.term > currentTerm[v] THEN "FOLLOWER" ELSE role[v]
  <2>1. v \in Server /\ r.term \in Nat /\ currentTerm[v] \in Nat
    BY DEF TypeOK, VoteReqType
  <2>2. /\ ~(r.term < currentTerm[v])
        /\ currentTerm' = [currentTerm EXCEPT ![v] = r.term]
        /\ role' = [role EXCEPT ![v] = x]
        /\ UNCHANGED <<nextIndex, matchIndex, appendMsgs>>
    BY <1>3 DEF HandleRequestVote, AdoptTerm, Stale
  <2>3. x # "LEADER" \/ (x = role[v] /\ r.term = currentTerm[v])
    BY <2>1, <2>2
  <2>. HIDE DEF v, x
  <2>. QED  BY <2>1, <2>2, <2>3, LeadersKept, CalmSends
<1>4. ASSUME NEW m \in voteReps, VoteReplyHigherTerm(m) PROVE AppendsStep
  <2>1. m.to \in Server
    BY DEF TypeOK, VoteRepType
  <2>2. /\ currentTerm' = [currentTerm EXCEPT ![m.to] = m.term]
        /\ role' = [role EXCEPT ![m.to] = "FOLLOWER"]
        /\ UNCHANGED <<nextIndex, matchIndex, appendMsgs>>
    BY <1>4 DEF VoteReplyHigherTerm, StepDown
  <2>. QED  BY <2>1, <2>2, LeadersKept, CalmSends
<1>5. ASSUME NEW m \in voteReps, VoteReplyWins(m) PROVE AppendsStep
  <2>1. m.to \in Server /\ currentTerm[m.to] \in Nat
    BY DEF TypeOK, VoteRepType
  <2>2. /\ role[m.to] = "CANDIDATE" /\ BecomeLeader(m.to, currentTerm[m.to], disk[m.to])
        /\ currentTerm' = currentTerm /\ UNCHANGED appendMsgs
    BY <1>5 DEF VoteReplyWins, Counts, ElectionOpen
  <2>3. currentTerm' = [currentTerm EXCEPT ![m.to] = currentTerm[m.to]]
    BY <2>2 DEF TypeOK
  <2>. QED  BY <2>1, <2>2, <2>3, WinnerStarts
<1>6. ASSUME \/ \E n \in Server : BroadcastRequestVote(n)
             \/ \E r \in voteReqs : RejectStaleVoteRequest(r)
             \/ \E m \in voteReps : VoteReplyIgnored(m) \/ VoteReplyCounted(m)
      PROVE  AppendsStep
  <2>1. UNCHANGED <<role, currentTerm, nextIndex, matchIndex, appendMsgs>>
    BY <1>6 DEF BroadcastRequestVote, RejectStaleVoteRequest, VoteReplyIgnored, VoteReplyCounted
  <2>. QED  BY <2>1, NobodyLeads, CalmSends
<1>. QED  BY <1>1, <1>2, <1>3, <1>4, <1>5, <1>6 DEF Election

\* The reply of a follower that recognises the leader.
LEMMA RecognisedSends ==
  ASSUME TypeOK, NEW r \in appendReqs, Recognise(r.to, r.term, r.from), UNCHANGED leaderVars
  PROVE  AllLeadOn
<1>1. r.to \in Server
  BY LogTypes
<1>2. /\ currentTerm' = [currentTerm EXCEPT ![r.to] = r.term]
      /\ role' = [role EXCEPT ![r.to] = "FOLLOWER"] /\ UNCHANGED <<nextIndex, matchIndex>>
  BY DEF Recognise, leaderVars
<1>. QED  BY <1>1, <1>2, LeadersKept

LEMMA SuccessHeard ==
  ASSUME TypeOK, LogInv, NEW m \in appendReps, AppendReplySuccess(m)
  PROVE  Hears(m, NewMatch(m), NewMatch(m) + 1)
<1>. DEFINE n == m.to
            p == m.from
            c == NewMatch(m)
<1>1. /\ n \in Server /\ p \in Server /\ StillLeads(m) /\ Has(log[n], c, currentTerm[n])
      /\ log[n] \in Seq(EntryType)
  BY CountedMatch, LogTypes DEF AppendReplySuccess
<1>2. /\ matchIndex' = [matchIndex EXCEPT ![n] = [matchIndex[n] EXCEPT ![p] = c]]
      /\ nextIndex' = [nextIndex EXCEPT ![n][p] = c + 1]
      /\ UNCHANGED <<role, currentTerm, appendReqs>>
      /\ appendReps' = appendReps \ {m}
  BY DEF AppendReplySuccess, NextAfter, ReceiveAck, nodeVars
<1>. HIDE DEF n, p, c
<1>3. c \in Nat
  BY <1>1 DEF Has
<1>4. nextIndex \in [Server -> [Server -> Nat]] /\ matchIndex \in [Server -> [Server -> Nat]]
  BY DEF TypeOK
<1>5. \A x, y \in Server :
        /\ nextIndex'[x][y] = IF x = n /\ y = p THEN c + 1 ELSE nextIndex[x][y]
        /\ matchIndex'[x][y] = IF x = n /\ y = p THEN c ELSE matchIndex[x][y]
  BY <1>1, <1>2, <1>4
<1>6. c < c + 1
  BY <1>3
<1>. QED  BY <1>1, <1>2, <1>5, <1>6 DEF Hears, n, p, c

LEMMA FailureHeard ==
  ASSUME TypeOK, NextAsSent, NEW m \in appendReps, AppendReplyFailure(m)
  PROVE  Hears(m, matchIndex[m.to][m.from], m.prevIndex)
<1>. DEFINE n == m.to
            p == m.from
            i == nextIndex[n][p]
<1>1. /\ n \in Server /\ p \in Server /\ StillLeads(m) /\ ~m.success
      /\ m.term <= currentTerm[n] /\ m.prevIndex \in Nat
  BY LogTypes DEF AppendReplyFailure
<1>2. /\ nextIndex' = [nextIndex EXCEPT ![n][p] = BackedUp(i)]
      /\ UNCHANGED <<role, currentTerm, matchIndex, appendReqs>>
      /\ appendReps' = appendReps \ {m}
  BY DEF AppendReplyFailure, ReceiveAck, nodeVars
<1>3. i = m.prevIndex + 1 /\ matchIndex[n][p] < m.prevIndex
  BY <1>1 DEF NextAsSent, StillLeads, Leads
<1>4. nextIndex \in [Server -> [Server -> Nat]] /\ matchIndex[n][p] \in Nat
  BY <1>1 DEF TypeOK
<1>. HIDE DEF n, p, i
<1>5. BackedUp(i) = m.prevIndex
  <2>1. PICK k \in Nat : k = m.prevIndex
    BY <1>1
  <2>2. PICK j \in Nat : j = matchIndex[n][p]
    BY <1>4
  <2>3. i = k + 1 /\ j < k
    BY <1>3, <2>1, <2>2
  <2>4. i > 1 /\ i - 1 = k
    BY <2>3
  <2>. QED  BY <2>1, <2>4 DEF BackedUp
<1>6. \A x, y \in Server :
        nextIndex'[x][y] = IF x = n /\ y = p THEN m.prevIndex ELSE nextIndex[x][y]
  BY <1>1, <1>2, <1>4, <1>5
<1>. QED  BY <1>1, <1>2, <1>3, <1>6 DEF Hears, n, p

LEMMA ReplicationSends ==
  ASSUME TypeOK, LogInv, CommitInv, NextAsSent, Replication
  PROVE  AppendsStep
<1>. USE DEF nodeVars, logVars, leaderVars
<1>1. ASSUME NEW n \in Server, NEW p \in Peers(n), SendAppendEntries(n, p) PROVE AppendsStep
  <2>1. AppendSent(n, p) /\ UNCHANGED <<role, currentTerm, nextIndex, matchIndex>>
    BY <1>1 DEF SendAppendEntries, AppendSent
  <2>2. AllLeadOn
    BY <2>1, NobodyLeads
  <2>. QED  BY <2>1, <2>2 DEF AppendsStep
<1>2. ASSUME NEW r \in appendReqs, RpcFails(r) PROVE AppendsStep
  <2>1. /\ appendReqs' \subseteq appendReqs \cup {[r EXCEPT !.live = FALSE]}
        /\ appendReps' = appendReps /\ UNCHANGED <<role, currentTerm, nextIndex, matchIndex>>
    BY <1>2 DEF RpcFails
  <2>2. [r EXCEPT !.live = FALSE].live = FALSE
    BY DEF TypeOK, AppendReqType
  <2>3. AppendsEnd
    BY <2>1, <2>2 DEF AppendsEnd
  <2>. QED  BY <2>1, <2>3, NobodyLeads DEF AppendsStep
<1>3. ASSUME NEW r \in appendReqs, RejectStaleAppend(r) PROVE AppendsStep
  <2>. DEFINE t == currentTerm[r.to]
  <2>1. /\ Stale(r) /\ appendReqs' = appendReqs \ {r}
        /\ appendReps' = appendReps \cup AppendReplies(r, t, FALSE)
        /\ UNCHANGED <<role, currentTerm, nextIndex, matchIndex>>
    BY <1>3 DEF RejectStaleAppend
  <2>2. r.to \in Server /\ r.term \in Nat
    BY LogTypes
  <2>3. t \in Nat
    BY <2>2 DEF TypeOK
  <2>4. ~(t <= r.term)
    BY <2>1, <2>2, <2>3 DEF Stale
  <2>. HIDE DEF t
  <2>5. AppendAnswered(r, t, FALSE)
    BY <2>1, <2>4 DEF AppendAnswered
  <2>. QED  BY <2>1, <2>3, <2>5, NobodyLeads DEF AppendsStep
<1>4. ASSUME NEW r \in appendReqs, RejectMismatch(r) PROVE AppendsStep
  <2>1. /\ ~Stale(r) /\ ~PrevMatches(log[r.to], r.prevLogIndex, r.prevLogTerm)
        /\ appendReqs' = appendReqs \ {r}
        /\ appendReps' = appendReps \cup AppendReplies(r, r.term, FALSE)
        /\ Recognise(r.to, r.term, r.from) /\ UNCHANGED leaderVars
    BY <1>4 DEF RejectMismatch
  <2>2. AllLeadOn
    BY <2>1, RecognisedSends
  <2>3. Leads(r.from, r.term) => matchIndex[r.from][r.to] < r.prevLogIndex
    BY <2>1, MismatchBeyond
  <2>4. AppendAnswered(r, r.term, FALSE) /\ r.term \in Nat
    BY <2>1, <2>3, LogTypes DEF AppendAnswered
  <2>. QED  BY <2>2, <2>4 DEF AppendsStep
<1>5. ASSUME NEW r \in appendReqs, AcceptAppend(r) PROVE AppendsStep
  <2>1. /\ appendReqs' = appendReqs \ {r}
        /\ appendReps' = appendReps \cup AppendReplies(r, r.term, TRUE)
        /\ Recognise(r.to, r.term, r.from) /\ UNCHANGED leaderVars
    BY <1>5 DEF AcceptAppend
  <2>2. AllLeadOn
    BY <2>1, RecognisedSends
  <2>3. AppendAnswered(r, r.term, TRUE) /\ r.term \in Nat
    BY <2>1, LogTypes DEF AppendAnswered
  <2>. QED  BY <2>2, <2>3 DEF AppendsStep
<1>6. ASSUME NEW m \in appendReps, LoseAppendReply(m) \/ AppendReplyIgnored(m) PROVE AppendsStep
  <2>1. /\ appendReps' \subseteq appendReps /\ appendReqs' = appendReqs
        /\ UNCHANGED <<role, currentTerm, nextIndex, matchIndex>>
    BY <1>6 DEF LoseAppendReply, AppendReplyIgnored, ReceiveAck
  <2>. QED  BY <2>1, NobodyLeads DEF AppendsStep, AppendsEnd
<1>7. ASSUME NEW m \in appendReps, AppendReplyHigherTerm(m) PROVE AppendsStep
  <2>1. m.to \in Server
    BY LogTypes
  <2>2. /\ currentTerm' = [currentTerm EXCEPT ![m.to] = m.term]
        /\ role' = [role EXCEPT ![m.to] = "FOLLOWER"]
        /\ UNCHANGED <<nextIndex, matchIndex, appendReqs>> /\ appendReps' \subseteq appendReps
    BY <1>7 DEF AppendReplyHigherTerm, StepDown, ReceiveAck
  <2>3. AllLeadOn
    BY <2>1, <2>2, LeadersKept
  <2>. QED  BY <2>2, <2>3 DEF AppendsStep, AppendsEnd
<1>8. ASSUME NEW m \in appendReps, AppendReplySuccess(m) PROVE AppendsStep
  <2>1. Hears(m, NewMatch(m), NewMatch(m) + 1)
    BY <1>8, SuccessHeard
  <2>2. NewMatch(m) \in Nat /\ NewMatch(m) + 1 \in Nat
    <3>1. StillLeads(m)
      BY <1>8 DEF AppendReplySuccess
    <3>2. Has(log[m.to], NewMatch(m), currentTerm[m.to]) /\ m.to \in Server
      BY <3>1, CountedMatch
    <3>3. Len(log[m.to]) \in Nat
      BY <3>2, LogTypes
    <3>. QED  BY <3>2, <3>3 DEF Has
  <2>. QED  BY <2>1, <2>2 DEF AppendsStep
<1>9. ASSUME NEW m \in appendReps, AppendReplyFailure(m) PROVE AppendsStep
  <2>1. Hears(m, matchIndex[m.to][m.from], m.prevIndex)
    BY <1>9, FailureHeard
  <2>2. m.to \in Server /\ m.from \in Server /\ m.prevIndex \in Nat
    BY LogTypes
  <2>3. matchIndex[m.to][m.from] \in Nat
    BY <2>2 DEF TypeOK
  <2>. QED  BY <2>1, <2>2, <2>3 DEF AppendsStep
<1>. QED  BY <1>1, <1>2, <1>3, <1>4, <1>5, <1>6, <1>7, <1>8, <1>9 DEF Replication

LEMMA ClientSends ==
  ASSUME Client
  PROVE  AppendsStep
<1>1. UNCHANGED <<role, currentTerm, nextIndex, matchIndex, appendMsgs>>
  BY DEF Client, Propose, ProposalOk, ProposalFails, nodeVars, leaderVars
<1>. QED  BY <1>1, NobodyLeads, CalmSends

\* The requests of a dead process nobody waits for.
LEMMA RecoveredSends ==
  ASSUME TypeOK, NEW n \in Server, NEW d, Recover(n, d),
         appendReqs' \subseteq Disown(appendReqs, n) \/ UNCHANGED appendReqs
  PROVE  AppendsStep
<1>1. /\ currentTerm' = [currentTerm EXCEPT ![n] = d.currentTerm]
      /\ role' = [role EXCEPT ![n] = "FOLLOWER"]
      /\ nextIndex' = [nextIndex EXCEPT ![n] = [p \in Server |-> 0]]
      /\ matchIndex' = [matchIndex EXCEPT ![n] = [p \in Server |-> 0]]
      /\ appendReps' \subseteq appendReps
  BY DEF Recover
<1>2. \A p \in Server : role'[p] = "LEADER" =>
        nextIndex'[p] = nextIndex[p] /\ matchIndex'[p] = matchIndex[p]
  BY <1>1 DEF TypeOK
<1>3. AllLeadOn
  BY <1>1, <1>2, LeadersKept
<1>4. ASSUME NEW r \in Disown(appendReqs, n), r.live PROVE r \in appendReqs
  <2>1. PICK q \in appendReqs : r = IF q.from = n THEN [q EXCEPT !.live = FALSE] ELSE q
    BY DEF Disown
  <2>2. [q EXCEPT !.live = FALSE].live = FALSE
    BY DEF TypeOK, AppendReqType
  <2>. QED  BY <1>4, <2>1, <2>2
<1>. QED  BY <1>1, <1>3, <1>4 DEF AppendsStep, AppendsEnd

LEMMA FailureSends ==
  ASSUME TypeOK, Failure
  PROVE  AppendsStep
<1>1. \A r \in voteReqs : r.to \in Server
  BY DEF TypeOK, VoteReqType
<1>2. \A r \in appendReqs : r.to \in Server
  BY LogTypes
<1>3. \A r, n : Disown(appendReqs \ {r}, n) \subseteq Disown(appendReqs, n)
  BY DEF Disown
<1>. QED  BY <1>1, <1>2, <1>3, RecoveredSends
          DEF Failure, Crash, CrashInElectSelf, CrashInUpdateMetaData, CrashInPropose,
              CrashInRequestVote, CrashInAppendEntries

\* A leader waits for one answer of a peer at a time; nextIndex is where it has
\* asked from; a refusal is of something it has not counted.
THEOREM NextInvariant == ~MetaTearing => (Spec => []NextInv)
<1>. SUFFICES ASSUME ~MetaTearing PROVE Spec => []NextInv
  OBVIOUS
<1>1. Init => NextInv
  BY DEF Init, NextInv, OneAppendPerPeer, NextAsSent, MatchBelowNext
<1>2. TypeOK /\ ElectionSafety' /\ LogInv /\ CommitInv /\ NextInv /\ [Next]_vars => NextInv'
  <2>1. ASSUME TypeOK, ElectionSafety', LogInv, CommitInv, NextInv, Next PROVE NextInv'
    <3>1. AppendsStep
      BY <2>1, ElectionSends, ReplicationSends, ClientSends, FailureSends DEF Next, NextInv
    <3>. QED  BY <2>1, <3>1, OneAppendStep, AsSentStep, BelowNextStep DEF NextInv
  <2>2. ASSUME NextInv, UNCHANGED vars PROVE NextInv'
    <3>1. UNCHANGED <<role, currentTerm, nextIndex, matchIndex, appendReqs, appendReps>>
      BY <2>2 DEF vars, nodeVars, leaderVars, appendMsgs
    <3>. QED  BY <2>2, <3>1 DEF NextInv, OneAppendPerPeer, NextAsSent, Leads, MatchBelowNext
  <2>. QED  BY <2>1, <2>2
<1>. QED  BY <1>1, <1>2, TypeCorrect, AtMostOneLeader, LogInvariant, CommitInvariant, PTL DEF Spec

\* Whatever replies were lost, late or refusals, a leader does not go back behind
\* what a peer has acknowledged, nor past its own log.
THEOREM NextStaysInRange == ~MetaTearing => (Spec => []NextIndexInRange)
<1>. SUFFICES ASSUME ~MetaTearing PROVE Spec => []NextIndexInRange
  OBVIOUS
<1>1. ASSUME TypeOK, LogInv, NextInv PROVE NextIndexInRange
  <2>. SUFFICES ASSUME NEW n \in Server, role[n] = "LEADER", NEW p \in Peers(n)
                PROVE  /\ matchIndex[n][p] < nextIndex[n][p]
                       /\ nextIndex[n][p] <= Len(log[n]) + 1
    BY DEF NextIndexInRange
  <2>1. p \in Server
    BY DEF Peers
  <2>2. nextIndex[n][p] \in 1 .. Len(log[n]) + 1
    BY <1>1, <2>1 DEF LogInv, NextWithinLog
  <2>3. matchIndex[n][p] < nextIndex[n][p]
    BY <1>1, <2>1 DEF NextInv, MatchBelowNext
  <2>4. Len(log[n]) \in Nat
    BY <1>1, LogTypes
  <2>. QED  BY <2>2, <2>3, <2>4
<1>. QED  BY <1>1, TypeCorrect, LogInvariant, NextInvariant, PTL
-----------------------------------------------------------------------------
(* A cluster of one *)

\* Its log stays or grows by an entry.
LogMoves(n) ==
  log'[n] = log[n] \/ \E t \in Nat, v \in Command : log'[n] = Extended(n, t, v)

\* Its state machine is given more of the log, or built anew from it.
MachineKeepsUp(n) ==
  \/ applied'[n] = applied[n]
  \/ applied'[n] = ApplyCommitted(applied[n], log'[n], commitIndex'[n])
  \/ applied'[n] = Replay(log'[n], commitIndex'[n]) /\ commitIndex'[n] <= Len(log'[n])
SoloMoves == NoRpcs' /\ \A n \in Server : LogMoves(n) /\ MachineKeepsUp(n)

LEMMA SoloRests ==
  ASSUME NoRpcs, UNCHANGED <<logVars, voteMsgs, appendMsgs>>
  PROVE  SoloMoves
  BY DEF SoloMoves, LogMoves, MachineKeepsUp, NoRpcs, logVars, voteMsgs, appendMsgs

\* The only node, as advanceCommit and as recover() leave it.
LEMMA SoloLeads ==
  ASSUME TypeOK, Solo, NEW n \in Server, NEW l, NEW match, NEW u, NEW d,
         CommitAsLeader(n, l, match, u, d),
         l = log[n] \/ \E t \in Nat, v \in Command : l = Extended(n, t, v)
  PROVE  \A p \in Server : LogMoves(p) /\ MachineKeepsUp(p)
<1>. DEFINE c == AdvancedCommit(n, l, match, u, commitIndex[n])
<1>1. log' = [log EXCEPT ![n] = l] /\ commitIndex' = [commitIndex EXCEPT ![n] = c]
      /\ applied' = [applied EXCEPT ![n] = ApplyCommitted(@, l, c)]
  BY DEF CommitAsLeader
<1>. HIDE DEF c
<1>2. log'[n] = l /\ commitIndex'[n] = c /\ applied'[n] = ApplyCommitted(applied[n], l, c)
  BY <1>1 DEF TypeOK
<1>. QED  BY <1>2 DEF Solo, LogMoves, MachineKeepsUp

LEMMA SoloRecovers ==
  ASSUME TypeOK, Solo, NoRpcs, NEW n \in Server, NEW d \in DiskType, Recover(n, d),
         d.log = log[n] \/ \E t \in Nat, v \in Command : d.log = Extended(n, t, v),
         voteReqs' \subseteq Disown(voteReqs, n) \/ UNCHANGED voteReqs,
         appendReqs' \subseteq Disown(appendReqs, n) \/ UNCHANGED appendReqs
  PROVE  SoloMoves
<1>. DEFINE c == Min({d.commitIndex, Len(d.log)})
<1>1. /\ log' = [log EXCEPT ![n] = d.log] /\ commitIndex' = [commitIndex EXCEPT ![n] = c]
      /\ applied' = [applied EXCEPT ![n] = Replay(d.log, c)]
      /\ voteReps' = {m \in voteReps : m.to # n} /\ appendReps' = {m \in appendReps : m.to # n}
  BY DEF Recover
<1>2. d.commitIndex \in Nat /\ d.log \in Seq(EntryType)
  BY DEF DiskType
<1>3. c <= Len(d.log)
  BY <1>2, MinOfTwo
<1>. HIDE DEF c
<1>4. log'[n] = d.log /\ commitIndex'[n] = c /\ applied'[n] = Replay(d.log, c)
  BY <1>1 DEF TypeOK
<1>5. NoRpcs'
  BY <1>1 DEF NoRpcs, Disown
<1>. QED  BY <1>3, <1>4, <1>5 DEF Solo, SoloMoves, LogMoves, MachineKeepsUp

\* A node without peers sends no request, so none is answered.
LEMMA SoloElection ==
  ASSUME TypeOK, Solo, NoRpcs, Election
  PROVE  SoloMoves /\ UNCHANGED <<waiting, acked>>
<1>1. PICK n \in Server : ElectionTimeout(n) \/ ElectSelf(n) \/ BroadcastRequestVote(n)
  BY DEF Election, NoRpcs
<1>2. CASE ElectionTimeout(n)
  BY <1>2, SoloRests DEF ElectionTimeout, clientVars
<1>3. CASE ElectSelf(n)
  <2>. DEFINE t == currentTerm[n] + 1
              l == Extended(n, t, NoOp)
  <2>1. /\ CommitAsLeader(n, l, [p \in Server |-> 0], t, MetaWritten(disk[n], t, n, commitIndex[n]))
        /\ UNCHANGED <<voteMsgs, appendMsgs, clientVars>>
    BY <1>3 DEF ElectSelf, BecomeLeader
  <2>2. t \in Nat /\ NoOp \in Command
    BY DEF TypeOK, Command
  <2>. HIDE DEF t
  <2>3. \A p \in Server : LogMoves(p) /\ MachineKeepsUp(p)
    BY <2>1, <2>2, SoloLeads
  <2>. QED  BY <2>1, <2>3 DEF SoloMoves, NoRpcs, voteMsgs, appendMsgs, clientVars
<1>4. CASE BroadcastRequestVote(n)
  <2>1. Peers(n) = {}
    BY DEF Solo, Peers
  <2>2. UNCHANGED <<logVars, voteMsgs, appendMsgs, clientVars>>
    BY <1>4, <2>1 DEF BroadcastRequestVote, voteMsgs
  <2>. QED  BY <2>2, SoloRests DEF clientVars
<1>. QED  BY <1>1, <1>2, <1>3, <1>4

LEMMA SoloReplication ==
  ASSUME Solo, NoRpcs, Replication
  PROVE  FALSE
  BY DEF Solo, NoRpcs, Replication, Peers

\* Recovery from the log as it was, or with the entry that was being added.
ComesBack(n, d) ==
  /\ Recover(n, d)
  /\ d.log = log[n] \/ \E t \in Nat, v \in Command : d.log = Extended(n, t, v)
  /\ voteReqs' \subseteq Disown(voteReqs, n) \/ UNCHANGED voteReqs
  /\ appendReqs' \subseteq Disown(appendReqs, n) \/ UNCHANGED appendReqs
SoloComesBack == \E n \in Server, d \in DiskType : ComesBack(n, d)

LEMMA SoloFailure ==
  ASSUME TypeOK, Solo, NoRpcs, DurableState, Failure
  PROVE  SoloMoves /\ waiting' \subseteq waiting /\ UNCHANGED acked
<1>1. ASSUME NEW n \in Server
      PROVE  /\ disk[n] \in DiskType /\ disk[n].log = log[n]
             /\ currentTerm[n] \in Nat /\ currentTerm[n] + 1 \in Nat /\ commitIndex[n] \in Nat
  <2>1. disk[n] \in DiskType /\ disk[n].log = log[n]
    BY DiskFields
  <2>2. currentTerm[n] \in Nat /\ commitIndex[n] \in Nat
    BY DEF TypeOK
  <2>. QED  BY <2>1, <2>2
<1>2. SoloComesBack
  <2>1. ASSUME NEW n \in Server, Crash(n) PROVE SoloComesBack
    BY <1>1, <2>1 DEF Crash, SoloComesBack, ComesBack
  <2>2. ASSUME NEW n \in Server, CrashInUpdateMetaData(n) PROVE SoloComesBack
    <3>1. MetaTorn(disk[n]) \in DiskType /\ MetaTorn(disk[n]).log = log[n]
      BY <1>1, MetaWrittenType DEF MetaTorn, MetaWritten
    <3>. QED  BY <2>2, <3>1 DEF CrashInUpdateMetaData, SoloComesBack, ComesBack
  <2>3. ASSUME NEW n \in Server, CrashInElectSelf(n) PROVE SoloComesBack
    <3>. DEFINE t == currentTerm[n] + 1
                d == MetaWritten(disk[n], t, n, commitIndex[n])
                l == Extended(n, t, NoOp)
    <3>1. /\ Recover(n, d) \/ Recover(n, LogWritten(d, l))
          /\ UNCHANGED <<voteReqs, appendReqs>>
      BY <2>3 DEF CrashInElectSelf
    <3>2. d \in DiskType /\ d.log = log[n]
      BY <1>1, MetaWrittenType DEF MetaWritten
    <3>3. NoOp \in Command /\ l \in Seq(EntryType)
      BY <1>1, ExtendedType DEF Command
    <3>. HIDE DEF d
    <3>4. LogWritten(d, l) \in DiskType /\ LogWritten(d, l).log = l
      BY <3>2, <3>3, LogWrittenType DEF LogWritten, DiskType
    <3>. QED  BY <1>1, <3>1, <3>2, <3>3, <3>4 DEF SoloComesBack, ComesBack
  <2>4. ASSUME NEW n \in Server, NEW v \in Value, CrashInPropose(n, v) PROVE SoloComesBack
    <3>. DEFINE t == currentTerm[n]
                l == Extended(n, t, v)
    <3>1. Recover(n, LogWritten(disk[n], l)) /\ UNCHANGED <<voteReqs, appendReqs>>
      BY <2>4 DEF CrashInPropose
    <3>2. v \in Command /\ l \in Seq(EntryType)
      BY <1>1, ExtendedType DEF Command
    <3>3. LogWritten(disk[n], l) \in DiskType /\ LogWritten(disk[n], l).log = l
      BY <1>1, <3>2, LogWrittenType DEF LogWritten, DiskType
    <3>. QED  BY <1>1, <3>1, <3>2, <3>3 DEF SoloComesBack, ComesBack
  <2>. QED  BY <2>1, <2>2, <2>3, <2>4 DEF Failure, NoRpcs
<1>3. ASSUME NEW n \in Server, NEW d, Recover(n, d)
      PROVE  waiting' \subseteq waiting /\ UNCHANGED acked
  BY <1>3 DEF Recover
<1>. QED  BY <1>2, <1>3, SoloRecovers DEF SoloComesBack, ComesBack

\* More of the log keeps the machine in step with it, and so does starting anew.
LEMMA ApplyKeepsUp ==
  ASSUME NEW l \in Seq(EntryType), NEW a \in Seq(Command), NEW c \in Nat, AppliesLog(l, a)
  PROVE  AppliesLog(l, ApplyCommitted(a, l, c))
<1>. DEFINE j == Min({c, Len(l)})
            b == Commands(SubSeq(l, Len(a) + 1, j))
<1>1. Len(a) \in Nat /\ Len(l) \in Nat /\ j \in Nat /\ j <= Len(l)
  BY MinOfTwo
<1>2. ApplyCommitted(a, l, c) = a \o b
  BY DEF ApplyCommitted
<1>3. Len(a) <= Len(l) /\ (\A i \in 1..Len(a) : a[i] = l[i].cmd)
      /\ \A i \in 1..Len(l) : l[i].index = i
  BY DEF AppliesLog
<1>. HIDE DEF j
<1>4. CASE Len(a) <= j
  <2>1. b \in Seq(Command) /\ Len(b) = j - Len(a)
        /\ \A k \in 1 .. j - Len(a) : b[k] = l[Len(a) + k].cmd
    BY <1>1, <1>4, PartCommands
  <2>. HIDE DEF b
  <2>2. Len(a \o b) = j /\ \A i \in 1..j : (a \o b)[i] = IF i <= Len(a) THEN a[i] ELSE b[i - Len(a)]
    <3>1. /\ Len(a \o b) = Len(a) + Len(b)
          /\ \A i \in 1 .. Len(a) + Len(b) :
               (a \o b)[i] = IF i <= Len(a) THEN a[i] ELSE b[i - Len(a)]
      BY <2>1, ConcatProperties, ZenonT(60)
    <3>2. Len(a) + Len(b) = j
      BY <1>1, <2>1
    <3>. QED  BY <3>1, <3>2
  <2>3. ASSUME NEW i \in 1..j PROVE (a \o b)[i] = l[i].cmd
    <3>1. CASE i <= Len(a)
      BY <1>1, <1>3, <2>2, <3>1
    <3>2. CASE ~(i <= Len(a))
      <4>1. i - Len(a) \in 1 .. j - Len(a) /\ Len(a) + (i - Len(a)) = i
        BY <1>1, <3>2
      <4>2. (a \o b)[i] = b[i - Len(a)]
        BY <2>2, <3>2
      <4>. QED  BY <2>1, <4>1, <4>2
    <3>. QED  BY <3>1, <3>2
  <2>. QED  BY <1>1, <1>2, <1>3, <2>2, <2>3 DEF AppliesLog
<1>5. CASE ~(Len(a) <= j)
  <2>1. SubSeq(l, Len(a) + 1, j) = <<>>
    BY <1>1, <1>5
  <2>2. b = <<>>
    <3>1. Commands(<<>>) = <<>>
      BY DEF Commands
    <3>. QED  BY <2>1, <3>1
  <2>. HIDE DEF b
  <2>3. a \o b = a
    BY <2>2
  <2>. QED  BY <1>2, <2>3
<1>. QED  BY <1>4, <1>5

LEMMA ReplayKeepsUp ==
  ASSUME NEW l \in Seq(EntryType), NEW a, NEW c \in Nat, AppliesLog(l, a), c <= Len(l)
  PROVE  AppliesLog(l, Replay(l, c))
<1>1. /\ Len(Commands(SubSeq(l, 1, c))) = c
      /\ \A k \in 1..c : Commands(SubSeq(l, 1, c))[k] = l[k].cmd
  BY PrefixCommands
<1>. QED  BY <1>1 DEF AppliesLog, Replay

\* An entry more, and where it is.
LEMMA ExtendedKeepsUp ==
  ASSUME TypeOK, NEW n \in Server, NEW t \in Nat, NEW v \in Command,
         AppliesLog(log[n], applied[n])
  PROVE  /\ AgreeUpTo(log[n], Extended(n, t, v), Len(log[n]))
         /\ AppliesLog(Extended(n, t, v), applied[n])
         /\ LastIndex(Extended(n, t, v)) = Len(Extended(n, t, v))
         /\ Len(Extended(n, t, v)) \in 1..Len(Extended(n, t, v))
         /\ Extended(n, t, v)[Len(Extended(n, t, v))].cmd = v
<1>. DEFINE l == log[n]
            e == Entry(t, LastIndex(l) + 1, v)
            m == Append(l, e)
<1>1. l \in Seq(EntryType) /\ Len(l) \in Nat
  BY DEF TypeOK
<1>2. /\ \A i \in 1..Len(l) : l[i].index = i
      /\ Len(applied[n]) <= Len(l) /\ \A i \in 1..Len(applied[n]) : applied[n][i] = l[i].cmd
  BY DEF AppliesLog
<1>. HIDE DEF l
<1>3. LastIndex(l) = Len(l)
  <2>1. CASE l = <<>>
    BY <2>1 DEF LastIndex
  <2>2. CASE l # <<>>
    <3>1. Len(l) \in 1..Len(l)
      BY <1>1, <2>2
    <3>. QED  BY <1>2, <2>2, <3>1 DEF LastIndex
  <2>. QED  BY <2>1, <2>2
<1>4. e \in EntryType /\ e.index = Len(l) + 1 /\ e.cmd = v
  BY <1>1, <1>3 DEF Entry, EntryType
<1>. HIDE DEF e
<1>5. m \in Seq(EntryType) /\ Len(m) = Len(l) + 1 /\ m[Len(l) + 1] = e /\ AgreeUpTo(l, m, Len(l))
  BY <1>1, <1>4, AppendAgrees
<1>6. Extended(n, t, v) = m
  BY DEF Extended, l, e
<1>. HIDE DEF m
<1>7. \A i \in 1..Len(l) : l[i] = m[i]
  BY <1>5 DEF AgreeUpTo
<1>8. \A i \in 1..Len(m) : m[i].index = i
  <2>. TAKE i \in 1..Len(m)
  <2>1. CASE i \in 1..Len(l)
    BY <1>2, <1>7, <2>1
  <2>2. CASE i = Len(l) + 1
    BY <1>4, <1>5, <2>2
  <2>. QED  BY <1>1, <1>5, <2>1, <2>2
<1>9. Len(applied[n]) \in Nat
  BY DEF TypeOK
<1>10. AppliesLog(m, applied[n])
  <2>1. \A i \in 1..Len(applied[n]) : i \in 1..Len(l)
    BY <1>1, <1>2, <1>9
  <2>2. Len(applied[n]) <= Len(m)
    BY <1>1, <1>2, <1>5, <1>9
  <2>. QED  BY <1>2, <1>7, <1>8, <2>1, <2>2 DEF AppliesLog
<1>11. m # <<>> /\ Len(m) \in 1..Len(m) /\ m[Len(m)] = e
  BY <1>1, <1>5
<1>12. LastIndex(m) = Len(m)
  BY <1>8, <1>11 DEF LastIndex
<1>. QED  BY <1>4, <1>5, <1>6, <1>10, <1>11, <1>12 DEF l

LEMMA SoloLogStep ==
  ASSUME TypeOK, TypeOK', SoloInv, NEW n \in Server, LogMoves(n), MachineKeepsUp(n)
  PROVE  AppliesLog(log'[n], applied'[n]) /\ AgreeUpTo(log[n], log'[n], Len(log[n]))
<1>1. /\ log[n] \in Seq(EntryType) /\ log'[n] \in Seq(EntryType)
      /\ applied[n] \in Seq(Command) /\ commitIndex'[n] \in Nat
  BY DEF TypeOK
<1>2. AppliesLog(log[n], applied[n])
  BY DEF SoloInv
<1>3. AppliesLog(log'[n], applied[n]) /\ AgreeUpTo(log[n], log'[n], Len(log[n]))
  <2>1. CASE log'[n] = log[n]
    <3>1. AgreeUpTo(log[n], log[n], Len(log[n]))
      BY <1>1 DEF AgreeUpTo
    <3>. QED  BY <1>2, <2>1, <3>1
  <2>2. ASSUME NEW t \in Nat, NEW v \in Command, log'[n] = Extended(n, t, v)
        PROVE  AppliesLog(log'[n], applied[n]) /\ AgreeUpTo(log[n], log'[n], Len(log[n]))
    BY <1>2, <2>2, ExtendedKeepsUp
  <2>. QED  BY <2>1, <2>2 DEF LogMoves
<1>4. AppliesLog(log'[n], applied'[n])
  BY <1>1, <1>3, ApplyKeepsUp, ReplayKeepsUp DEF MachineKeepsUp
<1>. QED  BY <1>3, <1>4

\* What a client waits for, or was told, was so before or is the entry just added.
JustProposed(w) ==
  \E n \in Server, v \in Command :
    log'[n] = Extended(n, currentTerm[n], v) /\ w = Proposal(n, v)
SoloAnswers == \A w \in waiting' \cup acked' :
  \/ w \in waiting \cup acked
  \/ JustProposed(w)
  \/ \E q \in waiting : w = Answer(q)

LEMMA SoloClient ==
  ASSUME TypeOK, Solo, NoRpcs, Client
  PROVE  SoloMoves /\ SoloAnswers
<1>1. CASE \E n \in Server, v \in Value : Propose(n, v)
  <2>1. PICK n \in Server, v \in Value : Propose(n, v)
    BY <1>1
  <2>2. v \in Command /\ currentTerm[n] \in Nat /\ log \in [Server -> Seq(EntryType)]
    BY DEF TypeOK, Command
  <2>. DEFINE l == Extended(n, currentTerm[n], v)
  <2>3. /\ CommitAsLeader(n, l, matchIndex[n], currentTerm[n], disk[n])
        /\ waiting' = waiting \cup {Proposal(n, v)} /\ acked' = acked
        /\ UNCHANGED <<voteMsgs, appendMsgs>>
    BY <2>1 DEF Propose, Proposal
  <2>4. log'[n] = l
    BY <2>2, <2>3 DEF CommitAsLeader
  <2>. HIDE DEF l
  <2>5. \A p \in Server : LogMoves(p) /\ MachineKeepsUp(p)
    BY <2>2, <2>3, SoloLeads DEF l
  <2>6. SoloMoves
    BY <2>3, <2>5 DEF SoloMoves, NoRpcs, voteMsgs, appendMsgs
  <2>7. SoloAnswers
    BY <2>2, <2>3, <2>4 DEF SoloAnswers, JustProposed, l
  <2>. QED  BY <2>6, <2>7
<1>2. CASE \E w \in waiting : ProposalOk(w) \/ ProposalFails(w)
  <2>1. PICK w \in waiting : ProposalOk(w) \/ ProposalFails(w)
    BY <1>2
  <2>2. SoloMoves
    BY <2>1, SoloRests DEF ProposalOk, ProposalFails
  <2>3. SoloAnswers
    BY <2>1 DEF ProposalOk, ProposalFails, SoloAnswers
  <2>. QED  BY <2>2, <2>3
<1>. QED  BY <1>1, <1>2 DEF Client

LEMMA SoloSteps ==
  ASSUME TypeOK, DurableState, Solo, NoRpcs, Next
  PROVE  SoloMoves /\ SoloAnswers
<1>1. CASE Election \/ Failure
  <2>1. SoloMoves /\ waiting' \subseteq waiting /\ acked' = acked
    BY <1>1, SoloElection, SoloFailure
  <2>. QED  BY <2>1 DEF SoloAnswers
<1>. QED  BY <1>1, SoloReplication, SoloClient DEF Next

LEMMA SoloStep ==
  ASSUME TypeOK, TypeOK', DurableState, Solo, SoloInv, Next
  PROVE  SoloInv'
<1>1. SoloMoves /\ SoloAnswers
  BY SoloSteps DEF SoloInv
<1>2. ASSUME NEW n \in Server
      PROVE  AppliesLog(log'[n], applied'[n]) /\ AgreeUpTo(log[n], log'[n], Len(log[n]))
  BY <1>1, SoloLogStep DEF SoloMoves
<1>3. ASSUME NEW w, w.node \in Server, InLog(w) PROVE InLog(w)'
  <2>. DEFINE n == w.node
  <2>1. Len(log[n]) <= Len(log'[n]) /\ \A i \in 1..Len(log[n]) : log[n][i] = log'[n][i]
    BY <1>2, <1>3 DEF AgreeUpTo
  <2>2. Len(log[n]) \in Nat /\ Len(log'[n]) \in Nat
    BY <1>3 DEF TypeOK
  <2>. QED  BY <1>3, <2>1, <2>2 DEF InLog
<1>4. \A w \in waiting \cup acked : w.node \in Server /\ InLog(w)
  BY DEF TypeOK, ProposalType, AnswerType, SoloInv
<1>5. ASSUME NEW w \in waiting' \cup acked' PROVE InLog(w)'
  <2>1. CASE w \in waiting \cup acked
    BY <1>3, <1>4, <2>1
  <2>2. CASE JustProposed(w)
    <3>1. PICK n \in Server, v \in Command :
            log'[n] = Extended(n, currentTerm[n], v) /\ w = Proposal(n, v)
      BY <2>2 DEF JustProposed
    <3>. DEFINE l == Extended(n, currentTerm[n], v)
    <3>2. currentTerm[n] \in Nat /\ AppliesLog(log[n], applied[n])
      BY DEF TypeOK, SoloInv
    <3>3. LastIndex(l) = Len(l) /\ Len(l) \in 1..Len(l) /\ l[Len(l)].cmd = v
      BY <3>2, ExtendedKeepsUp
    <3>4. w.node = n /\ w.index = LastIndex(l) /\ w.cmd = v
      BY <3>1 DEF Proposal
    <3>. HIDE DEF l
    <3>. QED  BY <3>1, <3>3, <3>4 DEF InLog, l
  <2>3. CASE \E q \in waiting : w = Answer(q)
    <3>1. PICK q \in waiting : w = Answer(q)
      BY <2>3
    <3>2. w.node = q.node /\ w.index = q.index /\ w.cmd = q.cmd
      BY <3>1 DEF Answer
    <3>3. InLog(q)'
      BY <1>3, <1>4
    <3>. QED  BY <3>2, <3>3 DEF InLog
  <2>. QED  BY <1>1, <2>1, <2>2, <2>3 DEF SoloAnswers
<1>. QED  BY <1>1, <1>2, <1>5 DEF SoloInv, SoloMoves

\* In a cluster of one nothing leaves the log: an entry stays where its client
\* was told it is, in crashes inside an election and a proposal and in those that
\* lose metadata.bin.
THEOREM SoloInvariant == Solo => (Spec => []SoloInv)
<1>. SUFFICES ASSUME Solo PROVE Spec => []SoloInv
  OBVIOUS
<1>1. Init => SoloInv
  <2>. SUFFICES ASSUME Init PROVE SoloInv
    OBVIOUS
  <2>1. ASSUME NEW n \in Server PROVE AppliesLog(log[n], applied[n])
    <3>1. log[n] = <<>> /\ applied[n] = <<>>
      BY DEF Init
    <3>. QED  BY <3>1 DEF AppliesLog
  <2>. QED  BY <2>1 DEF Init, SoloInv, NoRpcs
<1>2. TypeOK /\ TypeOK' /\ DurableState /\ SoloInv /\ [Next]_vars => SoloInv'
  <2>1. ASSUME SoloInv, UNCHANGED vars PROVE SoloInv'
    <3>1. UNCHANGED <<log, applied, voteReqs, voteReps, appendReqs, appendReps, waiting, acked>>
      BY <2>1 DEF vars, logVars, voteMsgs, appendMsgs, clientVars
    <3>. QED  BY <2>1, <3>1 DEF SoloInv, NoRpcs, InLog
  <2>. QED  BY <2>1, SoloStep
<1>. QED  BY <1>1, <1>2, TypeCorrect, Durable, PTL DEF Spec

\* A write acknowledged by a cluster of one is the one its state machine is given
\* at that index, whatever crashes, and in whatever term it was acknowledged.
THEOREM SoloAckedDurable == Solo => (Spec => []AckedDurable)
<1>. SUFFICES ASSUME Solo PROVE Spec => []AckedDurable
  OBVIOUS
<1>1. TypeOK /\ SoloInv => AckedDurable
  <2>. SUFFICES ASSUME TypeOK, SoloInv, NEW a \in acked, NEW n \in Server,
                       Len(applied[n]) >= a.index
                PROVE  applied[n][a.index] = a.cmd
    BY DEF AckedDurable, DurableAt
  <2>1. a.node = n
    BY DEF Solo, TypeOK, AnswerType
  <2>2. a.index \in 1..Len(log[n]) /\ log[n][a.index].cmd = a.cmd
    BY <2>1 DEF SoloInv, InLog
  <2>3. a.index \in 1..Len(applied[n])
    BY <2>2 DEF TypeOK
  <2>. QED  BY <2>2, <2>3 DEF SoloInv, AppliesLog
<1>. QED  BY <1>1, TypeCorrect, SoloInvariant, PTL
=============================================================================
