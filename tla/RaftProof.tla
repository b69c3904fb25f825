------------------------------ MODULE RaftProof ------------------------------
(***************************************************************************)
(* Theorems about module Raft for every set of servers and every bound:    *)
(* what the operators on logs and on sets of numbers return; types; that   *)
(* what a node holds in memory is what its files hold, whenever no thread  *)
(* is inside raft_mutex, and what a crash leaves of it; and one leader a   *)
(* term.  The last assumes that metadata.bin is never found truncated: its *)
(* inductive invariant is ElectionInv, with TypeOK and DurableState, as a  *)
(* crash brings back the term and the vote because they were on disk.      *)
(***************************************************************************)
EXTENDS Raft, FiniteSetTheorems, WellFoundedInduction, SequenceTheorems, TLAPS

-----------------------------------------------------------------------------
(* Numbers and logs *)

\* A non-empty set of numbers has a least element, and Min is it.
LEMMA MinNat ==
  ASSUME NEW S \in SUBSET Nat, S # {}
  PROVE  Min(S) \in S /\ \A x \in S : Min(S) <= x
<1>. DEFINE R == {p \in Nat \X Nat : p[1] < p[2]}
<1>1. IsWellFoundedOn(R, Nat)
  BY NatLessThanWellFounded DEF OpToRel
<1>2. PICK x \in S : \A y \in S : <<y, x>> \notin R
  BY <1>1, WFMin
<1>3. ASSUME NEW y \in S PROVE x <= y
  <2>1. <<y, x>> \in Nat \X Nat
    OBVIOUS
  <2>2. ~(<<y, x>>[1] < <<y, x>>[2])
    BY <1>2, <2>1, Zenon
  <2>. QED  BY <2>2
<1>. QED  BY <1>3 DEF Min

\* A non-empty set of numbers with a bound has a greatest, and Max is it.
LEMMA MaxNat ==
  ASSUME NEW S \in SUBSET Nat, S # {}, NEW b \in Nat, \A x \in S : x <= b
  PROVE  Max(S) \in S /\ \A x \in S : x <= Max(S)
<1>. DEFINE T == {b - x : x \in S}
<1>1. T \in SUBSET Nat /\ T # {}
  OBVIOUS
<1>2. PICK x \in S : b - x = Min(T)
  BY <1>1, MinNat
<1>3. \A y \in S : y <= x
  BY <1>1, <1>2, MinNat
<1>. QED  BY <1>3 DEF Max

\* The parts of a sequence, and the sequence of the commands of a log.
LEMMA SubSeqType ==
  ASSUME NEW E, NEW s \in Seq(E), NEW i \in Int, NEW j \in Int, i >= 1, j <= Len(s)
  PROVE  SubSeq(s, i, j) \in Seq(E)
  OBVIOUS

LEMMA CommandsType ==
  ASSUME NEW C, NEW E, \A e \in E : e.cmd \in C, NEW l \in Seq(E)
  PROVE  Commands(l) \in Seq(C) /\ Len(Commands(l)) = Len(l)
<1>1. \A i \in 1..Len(l) : l[i] \in E
  OBVIOUS
<1>2. Commands(l) \in [1..Len(l) -> C]
  BY <1>1 DEF Commands
<1>3. Len(l) \in Nat
  OBVIOUS
<1>. QED  BY <1>2, <1>3, SeqDef, LenProperties

\* The fields that the code reads at the end of a log, and inside it.
LEMMA EntryFields ==
  ASSUME NEW E, \A e \in E : e.term \in Nat /\ e.index \in Nat, NEW l \in Seq(E)
  PROVE  /\ LastIndex(l) \in Nat /\ LastTerm(l) \in Nat
         /\ \A i : TermAt(l, i) \in Nat
<1>1. \A i \in 1..Len(l) : l[i] \in E
  OBVIOUS
<1>2. l # <<>> => Len(l) \in 1..Len(l)
  OBVIOUS
<1>. QED  BY <1>1, <1>2 DEF LastIndex, LastTerm, TermAt

\* Steps 4 and 5 of handleAppendEntries leave a log of entries.
LEMMA ReconcileType ==
  ASSUME NEW E, \A e \in E : e.index \in Nat, NEW l \in Seq(E), NEW es \in Seq(E)
  PROVE  Reconcile(l, es) \in Seq(E)
<1>1. CASE Differing(l, es) = {}
  BY <1>1 DEF Reconcile
<1>2. CASE Differing(l, es) # {}
  <2>1. Min(Differing(l, es)) \in 1..Len(es)
    <3>1. Differing(l, es) \in SUBSET Nat
      BY DEF Differing
    <3>. QED  BY <1>2, <3>1, MinNat DEF Differing
  <2>2. PICK k \in 1..Len(es) : k = Min(Differing(l, es))
    BY <2>1
  <2>3. es[k].index \in Nat
    OBVIOUS
  <2>4. Before(l, es[k].index) \in Seq(E)
    BY <2>3, SubSeqType DEF Before
  <2>5. SubSeq(es, k, Len(es)) \in Seq(E)
    BY SubSeqType
  <2>6. Before(l, es[k].index) \o SubSeq(es, k, Len(es)) \in Seq(E)
    BY <2>4, <2>5
  <2>. QED  BY <1>2, <2>2, <2>6 DEF Reconcile
<1>. QED  BY <1>1, <1>2

-----------------------------------------------------------------------------
(* Type correctness *)

\* Entries have the fields the lemmas on logs ask for.
LEMMA EntryHasFields ==
  \A e \in EntryType : e.term \in Nat /\ e.index \in Nat /\ e.cmd \in Command
  BY DEF EntryType

\* What the code calls on the way, with the types it leaves behind.
LEMMA MinOfTwo ==
  ASSUME NEW a \in Nat, NEW b \in Nat
  PROVE  Min({a, b}) \in Nat /\ Min({a, b}) <= a /\ Min({a, b}) <= b
  BY MinNat

LEMMA MaxOfTwo ==
  ASSUME NEW a \in Nat, NEW b \in Nat
  PROVE  Max({a, b}) \in Nat /\ a <= Max({a, b}) /\ b <= Max({a, b})
<1>1. {a, b} \in SUBSET Nat /\ {a, b} # {} /\ a + b \in Nat /\ \A x \in {a, b} : x <= a + b
  OBVIOUS
<1>. QED  BY <1>1, MaxNat

LEMMA ApplyCommittedType ==
  ASSUME NEW a \in Seq(Command), NEW l \in Seq(EntryType), NEW c \in Nat
  PROVE  ApplyCommitted(a, l, c) \in Seq(Command)
<1>. DEFINE m == Min({c, Len(l)})
            s == SubSeq(l, Len(a) + 1, m)
<1>1. m \in Nat /\ m <= Len(l) /\ Len(a) + 1 \in Nat /\ Len(a) + 1 >= 1
  BY MinOfTwo
<1>. HIDE DEF m
<1>2. s \in Seq(EntryType)
  BY <1>1, SubSeqType
<1>3. Commands(s) \in Seq(Command)
  BY <1>2, CommandsType, EntryHasFields
<1>4. ApplyCommitted(a, l, c) = a \o Commands(s)
  BY DEF ApplyCommitted, m
<1>. HIDE DEF s
<1>. QED  BY <1>3, <1>4

LEMMA AdvancedCommitType ==
  ASSUME NEW n, NEW l \in Seq(EntryType), NEW match, NEW t, NEW c \in Nat
  PROVE  AdvancedCommit(n, l, match, t, c) \in Nat
<1>. DEFINE S == Committable(n, l, match, t, c)
<1>1. S \in SUBSET Nat /\ Len(l) \in Nat /\ \A x \in S : x <= Len(l)
  BY DEF Committable
<1>2. S # {} => Max(S) \in Nat
  BY <1>1, MaxNat
<1>. QED  BY <1>2 DEF AdvancedCommit

LEMMA MetaWrittenType ==
  ASSUME NEW d \in DiskType, NEW t \in Nat, NEW v \in Server \cup {Nil}, NEW c \in Nat
  PROVE  MetaWritten(d, t, v, c) \in DiskType
  BY DEF MetaWritten, DiskType

LEMMA LogWrittenType ==
  ASSUME NEW d \in DiskType, NEW l \in Seq(EntryType)
  PROVE  LogWritten(d, l) \in DiskType
  BY DEF LogWritten, DiskType

LEMMA CommitWrittenType ==
  ASSUME NEW d \in DiskType, NEW c \in Nat
  PROVE  CommitWritten(d, c) \in DiskType
  BY DEF CommitWritten, DiskType

LEMMA StepDownType ==
  ASSUME TypeOK, NEW n \in Server, NEW t \in Nat, StepDown(n, t)
  PROVE  /\ role' \in [Server -> Role]
         /\ currentTerm' \in [Server -> Nat]
         /\ votedFor' \in [Server -> Server \cup {Nil}]
         /\ leaderId' \in [Server -> Server \cup {Nil}]
         /\ disk' \in [Server -> DiskType]
<1>1. MetaWritten(disk[n], t, Nil, commitIndex[n]) \in DiskType
  BY MetaWrittenType DEF TypeOK
<1>. QED  BY <1>1 DEF StepDown, TypeOK, Role

LEMMA CommitAsLeaderType ==
  ASSUME TypeOK, NEW n \in Server, NEW l \in Seq(EntryType), NEW match, NEW t,
         NEW d \in DiskType, CommitAsLeader(n, l, match, t, d)
  PROVE  /\ log' \in [Server -> Seq(EntryType)]
         /\ commitIndex' \in [Server -> Nat]
         /\ applied' \in [Server -> Seq(Command)]
         /\ disk' \in [Server -> DiskType]
<1>. DEFINE c == AdvancedCommit(n, l, match, t, commitIndex[n])
<1>1. c \in Nat
  BY AdvancedCommitType DEF TypeOK
<1>2. CommitWritten(LogWritten(d, l), c) \in DiskType
  BY <1>1, LogWrittenType, CommitWrittenType
<1>3. ApplyCommitted(applied[n], l, c) \in Seq(Command)
  BY <1>1, ApplyCommittedType DEF TypeOK
<1>. HIDE DEF c
<1>. QED  BY <1>1, <1>2, <1>3 DEF CommitAsLeader, TypeOK, c

LEMMA NewEntryType ==
  ASSUME NEW l \in Seq(EntryType), NEW t \in Nat, NEW v \in Command
  PROVE  Append(l, Entry(t, LastIndex(l) + 1, v)) \in Seq(EntryType)
<1>1. LastIndex(l) \in Nat
  BY EntryFields, EntryHasFields
<1>2. Entry(t, LastIndex(l) + 1, v) \in EntryType
  BY <1>1 DEF Entry, EntryType
<1>. QED  BY <1>2

LEMMA ExtendedType ==
  ASSUME TypeOK, NEW n \in Server, NEW t \in Nat, NEW v \in Command
  PROVE  Extended(n, t, v) \in Seq(EntryType) /\ LastIndex(Extended(n, t, v)) \in Nat
<1>1. Extended(n, t, v) \in Seq(EntryType)
  BY NewEntryType DEF TypeOK, Extended
<1>. QED  BY <1>1, EntryFields, EntryHasFields

\* What is recorded of leaders has its type.
LEMMA LeaderWritesType ==
  ASSUME TypeOK, NEW n \in Server, NEW t \in Nat, NEW l \in Seq(EntryType),
         LeaderWrites(n, t, l)
  PROVE  /\ DOMAIN termLog' \subseteq Nat /\ termLog' \in [DOMAIN termLog' -> Seq(EntryType)]
         /\ acks' \subseteq [node : Server, term : Nat, index : Nat]
<1>1. DOMAIN termLog \subseteq Nat /\ termLog \in [DOMAIN termLog -> Seq(EntryType)]
  BY DEF TypeOK
<1>2. termLog' = [u \in DOMAIN termLog \cup {t} |-> IF u = t THEN l ELSE termLog[u]]
  BY DEF LeaderWrites
<1>3. Holding(n, t, Len(l)) \subseteq [node : Server, term : Nat, index : Nat]
  BY DEF Holding
<1>. QED  BY <1>1, <1>2, <1>3 DEF LeaderWrites, TypeOK

LEMMA ReignsType ==
  ASSUME TypeOK, NEW n \in Server, NEW t \in Nat, Reigns(n, t)
  PROVE  /\ elected' \subseteq [term : Nat, leader : Server]
         /\ DOMAIN termLog' \subseteq Nat /\ termLog' \in [DOMAIN termLog' -> Seq(EntryType)]
         /\ acks' \subseteq [node : Server, term : Nat, index : Nat]
<1>1. Extended(n, t, NoOp) \in Seq(EntryType)
  BY ExtendedType DEF Command
<1>2. elected' \subseteq [term : Nat, leader : Server]
  BY DEF Reigns, TypeOK
<1>. QED  BY <1>1, <1>2, LeaderWritesType DEF Reigns

LEMMA BecomeLeaderType ==
  ASSUME TypeOK, NEW n \in Server, NEW t \in Nat, NEW d \in DiskType, BecomeLeader(n, t, d)
  PROVE  /\ role' \in [Server -> Role]
         /\ leaderId' \in [Server -> Server \cup {Nil}]
         /\ nextIndex' \in [Server -> [Server -> Nat]]
         /\ matchIndex' \in [Server -> [Server -> Nat]]
         /\ log' \in [Server -> Seq(EntryType)]
         /\ commitIndex' \in [Server -> Nat]
         /\ applied' \in [Server -> Seq(Command)]
         /\ disk' \in [Server -> DiskType]
         /\ elected' \subseteq [term : Nat, leader : Server]
         /\ DOMAIN termLog' \subseteq Nat /\ termLog' \in [DOMAIN termLog' -> Seq(EntryType)]
         /\ acks' \subseteq [node : Server, term : Nat, index : Nat]
<1>. DEFINE l == Extended(n, t, NoOp)
            match == [p \in Server |-> 0]
<1>1. l \in Seq(EntryType) /\ LastIndex(l) \in Nat
  BY ExtendedType DEF Command
<1>2. Reigns(n, t)
  BY DEF BecomeLeader
<1>3. CommitAsLeader(n, l, match, t, d)
  BY DEF BecomeLeader
<1>. HIDE DEF l, match
<1>4. /\ log' \in [Server -> Seq(EntryType)]
      /\ commitIndex' \in [Server -> Nat]
      /\ applied' \in [Server -> Seq(Command)]
      /\ disk' \in [Server -> DiskType]
  BY <1>1, <1>3, CommitAsLeaderType
<1>5. match \in [Server -> Nat]
  BY DEF match
<1>6. matchIndex' = [matchIndex EXCEPT ![n] = match]
  BY DEF BecomeLeader, match
<1>7. nextIndex' = [nextIndex EXCEPT ![n] = [p \in Server |-> LastIndex(l) + 1]]
  BY DEF BecomeLeader, l
<1>8. /\ nextIndex' \in [Server -> [Server -> Nat]]
      /\ matchIndex' \in [Server -> [Server -> Nat]]
  <2>1. [p \in Server |-> LastIndex(l) + 1] \in [Server -> Nat]
    BY <1>1
  <2>2. nextIndex \in [Server -> [Server -> Nat]] /\ matchIndex \in [Server -> [Server -> Nat]]
    BY DEF TypeOK
  <2>. QED  BY <1>5, <1>6, <1>7, <2>1, <2>2
<1>9. role' \in [Server -> Role] /\ leaderId' \in [Server -> Server \cup {Nil}]
  BY DEF BecomeLeader, TypeOK, Role
<1>. QED  BY <1>2, <1>4, <1>8, <1>9, ReignsType
\* The messages have their types.
LEMMA VoteMessageTypes ==
  ASSUME TypeOK
  PROVE  /\ \A n, p \in Server : VoteRequest(n, p) \in VoteReqType
         /\ \A r \in voteReqs, t \in Nat, b \in BOOLEAN :
              VoteReplies(r, t, b) \subseteq VoteRepType
<1>1. \A n \in Server : LastIndex(log[n]) \in Nat /\ LastTerm(log[n]) \in Nat
  BY EntryFields, EntryHasFields DEF TypeOK
<1>2. \A n, p \in Server : VoteRequest(n, p) \in VoteReqType
  BY <1>1 DEF VoteRequest, VoteReqType, TypeOK
<1>3. \A r \in voteReqs, t \in Nat, b \in BOOLEAN : VoteReplies(r, t, b) \subseteq VoteRepType
  <2>1. \A r \in voteReqs : r.from \in Server /\ r.to \in Server /\ r.term \in Nat
    BY DEF TypeOK, VoteReqType
  <2>. QED  BY <2>1 DEF VoteReplies, VoteRepType
<1>. QED  BY <1>2, <1>3

LEMMA AppendRequestType ==
  ASSUME TypeOK, NEW n \in Server, NEW p \in Server
  PROVE  AppendRequest(n, p) \in AppendReqType
<1>. DEFINE next == Max({nextIndex[n][p], 1})
<1>1. next \in Nat /\ next >= 1
  <2>1. nextIndex[n][p] \in Nat
    BY DEF TypeOK
  <2>. QED  BY <2>1, MaxOfTwo
<1>. HIDE DEF next
<1>2. PrevOf(next) \in Nat
  BY <1>1 DEF PrevOf
<1>3. log[n] \in Seq(EntryType) /\ Len(log[n]) \in Nat
  BY DEF TypeOK
<1>4. EntriesFrom(log[n], next) \in Seq(EntryType)
  BY <1>1, <1>3, SubSeqType DEF EntriesFrom
<1>5. TermAt(log[n], PrevOf(next)) \in Nat
  BY <1>3, EntryFields, EntryHasFields
<1>. QED  BY <1>2, <1>4, <1>5 DEF AppendRequest, AppendReqType, TypeOK, next

LEMMA AppendRepliesType ==
  ASSUME TypeOK
  PROVE  \A r \in appendReqs, t \in Nat, b \in BOOLEAN :
           AppendReplies(r, t, b) \subseteq AppendRepType
<1>1. \A r \in appendReqs : r \in AppendReqType /\ Len(r.entries) \in Nat
  BY DEF TypeOK, AppendReqType
<1>. QED  BY <1>1 DEF AppendReplies, AppendReqType, AppendRepType

LEMMA DisownTypes ==
  ASSUME NEW n
  PROVE  /\ \A R \in SUBSET VoteReqType : Disown(R, n) \subseteq VoteReqType
         /\ \A R \in SUBSET AppendReqType : Disown(R, n) \subseteq AppendReqType
  BY DEF Disown, VoteReqType, AppendReqType

\* recover() from well-formed files.
LEMMA RecoverType ==
  ASSUME TypeOK, NEW n \in Server, NEW d \in DiskType, Recover(n, d)
  PROVE  /\ role' \in [Server -> Role]
         /\ currentTerm' \in [Server -> Nat]
         /\ votedFor' \in [Server -> Server \cup {Nil}]
         /\ leaderId' \in [Server -> Server \cup {Nil}]
         /\ votesReceived' \in [Server -> Nat]
         /\ campaigning' \in [Server -> BOOLEAN]
         /\ log' \in [Server -> Seq(EntryType)]
         /\ commitIndex' \in [Server -> Nat]
         /\ applied' \in [Server -> Seq(Command)]
         /\ nextIndex' \in [Server -> [Server -> Nat]]
         /\ matchIndex' \in [Server -> [Server -> Nat]]
         /\ disk' \in [Server -> DiskType]
         /\ voteReps' \subseteq VoteRepType /\ appendReps' \subseteq AppendRepType
         /\ waiting' \subseteq ProposalType /\ acked' \subseteq AnswerType
         /\ crashes' \in Nat
<1>. DEFINE c == Min({d.commitIndex, Len(d.log)})
<1>1. d.log \in Seq(EntryType) /\ d.commitIndex \in Nat
  BY DEF DiskType
<1>2. c \in Nat /\ c <= Len(d.log)
  BY <1>1, MinOfTwo
<1>. HIDE DEF c
<1>3. Replay(d.log, c) \in Seq(Command)
  <2>1. SubSeq(d.log, 1, c) \in Seq(EntryType)
    BY <1>1, <1>2, SubSeqType
  <2>. QED  BY <2>1, CommandsType, EntryHasFields DEF Replay
<1>4. [d EXCEPT !.commitIndex = c] \in DiskType
  BY <1>2 DEF DiskType
<1>5. applied' = [applied EXCEPT ![n] = Replay(d.log, c)]
  BY DEF Recover, c
<1>6. commitIndex' = [commitIndex EXCEPT ![n] = c]
  BY DEF Recover, c
<1>7. disk' = [disk EXCEPT ![n] = [d EXCEPT !.commitIndex = c]]
  BY DEF Recover, c
<1>8. /\ commitIndex' \in [Server -> Nat]
      /\ applied' \in [Server -> Seq(Command)]
      /\ disk' \in [Server -> DiskType]
  BY <1>2, <1>3, <1>4, <1>5, <1>6, <1>7 DEF TypeOK
<1>9. /\ role' \in [Server -> Role]
      /\ currentTerm' \in [Server -> Nat]
      /\ votedFor' \in [Server -> Server \cup {Nil}]
      /\ leaderId' \in [Server -> Server \cup {Nil}]
      /\ votesReceived' \in [Server -> Nat]
      /\ campaigning' \in [Server -> BOOLEAN]
  BY DEF Recover, TypeOK, DiskType, Role
<1>10. log' \in [Server -> Seq(EntryType)]
  BY <1>1 DEF Recover, TypeOK
<1>11. nextIndex' \in [Server -> [Server -> Nat]] /\ matchIndex' \in [Server -> [Server -> Nat]]
  <2>1. [p \in Server |-> 0] \in [Server -> Nat]
    OBVIOUS
  <2>2. nextIndex \in [Server -> [Server -> Nat]] /\ matchIndex \in [Server -> [Server -> Nat]]
    BY DEF TypeOK
  <2>3. /\ nextIndex' = [nextIndex EXCEPT ![n] = [p \in Server |-> 0]]
        /\ matchIndex' = [matchIndex EXCEPT ![n] = [p \in Server |-> 0]]
    BY DEF Recover
  <2>. QED  BY <2>1, <2>2, <2>3
<1>12. /\ voteReps' \subseteq VoteRepType /\ appendReps' \subseteq AppendRepType
       /\ waiting' \subseteq ProposalType /\ acked' \subseteq AnswerType
       /\ crashes' \in Nat
  <2>1. /\ voteReps' \subseteq voteReps /\ appendReps' \subseteq appendReps
        /\ waiting' \subseteq waiting /\ acked' = acked
        /\ crashes' = crashes + 1
    BY DEF Recover
  <2>. QED  BY <2>1 DEF TypeOK
<1>. QED  BY <1>8, <1>9, <1>10, <1>11, <1>12
LEMMA TypeInit == Init => TypeOK
  BY DEF Init, TypeOK, Role, DiskType

LEMMA TimedOutDiskType ==
  ASSUME TypeOK, NEW n \in Server
  PROVE  MetaWritten(disk[n], currentTerm[n] + 1, n, commitIndex[n]) \in DiskType
<1>1. disk[n] \in DiskType /\ currentTerm[n] + 1 \in Nat /\ commitIndex[n] \in Nat
  BY DEF TypeOK
<1>. QED  BY <1>1, MetaWrittenType

LEMMA TimesOutType ==
  ASSUME TypeOK, NEW n \in Server, TimesOut(n)
  PROVE  /\ elections' \in Nat
         /\ currentTerm' \in [Server -> Nat]
         /\ votedFor' \in [Server -> Server \cup {Nil}]
         /\ votesReceived' \in [Server -> Nat]
         /\ ballots' \subseteq [voter : Server, term : Nat, candidate : Server]
  BY DEF TimesOut, TypeOK

\* The log and the commit index an AppendEntries request leaves behind.
LEMMA AcceptedType ==
  ASSUME TypeOK, NEW r \in appendReqs
  PROVE  /\ Reconcile(log[r.to], r.entries) \in Seq(EntryType)
         /\ FollowerCommit(r, Reconcile(log[r.to], r.entries), commitIndex[r.to]) \in Nat
<1>. DEFINE l == Reconcile(log[r.to], r.entries)
            S == {r.leaderCommit, r.prevLogIndex + Len(r.entries), LastIndex(l)}
<1>1. /\ r.to \in Server /\ r.entries \in Seq(EntryType)
      /\ r.leaderCommit \in Nat /\ r.prevLogIndex \in Nat
  BY DEF TypeOK, AppendReqType
<1>2. l \in Seq(EntryType)
  BY <1>1, ReconcileType, EntryHasFields DEF TypeOK
<1>3. S \in SUBSET Nat /\ S # {}
  BY <1>1, <1>2, EntryFields, EntryHasFields
<1>4. Min(S) \in Nat
  BY <1>3, MinNat
<1>. HIDE DEF l
<1>. QED  BY <1>1, <1>2, <1>4, MaxOfTwo DEF FollowerCommit, TypeOK, l

LEMMA TypeElection ==
  ASSUME TypeOK, Election
  PROVE  TypeOK'
<1>. USE DEF nodeVars, electVars, logVars, leaderVars, voteMsgs, appendMsgs, clientVars,
             counters, history, leaderHist
<1>1. ASSUME NEW n \in Server, ElectionTimeout(n) PROVE TypeOK'
  <2>1. MetaWritten(disk[n], currentTerm[n] + 1, n, commitIndex[n]) \in DiskType
    BY TimedOutDiskType
  <2>2. /\ role' = [role EXCEPT ![n] = "CANDIDATE"]
        /\ leaderId' = [leaderId EXCEPT ![n] = Nil]
        /\ campaigning' = [campaigning EXCEPT ![n] = TRUE]
        /\ disk' = [disk EXCEPT ![n] = MetaWritten(@, currentTerm[n] + 1, n, commitIndex[n])]
        /\ UNCHANGED <<logVars, leaderVars, voteMsgs, appendMsgs, clientVars, crashes, leaderHist>>
    BY <1>1 DEF ElectionTimeout
  <2>3. /\ role' \in [Server -> Role]
        /\ leaderId' \in [Server -> Server \cup {Nil}]
        /\ campaigning' \in [Server -> BOOLEAN]
        /\ disk' \in [Server -> DiskType]
    BY <2>1, <2>2 DEF TypeOK, Role
  <2>. QED  BY <1>1, <2>2, <2>3, TimesOutType DEF ElectionTimeout, TypeOK
<1>2. ASSUME NEW n \in Server, ElectSelf(n) PROVE TypeOK'
  <2>. DEFINE d == MetaWritten(disk[n], currentTerm[n] + 1, n, commitIndex[n])
  <2>1. d \in DiskType
    BY TimedOutDiskType
  <2>2. BecomeLeader(n, currentTerm[n] + 1, d)
    BY <1>2 DEF ElectSelf
  <2>. HIDE DEF d
  <2>3. currentTerm[n] + 1 \in Nat
    BY DEF TypeOK
  <2>4. UNCHANGED <<campaigning, voteMsgs, appendMsgs, clientVars, crashes>>
    BY <1>2 DEF ElectSelf
  <2>. QED  BY <1>2, <2>1, <2>2, <2>3, <2>4, BecomeLeaderType, TimesOutType DEF ElectSelf, TypeOK
<1>3. ASSUME NEW n \in Server, BroadcastRequestVote(n) PROVE TypeOK'
  <2>1. {VoteRequest(n, p) : p \in Peers(n)} \subseteq VoteReqType
    BY VoteMessageTypes DEF Peers
  <2>. QED  BY <1>3, <2>1 DEF BroadcastRequestVote, TypeOK
<1>4. ASSUME NEW r \in voteReqs, RejectStaleVoteRequest(r) PROVE TypeOK'
  <2>1. currentTerm[r.to] \in Nat
    BY DEF TypeOK, VoteReqType
  <2>2. VoteReplies(r, currentTerm[r.to], FALSE) \subseteq VoteRepType
    BY <2>1, VoteMessageTypes
  <2>. QED  BY <1>4, <2>2 DEF RejectStaleVoteRequest, TypeOK
<1>5. ASSUME NEW r \in voteReqs, HandleRequestVote(r) PROVE TypeOK'
  <2>. DEFINE v == r.to
              vote == IF Grants(r) THEN r.from ELSE VoteInTerm(v, r.term)
  <2>1. r.from \in Server /\ v \in Server /\ r.term \in Nat
    BY DEF TypeOK, VoteReqType
  <2>2. vote \in Server \cup {Nil}
    BY <2>1 DEF VoteInTerm, TypeOK
  <2>3. Grants(r) \in BOOLEAN
    BY DEF Grants, CanVote, LogUpToDate
  <2>4. VoteReplies(r, r.term, Grants(r)) \subseteq VoteRepType
    BY <2>1, <2>3, VoteMessageTypes
  <2>. HIDE DEF vote
  <2>5. MetaWritten(disk[v], r.term, vote, commitIndex[v]) \in DiskType
    BY <2>1, <2>2, MetaWrittenType DEF TypeOK
  <2>6. /\ votedFor' = [votedFor EXCEPT ![v] = vote]
        /\ disk' = [disk EXCEPT ![v] = MetaWritten(@, r.term, vote, commitIndex[v])]
        /\ voteReqs' \subseteq voteReqs
        /\ voteReps' = voteReps \cup VoteReplies(r, r.term, Grants(r))
    BY <1>5 DEF HandleRequestVote, vote
  <2>7. /\ ballots' \subseteq [voter : Server, term : Nat, candidate : Server]
        /\ role' \in [Server -> Role] /\ currentTerm' \in [Server -> Nat]
        /\ leaderId' \in [Server -> Server \cup {Nil}]
    <3>1. AdoptTerm(v, r.term)
      BY <1>5 DEF HandleRequestVote
    <3>2. /\ role' \in [Server -> Role] /\ currentTerm' \in [Server -> Nat]
          /\ leaderId' \in [Server -> Server \cup {Nil}]
      BY <2>1, <3>1 DEF AdoptTerm, TypeOK, Role
    <3>3. ballots' \subseteq
            ballots \cup {[voter |-> v, term |-> r.term, candidate |-> r.from]}
      BY <1>5 DEF HandleRequestVote
    <3>4. ballots \subseteq [voter : Server, term : Nat, candidate : Server]
      BY DEF TypeOK
    <3>. QED  BY <2>1, <3>2, <3>3, <3>4
  <2>8. UNCHANGED <<electVars, logVars, leaderVars, appendMsgs, clientVars, counters, leaderHist>>
    BY <1>5 DEF HandleRequestVote
  <2>. QED  BY <2>1, <2>2, <2>4, <2>5, <2>6, <2>7, <2>8 DEF TypeOK
<1>6. ASSUME NEW m \in voteReps, VoteReplyHigherTerm(m) PROVE TypeOK'
  <2>1. m.to \in Server /\ m.term \in Nat
    BY DEF TypeOK, VoteRepType
  <2>. QED  BY <1>6, <2>1, StepDownType DEF VoteReplyHigherTerm, ReceiveVote, TypeOK
<1>7. ASSUME NEW m \in voteReps, VoteReplyIgnored(m) PROVE TypeOK'
  BY <1>7 DEF VoteReplyIgnored, ReceiveVote, TypeOK
<1>8. ASSUME NEW m \in voteReps, VoteReplyCounted(m) PROVE TypeOK'
  <2>1. m.to \in Server
    BY DEF TypeOK, VoteRepType
  <2>2. votesReceived' \in [Server -> Nat] /\ voteReps' \subseteq VoteRepType
    BY <1>8, <2>1 DEF VoteReplyCounted, Counts, ReceiveVote, TypeOK
  <2>3. UNCHANGED <<nodeVars, campaigning, logVars, leaderVars, disk, voteReqs, appendMsgs,
                    clientVars, counters, history>>
    BY <1>8 DEF VoteReplyCounted
  <2>. QED  BY <2>2, <2>3 DEF TypeOK
<1>9. ASSUME NEW m \in voteReps, VoteReplyWins(m) PROVE TypeOK'
  <2>1. m.to \in Server
    BY DEF TypeOK, VoteRepType
  <2>2. /\ currentTerm[m.to] \in Nat /\ disk[m.to] \in DiskType
        /\ BecomeLeader(m.to, currentTerm[m.to], disk[m.to])
    BY <1>9, <2>1 DEF VoteReplyWins, TypeOK
  <2>3. votesReceived' \in [Server -> Nat] /\ voteReps' \subseteq VoteRepType
    BY <1>9, <2>1 DEF VoteReplyWins, Counts, ReceiveVote, TypeOK
  <2>4. UNCHANGED <<currentTerm, votedFor, campaigning, voteReqs, appendMsgs, clientVars,
                    counters, ballots>>
    BY <1>9 DEF VoteReplyWins
  <2>. QED  BY <2>1, <2>2, <2>3, <2>4, BecomeLeaderType DEF TypeOK
<1>. QED  BY <1>1, <1>2, <1>3, <1>4, <1>5, <1>6, <1>7, <1>8, <1>9 DEF Election
LEMMA TypeReplication ==
  ASSUME TypeOK, Replication
  PROVE  TypeOK'
<1>. USE DEF nodeVars, electVars, logVars, leaderVars, voteMsgs, appendMsgs, clientVars,
             counters, history, leaderHist
<1>1. ASSUME NEW n \in Server, NEW p \in Peers(n), SendAppendEntries(n, p) PROVE TypeOK'
  <2>1. AppendRequest(n, p) \in AppendReqType
    BY AppendRequestType DEF Peers
  <2>. QED  BY <1>1, <2>1 DEF SendAppendEntries, TypeOK
<1>2. ASSUME NEW r \in appendReqs, RpcFails(r) PROVE TypeOK'
  <2>1. [r EXCEPT !.live = FALSE] \in AppendReqType
    BY DEF TypeOK, AppendReqType
  <2>. QED  BY <1>2, <2>1 DEF RpcFails, TypeOK
<1>3. ASSUME NEW r \in appendReqs, RejectStaleAppend(r) PROVE TypeOK'
  <2>1. currentTerm[r.to] \in Nat
    BY DEF TypeOK, AppendReqType
  <2>2. AppendReplies(r, currentTerm[r.to], FALSE) \subseteq AppendRepType
    BY <2>1, AppendRepliesType
  <2>. QED  BY <1>3, <2>2 DEF RejectStaleAppend, TypeOK
<1>4. ASSUME NEW r \in appendReqs,
             Recognise(r.to, r.term, r.from)
      PROVE  /\ role' \in [Server -> Role]
             /\ currentTerm' \in [Server -> Nat]
             /\ votedFor' \in [Server -> Server \cup {Nil}]
             /\ leaderId' \in [Server -> Server \cup {Nil}]
  <2>1. r.from \in Server /\ r.to \in Server /\ r.term \in Nat
    BY DEF TypeOK, AppendReqType
  <2>. QED  BY <1>4, <2>1 DEF Recognise, VoteInTerm, TypeOK, Role
<1>5. ASSUME NEW r \in appendReqs PROVE TermWritten(r.to, r.term) \in DiskType
  <2>1. r.to \in Server /\ r.term \in Nat
    BY DEF TypeOK, AppendReqType
  <2>. QED  BY <2>1, MetaWrittenType DEF TermWritten, TypeOK
<1>6. ASSUME NEW r \in appendReqs, RejectMismatch(r) PROVE TypeOK'
  <2>1. r.to \in Server /\ r.term \in Nat
    BY DEF TypeOK, AppendReqType
  <2>2. AppendReplies(r, r.term, FALSE) \subseteq AppendRepType
    BY <2>1, AppendRepliesType
  <2>3. disk' \in [Server -> DiskType]
    BY <1>5, <1>6, <2>1 DEF RejectMismatch, TypeOK
  <2>. QED  BY <1>4, <1>6, <2>2, <2>3 DEF RejectMismatch, TypeOK
<1>7. ASSUME NEW r \in appendReqs, AcceptAppend(r) PROVE TypeOK'
  <2>. DEFINE v == r.to
              l == Reconcile(log[v], r.entries)
              c == FollowerCommit(r, l, commitIndex[v])
  <2>1. /\ v \in Server /\ r.term \in Nat /\ r.entries \in Seq(EntryType)
        /\ r.leaderCommit \in Nat /\ r.prevLogIndex \in Nat
    BY DEF TypeOK, AppendReqType
  <2>2. l \in Seq(EntryType)
    BY AcceptedType
  <2>3. c \in Nat
    BY AcceptedType
  <2>. HIDE DEF l, c
  <2>4. CommitWritten(LogWritten(TermWritten(v, r.term), l), c) \in DiskType
    BY <1>5, <2>2, <2>3, LogWrittenType, CommitWrittenType
  <2>5. ApplyCommitted(applied[v], l, c) \in Seq(Command)
    BY <2>1, <2>2, <2>3, ApplyCommittedType DEF TypeOK
  <2>6. AppendReplies(r, r.term, TRUE) \subseteq AppendRepType
    BY <2>1, AppendRepliesType
  <2>7. /\ Recognise(v, r.term, r.from)
        /\ log' = [log EXCEPT ![v] = l]
        /\ commitIndex' = [commitIndex EXCEPT ![v] = c]
        /\ applied' = [applied EXCEPT ![v] = ApplyCommitted(@, l, c)]
        /\ disk' = [disk EXCEPT ![v] = CommitWritten(LogWritten(TermWritten(v, r.term), l), c)]
        /\ appendReqs' \subseteq appendReqs
        /\ appendReps' = appendReps \cup AppendReplies(r, r.term, TRUE)
        /\ acks' = acks \cup Holding(v, r.term, r.prevLogIndex + Len(r.entries))
        /\ UNCHANGED <<electVars, leaderVars, voteMsgs, clientVars, counters, ballots,
                       elected, termLog>>
    BY <1>7 DEF AcceptAppend, l, c
  <2>8. /\ log' \in [Server -> Seq(EntryType)]
        /\ commitIndex' \in [Server -> Nat]
        /\ applied' \in [Server -> Seq(Command)]
        /\ disk' \in [Server -> DiskType]
    BY <2>2, <2>3, <2>4, <2>5, <2>7 DEF TypeOK
  <2>9. /\ role' \in [Server -> Role]
        /\ currentTerm' \in [Server -> Nat]
        /\ votedFor' \in [Server -> Server \cup {Nil}]
        /\ leaderId' \in [Server -> Server \cup {Nil}]
    BY <1>4, <2>7
  <2>10. acks' \subseteq [node : Server, term : Nat, index : Nat]
    <3>1. r.prevLogIndex + Len(r.entries) \in Nat
      BY <2>1
    <3>2. Holding(v, r.term, r.prevLogIndex + Len(r.entries)) \subseteq
            [node : Server, term : Nat, index : Nat]
      BY <2>1, <3>1 DEF Holding
    <3>. QED  BY <2>7, <3>2 DEF TypeOK
  <2>. QED  BY <2>6, <2>7, <2>8, <2>9, <2>10 DEF TypeOK
<1>8. ASSUME NEW m \in appendReps, LoseAppendReply(m) PROVE TypeOK'
  BY <1>8 DEF LoseAppendReply, TypeOK
<1>9. ASSUME NEW m \in appendReps
      PROVE  m.from \in Server /\ m.to \in Server /\ m.term \in Nat
             /\ m.prevIndex \in Nat /\ m.count \in Nat
  BY DEF TypeOK, AppendRepType
<1>10. ASSUME NEW m \in appendReps, AppendReplyHigherTerm(m) PROVE TypeOK'
  BY <1>9, <1>10, StepDownType DEF AppendReplyHigherTerm, ReceiveAck, TypeOK
<1>11. ASSUME NEW m \in appendReps, AppendReplyIgnored(m) PROVE TypeOK'
  BY <1>11 DEF AppendReplyIgnored, ReceiveAck, TypeOK
<1>12. ASSUME NEW m \in appendReps, AppendReplySuccess(m) PROVE TypeOK'
  <2>. DEFINE n == m.to
              match == [matchIndex[n] EXCEPT ![m.from] = NewMatch(m)]
  <2>1. NewMatch(m) \in Nat
    <3>1. m.prevIndex + m.count \in Nat /\ matchIndex[n][m.from] \in Nat
      <4>1. /\ m.from \in Server /\ m.to \in Server
            /\ m.prevIndex \in Nat /\ m.count \in Nat
        BY <1>9
      <4>2. matchIndex \in [Server -> [Server -> Nat]]
        BY DEF TypeOK
      <4>. QED  BY <4>1, <4>2
    <3>. QED  BY <3>1, MaxOfTwo DEF NewMatch
  <2>2. NextAfter(NewMatch(m)) \in Nat
    BY <2>1 DEF NextAfter
  <2>3. match \in [Server -> Nat] /\ nextIndex[n] \in [Server -> Nat]
    BY <1>9, <2>1 DEF TypeOK
  <2>4. /\ matchIndex' = [matchIndex EXCEPT ![n] = match]
        /\ nextIndex' = [nextIndex EXCEPT ![n][m.from] = NextAfter(NewMatch(m))]
        /\ CommitAsLeader(n, log[n], match, currentTerm[n], disk[n])
        /\ appendReps' \subseteq appendReps
        /\ UNCHANGED <<nodeVars, electVars, voteMsgs, appendReqs, clientVars, counters, history>>
    BY <1>12 DEF AppendReplySuccess, ReceiveAck
  <2>. HIDE DEF match
  <2>5. matchIndex' \in [Server -> [Server -> Nat]] /\ nextIndex' \in [Server -> [Server -> Nat]]
    BY <1>9, <2>2, <2>3, <2>4 DEF TypeOK
  <2>6. log[n] \in Seq(EntryType) /\ disk[n] \in DiskType
    BY <1>9 DEF TypeOK
  <2>7. /\ log' \in [Server -> Seq(EntryType)]
        /\ commitIndex' \in [Server -> Nat]
        /\ applied' \in [Server -> Seq(Command)]
        /\ disk' \in [Server -> DiskType]
    BY <1>9, <2>4, <2>6, CommitAsLeaderType
  <2>. QED  BY <2>4, <2>5, <2>7 DEF TypeOK
<1>13. ASSUME NEW m \in appendReps, AppendReplyFailure(m) PROVE TypeOK'
  <2>1. \A i \in Nat : BackedUp(i) \in Nat
    BY DEF BackedUp
  <2>2. nextIndex' = [nextIndex EXCEPT ![m.to][m.from] = BackedUp(@)]
    BY <1>13 DEF AppendReplyFailure
  <2>3. nextIndex \in [Server -> [Server -> Nat]]
    BY DEF TypeOK
  <2>4. BackedUp(nextIndex[m.to][m.from]) \in Nat
    BY <1>9, <2>1, <2>3
  <2>5. nextIndex' \in [Server -> [Server -> Nat]]
    BY <1>9, <2>2, <2>3, <2>4
  <2>. QED  BY <1>13, <2>5 DEF AppendReplyFailure, ReceiveAck, TypeOK
<1>. QED  BY <1>1, <1>2, <1>3, <1>6, <1>7, <1>8, <1>10, <1>11, <1>12, <1>13 DEF Replication

LEMMA TypeClient ==
  ASSUME TypeOK, Client
  PROVE  TypeOK'
<1>. USE DEF nodeVars, electVars, logVars, leaderVars, voteMsgs, appendMsgs, clientVars,
             counters, history, leaderHist
<1>1. ASSUME NEW n \in Server, NEW v \in Value, Propose(n, v) PROVE TypeOK'
  <2>. DEFINE l == Extended(n, currentTerm[n], v)
              w == [node |-> n, index |-> LastIndex(l), term |-> currentTerm[n], cmd |-> v]
  <2>1. /\ log[n] \in Seq(EntryType) /\ currentTerm[n] \in Nat /\ disk[n] \in DiskType
        /\ v \in Command
    BY DEF TypeOK, Command
  <2>2. l \in Seq(EntryType)
    BY <2>1, ExtendedType
  <2>3. LastIndex(l) \in Nat
    BY <2>1, ExtendedType
  <2>4. w \in ProposalType
    BY <2>1, <2>3 DEF ProposalType
  <2>5. /\ CommitAsLeader(n, l, matchIndex[n], currentTerm[n], disk[n])
        /\ LeaderWrites(n, currentTerm[n], l)
        /\ waiting' = waiting \cup {w}
        /\ UNCHANGED <<nodeVars, electVars, leaderVars, voteMsgs, appendMsgs, acked,
                       counters, ballots, elected>>
    BY <1>1 DEF Propose
  <2>. HIDE DEF l, w
  <2>6. /\ log' \in [Server -> Seq(EntryType)]
        /\ commitIndex' \in [Server -> Nat]
        /\ applied' \in [Server -> Seq(Command)]
        /\ disk' \in [Server -> DiskType]
    BY <2>1, <2>2, <2>5, CommitAsLeaderType
  <2>7. /\ DOMAIN termLog' \subseteq Nat /\ termLog' \in [DOMAIN termLog' -> Seq(EntryType)]
        /\ acks' \subseteq [node : Server, term : Nat, index : Nat]
    BY <2>1, <2>2, <2>5, LeaderWritesType
  <2>. QED  BY <2>4, <2>5, <2>6, <2>7 DEF TypeOK
<1>2. ASSUME NEW w \in waiting, ProposalOk(w) PROVE TypeOK'
  <2>1. Answer(w) \in AnswerType
    BY DEF Answer, AnswerType, ProposalType, TypeOK
  <2>. QED  BY <1>2, <2>1 DEF ProposalOk, TypeOK
<1>3. ASSUME NEW w \in waiting, ProposalFails(w) PROVE TypeOK'
  BY <1>3 DEF ProposalFails, TypeOK
<1>. QED  BY <1>1, <1>2, <1>3 DEF Client
LEMMA TypeFailure ==
  ASSUME TypeOK, Failure
  PROVE  TypeOK'
<1>. USE DEF voteMsgs, appendMsgs, clientVars, counters, history, leaderHist
<1>1. ASSUME NEW n \in Server, NEW d \in DiskType, Recover(n, d), elections' \in Nat,
             voteReqs' \subseteq VoteReqType, appendReqs' \subseteq AppendReqType,
             ballots' \subseteq [voter : Server, term : Nat, candidate : Server],
             elected' \subseteq [term : Nat, leader : Server],
             DOMAIN termLog' \subseteq Nat, termLog' \in [DOMAIN termLog' -> Seq(EntryType)],
             acks' \subseteq [node : Server, term : Nat, index : Nat]
      PROVE  TypeOK'
  BY <1>1, RecoverType DEF TypeOK
<1>2. /\ \A n \in Server : disk[n] \in DiskType /\ currentTerm[n] \in Nat
      /\ elections \in Nat
      /\ ballots \subseteq [voter : Server, term : Nat, candidate : Server]
      /\ voteReqs \in SUBSET VoteReqType /\ appendReqs \in SUBSET AppendReqType
      /\ elected \subseteq [term : Nat, leader : Server]
      /\ DOMAIN termLog \subseteq Nat /\ termLog \in [DOMAIN termLog -> Seq(EntryType)]
      /\ acks \subseteq [node : Server, term : Nat, index : Nat]
  BY DEF TypeOK
<1>3. ASSUME NEW n \in Server, Crash(n) PROVE TypeOK'
  BY <1>1, <1>2, <1>3, DisownTypes DEF Crash
<1>4. ASSUME NEW n \in Server, CrashInUpdateMetaData(n) PROVE TypeOK'
  <2>1. MetaTorn(disk[n]) \in DiskType
    BY <1>2, MetaWrittenType DEF MetaTorn
  <2>. QED  BY <1>1, <1>2, <1>4, <2>1, DisownTypes DEF CrashInUpdateMetaData
<1>5. ASSUME NEW n \in Server, CrashInElectSelf(n) PROVE TypeOK'
  <2>. DEFINE t == currentTerm[n] + 1
              d == MetaWritten(disk[n], t, n, commitIndex[n])
              e == LogWritten(d, Extended(n, t, NoOp))
  <2>1. t \in Nat
    BY <1>2
  <2>2. d \in DiskType
    BY <2>1, MetaWrittenType DEF TypeOK
  <2>3. e \in DiskType
    BY <2>1, <2>2, LogWrittenType, ExtendedType DEF Command
  <2>4. /\ \/ Recover(n, d) /\ UNCHANGED leaderHist
           \/ Recover(n, e) /\ Reigns(n, t)
        /\ ballots' = ballots \cup {[voter |-> n, term |-> t, candidate |-> n]}
        /\ elections' = elections + 1
        /\ UNCHANGED <<voteReqs, appendReqs>>
    BY <1>5 DEF CrashInElectSelf
  <2>. HIDE DEF t, d, e
  <2>5. /\ elected' \subseteq [term : Nat, leader : Server]
        /\ DOMAIN termLog' \subseteq Nat /\ termLog' \in [DOMAIN termLog' -> Seq(EntryType)]
        /\ acks' \subseteq [node : Server, term : Nat, index : Nat]
    BY <1>2, <2>1, <2>4, ReignsType
  <2>. QED  BY <1>1, <1>2, <2>1, <2>2, <2>3, <2>4, <2>5
<1>6. ASSUME NEW r \in voteReqs, CrashInRequestVote(r) PROVE TypeOK'
  <2>1. r.to \in Server /\ r.term \in Nat
    BY <1>2 DEF VoteReqType
  <2>2. MetaWritten(disk[r.to], r.term, Nil, commitIndex[r.to]) \in DiskType
    BY <2>1, MetaWrittenType DEF TypeOK
  <2>. QED  BY <1>1, <1>2, <1>6, <2>1, <2>2, DisownTypes DEF CrashInRequestVote
<1>7. ASSUME NEW r \in appendReqs, CrashInAppendEntries(r) PROVE TypeOK'
  <2>. DEFINE d == TermWritten(r.to, r.term)
              e == LogWritten(d, Reconcile(log[r.to], r.entries))
  <2>1. r.to \in Server /\ r.term \in Nat /\ r.entries \in Seq(EntryType)
    BY <1>2 DEF AppendReqType
  <2>2. d \in DiskType
    BY <2>1, MetaWrittenType DEF TermWritten, TypeOK
  <2>3. e \in DiskType
    BY <2>1, <2>2, LogWrittenType, ReconcileType, EntryHasFields DEF TypeOK
  <2>4. /\ Recover(r.to, d) \/ Recover(r.to, e)
        /\ voteReqs' = Disown(voteReqs, r.to)
        /\ appendReqs' = Disown(appendReqs \ {r}, r.to)
        /\ UNCHANGED <<history, elections>>
    BY <1>7 DEF CrashInAppendEntries
  <2>. HIDE DEF d, e
  <2>. QED  BY <1>1, <1>2, <2>1, <2>2, <2>3, <2>4, DisownTypes
<1>8. ASSUME NEW n \in Server, NEW v \in Value, CrashInPropose(n, v) PROVE TypeOK'
  <2>. DEFINE l == Extended(n, currentTerm[n], v)
              d == LogWritten(disk[n], l)
  <2>1. l \in Seq(EntryType)
    BY <1>2, ExtendedType DEF Command
  <2>2. d \in DiskType
    BY <1>2, <2>1, LogWrittenType
  <2>3. /\ Recover(n, d) /\ LeaderWrites(n, currentTerm[n], l)
        /\ UNCHANGED <<voteReqs, appendReqs, ballots, elected, elections>>
    BY <1>8 DEF CrashInPropose
  <2>. HIDE DEF l, d
  <2>4. /\ DOMAIN termLog' \subseteq Nat /\ termLog' \in [DOMAIN termLog' -> Seq(EntryType)]
        /\ acks' \subseteq [node : Server, term : Nat, index : Nat]
    BY <1>2, <2>1, <2>3, LeaderWritesType
  <2>. QED  BY <1>1, <1>2, <2>2, <2>3, <2>4
<1>. QED  BY <1>3, <1>4, <1>5, <1>6, <1>7, <1>8 DEF Failure

\* Every variable keeps its type, whatever the cluster and the bounds.
THEOREM TypeCorrect == Spec => []TypeOK
<1>1. ASSUME TypeOK, UNCHANGED vars PROVE TypeOK'
  BY <1>1 DEF TypeOK, vars, nodeVars, electVars, logVars, leaderVars, voteMsgs, appendMsgs,
              clientVars, counters, history, leaderHist
<1>2. TypeOK /\ [Next]_vars => TypeOK'
  BY <1>1, TypeElection, TypeReplication, TypeClient, TypeFailure DEF Next
<1>. QED  BY <1>2, TypeInit, PTL DEF Spec

-----------------------------------------------------------------------------
(* What is on disk *)

LEMMA WrittenFields ==
  ASSUME NEW d \in DiskType, NEW c \in Nat, NEW l \in Seq(EntryType)
  PROVE  CommitWritten(LogWritten(d, l), c) =
           [currentTerm |-> d.currentTerm, votedFor |-> d.votedFor, commitIndex |-> c, log |-> l]
<1>2. PICK e \in DiskType : e = LogWritten(d, l)
  BY LogWrittenType
<1>3. e.currentTerm = d.currentTerm /\ e.votedFor = d.votedFor /\ e.log = l
  BY <1>2 DEF LogWritten, DiskType
<1>4. [e EXCEPT !.commitIndex = c] =
        [currentTerm |-> e.currentTerm, votedFor |-> e.votedFor, commitIndex |-> c, log |-> e.log]
  BY DEF DiskType
<1>. QED  BY <1>2, <1>3, <1>4 DEF CommitWritten

LEMMA DiskFields ==
  ASSUME TypeOK, DurableState, NEW n \in Server
  PROVE  /\ disk[n] \in DiskType
         /\ disk[n].currentTerm = currentTerm[n] /\ disk[n].votedFor = votedFor[n]
         /\ disk[n].commitIndex = commitIndex[n] /\ disk[n].log = log[n]
  BY DEF TypeOK, DurableState

\* A handler that writes the metadata of one node, its log as it was.
LEMMA MetaWrittenDurable ==
  ASSUME TypeOK, DurableState, NEW n \in Server, NEW t, NEW v,
         currentTerm' = [currentTerm EXCEPT ![n] = t],
         votedFor' = [votedFor EXCEPT ![n] = v],
         disk' = [disk EXCEPT ![n] = MetaWritten(@, t, v, commitIndex[n])],
         UNCHANGED logVars
  PROVE  DurableState'
<1>1. /\ currentTerm \in [Server -> Nat] /\ votedFor \in [Server -> Server \cup {Nil}]
      /\ disk \in [Server -> DiskType]
  BY DEF TypeOK
<1>3. MetaWritten(disk[n], t, v, commitIndex[n]) =
        [currentTerm |-> t, votedFor |-> v, commitIndex |-> commitIndex[n], log |-> log[n]]
  BY DiskFields DEF MetaWritten
<1>. QED  BY <1>1, <1>3 DEF DurableState, logVars

LEMMA CommitAsLeaderDurable ==
  ASSUME TypeOK, DurableState, NEW n \in Server, NEW l, NEW match, NEW t, NEW d,
         CommitAsLeader(n, l, match, t, d),
         d = [currentTerm |-> currentTerm'[n], votedFor |-> votedFor'[n],
              commitIndex |-> commitIndex[n], log |-> log[n]],
         \A p \in Server \ {n} : currentTerm'[p] = currentTerm[p] /\ votedFor'[p] = votedFor[p]
  PROVE  DurableState'
<1>. DEFINE c == AdvancedCommit(n, l, match, t, commitIndex[n])
<1>1. /\ log' = [log EXCEPT ![n] = l]
      /\ commitIndex' = [commitIndex EXCEPT ![n] = c]
      /\ disk' = [disk EXCEPT ![n] = CommitWritten(LogWritten(d, l), c)]
  BY DEF CommitAsLeader
<1>. HIDE DEF c
<1>2. /\ log \in [Server -> Seq(EntryType)] /\ commitIndex \in [Server -> Nat]
      /\ disk \in [Server -> DiskType]
  BY DEF TypeOK
<1>3. disk'[n] = [currentTerm |-> currentTerm'[n], votedFor |-> votedFor'[n],
                  commitIndex |-> commitIndex'[n], log |-> log'[n]]
  BY <1>1, <1>2 DEF CommitWritten, LogWritten
<1>4. ASSUME NEW p \in Server \ {n}
      PROVE  disk'[p] = [currentTerm |-> currentTerm'[p], votedFor |-> votedFor'[p],
                         commitIndex |-> commitIndex'[p], log |-> log'[p]]
  BY <1>1, <1>2 DEF DurableState
<1>. QED  BY <1>3, <1>4 DEF DurableState

LEMMA StepDownDurable ==
  ASSUME TypeOK, DurableState, NEW n \in Server, NEW t, StepDown(n, t), UNCHANGED logVars
  PROVE  DurableState'
  BY MetaWrittenDurable DEF StepDown

LEMMA RecoverDurable ==
  ASSUME TypeOK, DurableState, NEW n \in Server, NEW d \in DiskType, Recover(n, d)
  PROVE  DurableState'
<1>. DEFINE c == Min({d.commitIndex, Len(d.log)})
<1>1. /\ currentTerm' = [currentTerm EXCEPT ![n] = d.currentTerm]
      /\ votedFor' = [votedFor EXCEPT ![n] = d.votedFor]
      /\ log' = [log EXCEPT ![n] = d.log]
      /\ commitIndex' = [commitIndex EXCEPT ![n] = c]
      /\ disk' = [disk EXCEPT ![n] = [d EXCEPT !.commitIndex = c]]
  BY DEF Recover
<1>. HIDE DEF c
<1>2. [d EXCEPT !.commitIndex = c] =
        [currentTerm |-> d.currentTerm, votedFor |-> d.votedFor, commitIndex |-> c, log |-> d.log]
  BY DEF DiskType
<1>. QED  BY <1>1, <1>2 DEF DurableState, TypeOK

LEMMA DurableElection ==
  ASSUME TypeOK, DurableState, Election
  PROVE  DurableState'
<1>. USE DEF nodeVars, electVars, logVars, leaderVars, voteMsgs, appendMsgs, clientVars,
             counters, history, leaderHist
<1>0. UNCHANGED <<currentTerm, votedFor, log, commitIndex, disk>> => DurableState'
  BY DEF DurableState
<1>1. ASSUME NEW n \in Server, ElectionTimeout(n) PROVE DurableState'
  <2>1. /\ currentTerm' = [currentTerm EXCEPT ![n] = currentTerm[n] + 1]
        /\ votedFor' = [votedFor EXCEPT ![n] = n]
        /\ disk' = [disk EXCEPT ![n] = MetaWritten(@, currentTerm[n] + 1, n, commitIndex[n])]
        /\ UNCHANGED logVars
    BY <1>1 DEF ElectionTimeout, TimesOut
  <2>. QED  BY <2>1, MetaWrittenDurable
<1>2. ASSUME NEW n \in Server, ElectSelf(n) PROVE DurableState'
  <2>. DEFINE t == currentTerm[n] + 1
              d == MetaWritten(disk[n], t, n, commitIndex[n])
              l == Extended(n, t, NoOp)
              match == [p \in Server |-> 0]
  <2>1. /\ currentTerm' = [currentTerm EXCEPT ![n] = t]
        /\ votedFor' = [votedFor EXCEPT ![n] = n]
        /\ CommitAsLeader(n, l, match, t, d)
    BY <1>2 DEF ElectSelf, TimesOut, BecomeLeader
  <2>2. d = [currentTerm |-> t, votedFor |-> n, commitIndex |-> commitIndex[n], log |-> log[n]]
    BY DiskFields DEF MetaWritten
  <2>. HIDE DEF d, t, l, match
  <2>3. /\ currentTerm'[n] = t /\ votedFor'[n] = n
        /\ \A p \in Server \ {n} : currentTerm'[p] = currentTerm[p] /\ votedFor'[p] = votedFor[p]
    BY <2>1 DEF TypeOK
  <2>. QED  BY <2>1, <2>2, <2>3, CommitAsLeaderDurable
<1>3. ASSUME NEW n \in Server, BroadcastRequestVote(n) PROVE DurableState'
  BY <1>0, <1>3 DEF BroadcastRequestVote
<1>4. ASSUME NEW r \in voteReqs, RejectStaleVoteRequest(r) PROVE DurableState'
  BY <1>0, <1>4 DEF RejectStaleVoteRequest
<1>5. ASSUME NEW r \in voteReqs, HandleRequestVote(r) PROVE DurableState'
  <2>. DEFINE vote == IF Grants(r) THEN r.from ELSE VoteInTerm(r.to, r.term)
  <2>1. /\ currentTerm' = [currentTerm EXCEPT ![r.to] = r.term]
        /\ votedFor' = [votedFor EXCEPT ![r.to] = vote]
        /\ disk' = [disk EXCEPT ![r.to] = MetaWritten(@, r.term, vote, commitIndex[r.to])]
        /\ UNCHANGED logVars
    BY <1>5 DEF HandleRequestVote, AdoptTerm
  <2>2. r.to \in Server
    BY DEF TypeOK, VoteReqType
  <2>. HIDE DEF vote
  <2>. QED  BY <2>1, <2>2, MetaWrittenDurable
<1>6. ASSUME NEW m \in voteReps, VoteReplyHigherTerm(m) PROVE DurableState'
  <2>1. m.to \in Server
    BY DEF TypeOK, VoteRepType
  <2>. QED  BY <1>6, <2>1, StepDownDurable DEF VoteReplyHigherTerm
<1>7. ASSUME NEW m \in voteReps, VoteReplyIgnored(m) PROVE DurableState'
  BY <1>0, <1>7 DEF VoteReplyIgnored
<1>8. ASSUME NEW m \in voteReps, VoteReplyCounted(m) PROVE DurableState'
  BY <1>0, <1>8 DEF VoteReplyCounted
<1>9. ASSUME NEW m \in voteReps, VoteReplyWins(m) PROVE DurableState'
  <2>. DEFINE n == m.to
              l == Extended(n, currentTerm[n], NoOp)
              match == [p \in Server |-> 0]
  <2>1. /\ UNCHANGED <<currentTerm, votedFor>>
        /\ CommitAsLeader(n, l, match, currentTerm[n], disk[n])
    BY <1>9 DEF VoteReplyWins, BecomeLeader
  <2>2. n \in Server
    BY DEF TypeOK, VoteRepType
  <2>3. disk[n] = [currentTerm |-> currentTerm'[n], votedFor |-> votedFor'[n],
                   commitIndex |-> commitIndex[n], log |-> log[n]]
    BY <2>1, <2>2 DEF DurableState
  <2>. HIDE DEF n, l, match
  <2>. QED  BY <2>1, <2>2, <2>3, CommitAsLeaderDurable
<1>. QED  BY <1>1, <1>2, <1>3, <1>4, <1>5, <1>6, <1>7, <1>8, <1>9 DEF Election

LEMMA DurableReplication ==
  ASSUME TypeOK, DurableState, Replication
  PROVE  DurableState'
<1>. USE DEF nodeVars, electVars, logVars, leaderVars, voteMsgs, appendMsgs, clientVars,
             counters, history, leaderHist
<1>0. UNCHANGED <<currentTerm, votedFor, log, commitIndex, disk>> => DurableState'
  BY DEF DurableState
<1>1. ASSUME NEW n \in Server, NEW p \in Peers(n), SendAppendEntries(n, p) PROVE DurableState'
  BY <1>0, <1>1 DEF SendAppendEntries
<1>2. ASSUME NEW r \in appendReqs, RpcFails(r) \/ RejectStaleAppend(r) PROVE DurableState'
  BY <1>0, <1>2 DEF RpcFails, RejectStaleAppend
<1>3. ASSUME NEW r \in appendReqs
      PROVE  /\ r.to \in Server
             /\ TermWritten(r.to, r.term) =
                  [currentTerm |-> IF r.term > currentTerm[r.to] THEN r.term ELSE currentTerm[r.to],
                   votedFor |-> VoteInTerm(r.to, r.term),
                   commitIndex |-> commitIndex[r.to], log |-> log[r.to]]
  <2>1. r.to \in Server
    BY DEF TypeOK, AppendReqType
  <2>2. disk[r.to] = [currentTerm |-> currentTerm[r.to], votedFor |-> votedFor[r.to],
                      commitIndex |-> commitIndex[r.to], log |-> log[r.to]]
    BY <2>1 DEF DurableState
  <2>3. MetaWritten(disk[r.to], r.term, Nil, commitIndex[r.to]) =
          [currentTerm |-> r.term, votedFor |-> Nil,
           commitIndex |-> commitIndex[r.to], log |-> log[r.to]]
    BY <2>1, DiskFields DEF MetaWritten
  <2>. QED  BY <2>1, <2>2, <2>3 DEF TermWritten, VoteInTerm
<1>4. ASSUME NEW r \in appendReqs, ~Stale(r), Recognise(r.to, r.term, r.from)
      PROVE  /\ currentTerm'[r.to] = r.term
             /\ currentTerm'[r.to] = IF r.term > currentTerm[r.to] THEN r.term
                                     ELSE currentTerm[r.to]
             /\ votedFor'[r.to] = VoteInTerm(r.to, r.term)
             /\ \A p \in Server \ {r.to} :
                  currentTerm'[p] = currentTerm[p] /\ votedFor'[p] = votedFor[p]
  <2>1. r.to \in Server /\ r.term \in Nat /\ currentTerm[r.to] \in Nat
    BY DEF TypeOK, AppendReqType
  <2>2. currentTerm \in [Server -> Nat] /\ votedFor \in [Server -> Server \cup {Nil}]
    BY DEF TypeOK
  <2>3. /\ currentTerm' = [currentTerm EXCEPT ![r.to] = r.term]
        /\ votedFor' = [votedFor EXCEPT ![r.to] = VoteInTerm(r.to, r.term)]
    BY <1>4 DEF Recognise
  <2>4. r.term = IF r.term > currentTerm[r.to] THEN r.term ELSE currentTerm[r.to]
    BY <1>4, <2>1 DEF Stale
  <2>. QED  BY <2>1, <2>2, <2>3, <2>4
<1>5. ASSUME NEW r \in appendReqs, RejectMismatch(r) PROVE DurableState'
  <2>1. /\ ~Stale(r) /\ Recognise(r.to, r.term, r.from)
        /\ disk' = [disk EXCEPT ![r.to] = TermWritten(r.to, r.term)]
        /\ UNCHANGED logVars
    BY <1>5 DEF RejectMismatch
  <2>2. disk \in [Server -> DiskType]
    BY DEF TypeOK
  <2>. QED  BY <1>3, <1>4, <2>1, <2>2 DEF DurableState
<1>6. ASSUME NEW r \in appendReqs, AcceptAppend(r) PROVE DurableState'
  <2>. DEFINE v == r.to
              l == Reconcile(log[v], r.entries)
              c == FollowerCommit(r, l, commitIndex[v])
  <2>1. /\ ~Stale(r) /\ Recognise(v, r.term, r.from)
        /\ log' = [log EXCEPT ![v] = l]
        /\ commitIndex' = [commitIndex EXCEPT ![v] = c]
        /\ disk' = [disk EXCEPT ![v] = CommitWritten(LogWritten(TermWritten(v, r.term), l), c)]
    BY <1>6 DEF AcceptAppend
  <2>. HIDE DEF l, c
  <2>2. /\ disk \in [Server -> DiskType] /\ log \in [Server -> Seq(EntryType)]
        /\ commitIndex \in [Server -> Nat]
    BY DEF TypeOK
  <2>3. CommitWritten(LogWritten(TermWritten(v, r.term), l), c) =
          [currentTerm |-> currentTerm'[v], votedFor |-> votedFor'[v],
           commitIndex |-> c, log |-> l]
    <3>1. TermWritten(v, r.term) \in DiskType
      BY <1>3, DiskFields, MetaWrittenType DEF TermWritten, TypeOK, AppendReqType
    <3>2. TermWritten(v, r.term) =
            [currentTerm |-> currentTerm'[v], votedFor |-> votedFor'[v],
             commitIndex |-> commitIndex[v], log |-> log[v]]
      BY <1>3, <1>4, <2>1
    <3>3. /\ TermWritten(v, r.term).currentTerm = currentTerm'[v]
          /\ TermWritten(v, r.term).votedFor = votedFor'[v]
      BY <3>2
    <3>4. l \in Seq(EntryType) /\ c \in Nat
      BY AcceptedType DEF l, c
    <3>. QED  BY <3>1, <3>3, <3>4, WrittenFields
  <2>. QED  BY <1>3, <1>4, <2>1, <2>2, <2>3 DEF DurableState
<1>7. ASSUME NEW m \in appendReps, LoseAppendReply(m) \/ AppendReplyIgnored(m)
                                   \/ AppendReplyFailure(m)
      PROVE  DurableState'
  BY <1>0, <1>7 DEF LoseAppendReply, AppendReplyIgnored, AppendReplyFailure
<1>8. ASSUME NEW m \in appendReps, AppendReplyHigherTerm(m) PROVE DurableState'
  <2>1. m.to \in Server
    BY DEF TypeOK, AppendRepType
  <2>. QED  BY <1>8, <2>1, StepDownDurable DEF AppendReplyHigherTerm
<1>9. ASSUME NEW m \in appendReps, AppendReplySuccess(m) PROVE DurableState'
  <2>. DEFINE n == m.to
              match == [matchIndex[n] EXCEPT ![m.from] = NewMatch(m)]
  <2>1. /\ UNCHANGED <<currentTerm, votedFor>>
        /\ CommitAsLeader(n, log[n], match, currentTerm[n], disk[n])
    BY <1>9 DEF AppendReplySuccess
  <2>2. n \in Server
    BY DEF TypeOK, AppendRepType
  <2>3. disk[n] = [currentTerm |-> currentTerm'[n], votedFor |-> votedFor'[n],
                   commitIndex |-> commitIndex[n], log |-> log[n]]
    BY <2>1, <2>2 DEF DurableState
  <2>. HIDE DEF n, match
  <2>. QED  BY <2>1, <2>2, <2>3, CommitAsLeaderDurable
<1>. QED  BY <1>1, <1>2, <1>5, <1>6, <1>7, <1>8, <1>9 DEF Replication

LEMMA DurableClient ==
  ASSUME TypeOK, DurableState, Client
  PROVE  DurableState'
<1>. USE DEF nodeVars, electVars, logVars, leaderVars, voteMsgs, appendMsgs, clientVars,
             counters, history, leaderHist
<1>1. ASSUME NEW n \in Server, NEW v \in Value, Propose(n, v) PROVE DurableState'
  <2>. DEFINE l == Extended(n, currentTerm[n], v)
  <2>1. /\ UNCHANGED <<currentTerm, votedFor>>
        /\ CommitAsLeader(n, l, matchIndex[n], currentTerm[n], disk[n])
    BY <1>1 DEF Propose
  <2>2. disk[n] = [currentTerm |-> currentTerm'[n], votedFor |-> votedFor'[n],
                   commitIndex |-> commitIndex[n], log |-> log[n]]
    BY <2>1 DEF DurableState
  <2>. HIDE DEF l
  <2>. QED  BY <2>1, <2>2, CommitAsLeaderDurable
<1>2. ASSUME NEW w \in waiting, ProposalOk(w) \/ ProposalFails(w) PROVE DurableState'
  BY <1>2 DEF ProposalOk, ProposalFails, DurableState
<1>. QED  BY <1>1, <1>2 DEF Client

-----------------------------------------------------------------------------
(* What a crash brings back *)

\* The files of n give back its term and its vote, or a later term.
Keeps(n, d) ==
  \/ d.currentTerm > currentTerm[n]
  \/ d.currentTerm = currentTerm[n] /\ d.votedFor = votedFor[n]

\* A crash is a recovery from files that are no older than the memory was, torn
\* metadata apart; in a cluster of one it may fall inside an election.
CrashLeaves(n, d) ==
  /\ Recover(n, d)
  /\ \/ /\ MetaTearing \/ Keeps(n, d)
        /\ voteReqs' \subseteq Disown(voteReqs, n) \/ UNCHANGED voteReqs
        /\ UNCHANGED <<ballots, elected>>
     \/ /\ Majority <= 1
        /\ d.currentTerm = currentTerm[n] + 1 /\ d.votedFor = n
        /\ ballots' = ballots \cup {[voter |-> n, term |-> d.currentTerm, candidate |-> n]}
        /\ elected' = elected \/ elected' = elected \cup {[term |-> d.currentTerm, leader |-> n]}
        /\ UNCHANGED voteReqs

LEMMA CrashImage ==
  ASSUME TypeOK, DurableState, Failure
  PROVE  \E n \in Server, d \in DiskType : CrashLeaves(n, d)
<1>1. ASSUME NEW n \in Server
      PROVE  /\ disk[n] \in DiskType /\ currentTerm[n] \in Nat
             /\ disk[n].currentTerm = currentTerm[n] /\ disk[n].votedFor = votedFor[n]
  BY DiskFields DEF TypeOK
<1>2. ASSUME NEW n \in Server, NEW r \in voteReqs
      PROVE  Disown(voteReqs \ {r}, n) \subseteq Disown(voteReqs, n)
  BY DEF Disown
<1>3. ASSUME NEW n \in Server, Crash(n) PROVE CrashLeaves(n, disk[n])
  BY <1>1, <1>3 DEF Crash, CrashLeaves, Keeps, history, leaderHist
<1>4. ASSUME NEW n \in Server, CrashInUpdateMetaData(n)
      PROVE  MetaTorn(disk[n]) \in DiskType /\ CrashLeaves(n, MetaTorn(disk[n]))
  BY <1>1, <1>4, MetaWrittenType DEF CrashInUpdateMetaData, CrashLeaves, MetaTorn, history,
     leaderHist
<1>5. ASSUME NEW n \in Server, CrashInElectSelf(n)
      PROVE  \E d \in DiskType : CrashLeaves(n, d)
  <2>. DEFINE t == currentTerm[n] + 1
              d == MetaWritten(disk[n], t, n, commitIndex[n])
              l == Extended(n, t, NoOp)
              e == LogWritten(d, l)
  <2>1. t \in Nat /\ l \in Seq(EntryType)
    <3>1. t \in Nat /\ NoOp \in Command
      BY <1>1 DEF Command
    <3>. HIDE DEF t
    <3>. QED  BY <3>1, ExtendedType
  <2>2. d \in DiskType /\ d.currentTerm = t /\ d.votedFor = n
    BY <1>1, <2>1, MetaWrittenType DEF TypeOK, MetaWritten
  <2>3. \/ Recover(n, d) /\ elected' = elected
        \/ Recover(n, e) /\ elected' = elected \cup {[term |-> t, leader |-> n]}
    BY <1>5 DEF CrashInElectSelf, Reigns, leaderHist
  <2>4. /\ Majority <= 1
        /\ ballots' = ballots \cup {[voter |-> n, term |-> t, candidate |-> n]}
        /\ UNCHANGED voteReqs
    BY <1>5 DEF CrashInElectSelf
  <2>. HIDE DEF t, d, l
  <2>5. e \in DiskType /\ e.currentTerm = t /\ e.votedFor = n
    BY <2>1, <2>2, LogWrittenType DEF LogWritten, DiskType
  <2>. HIDE DEF e
  <2>6. CrashLeaves(n, d) \/ CrashLeaves(n, e)
    BY <2>2, <2>3, <2>4, <2>5 DEF CrashLeaves, t
  <2>. QED  BY <2>2, <2>5, <2>6
<1>6. ASSUME NEW r \in voteReqs, CrashInRequestVote(r)
      PROVE  \E n \in Server, d \in DiskType : CrashLeaves(n, d)
  <2>. DEFINE d == MetaWritten(disk[r.to], r.term, Nil, commitIndex[r.to])
  <2>1. r.to \in Server /\ r.term \in Nat
    BY DEF TypeOK, VoteReqType
  <2>2. d \in DiskType /\ d.currentTerm = r.term
    BY <1>1, <2>1, MetaWrittenType DEF TypeOK, MetaWritten
  <2>3. /\ r.term > currentTerm[r.to] /\ Recover(r.to, d)
        /\ voteReqs' = Disown(voteReqs \ {r}, r.to)
        /\ UNCHANGED <<ballots, elected>>
    BY <1>6 DEF CrashInRequestVote, history, leaderHist
  <2>. HIDE DEF d
  <2>4. CrashLeaves(r.to, d)
    BY <1>2, <2>1, <2>2, <2>3 DEF CrashLeaves, Keeps
  <2>. QED  BY <2>1, <2>2, <2>4
<1>7. ASSUME NEW r \in appendReqs, CrashInAppendEntries(r)
      PROVE  \E n \in Server, d \in DiskType : CrashLeaves(n, d)
  <2>. DEFINE v == r.to
              d == TermWritten(v, r.term)
              l == Reconcile(log[v], r.entries)
              e == LogWritten(d, l)
  <2>1. v \in Server /\ r.term \in Nat /\ l \in Seq(EntryType)
    BY AcceptedType DEF TypeOK, AppendReqType
  <2>2. d \in DiskType /\ Keeps(v, d)
    <3>1. CASE r.term > currentTerm[v]
      <4>1. d = MetaWritten(disk[v], r.term, Nil, commitIndex[v])
        BY <3>1 DEF TermWritten
      <4>2. disk[v] \in DiskType /\ commitIndex[v] \in Nat
        BY <1>1, <2>1 DEF TypeOK
      <4>. HIDE DEF v, d
      <4>3. d \in DiskType
        BY <2>1, <4>1, <4>2, MetaWrittenType
      <4>4. d.currentTerm = r.term
        BY <4>1 DEF MetaWritten
      <4>. QED  BY <3>1, <4>3, <4>4 DEF Keeps
    <3>2. CASE ~(r.term > currentTerm[v])
      <4>1. d = disk[v]
        BY <3>2 DEF TermWritten
      <4>. QED  BY <1>1, <2>1, <4>1 DEF Keeps
    <3>. QED  BY <3>1, <3>2
  <2>3. /\ Recover(v, d) \/ Recover(v, e)
        /\ voteReqs' = Disown(voteReqs, v)
        /\ UNCHANGED <<ballots, elected>>
    BY <1>7 DEF CrashInAppendEntries, history, leaderHist
  <2>. HIDE DEF v, d, l
  <2>4. e \in DiskType /\ Keeps(v, e)
    BY <2>1, <2>2, LogWrittenType DEF LogWritten, DiskType, Keeps
  <2>. HIDE DEF e
  <2>. QED  BY <2>1, <2>2, <2>3, <2>4 DEF CrashLeaves
<1>8. ASSUME NEW n \in Server, NEW v \in Value, CrashInPropose(n, v)
      PROVE  \E d \in DiskType : CrashLeaves(n, d)
  <2>. DEFINE d == LogWritten(disk[n], Extended(n, currentTerm[n], v))
  <2>1. d \in DiskType
    BY LogWrittenType, ExtendedType DEF TypeOK, Command
  <2>2. Keeps(n, d)
    BY <1>1 DEF Keeps, LogWritten, DiskType
  <2>3. Recover(n, d) /\ UNCHANGED <<voteReqs, ballots, elected>>
    BY <1>8 DEF CrashInPropose
  <2>. HIDE DEF d
  <2>. QED  BY <2>1, <2>2, <2>3 DEF CrashLeaves
<1>. QED  BY <1>1, <1>3, <1>4, <1>5, <1>6, <1>7, <1>8 DEF Failure

-----------------------------------------------------------------------------
\* No answer leaves a node before its state is on disk, and recovery makes the
\* two agree again, torn metadata or not.
THEOREM Durable == Spec => []DurableState
<1>1. Init => DurableState
  BY DEF Init, DurableState
<1>2. ASSUME TypeOK, DurableState, Failure PROVE DurableState'
  <2>1. PICK n \in Server, d \in DiskType : CrashLeaves(n, d)
    BY <1>2, CrashImage
  <2>. QED  BY <1>2, <2>1, RecoverDurable DEF CrashLeaves
<1>3. ASSUME DurableState, UNCHANGED vars PROVE DurableState'
  BY <1>3 DEF DurableState, vars, nodeVars, logVars
<1>4. TypeOK /\ DurableState /\ [Next]_vars => DurableState'
  BY <1>2, <1>3, DurableElection, DurableReplication, DurableClient DEF Next
<1>. QED  BY <1>1, <1>4, TypeCorrect, PTL DEF Spec

-----------------------------------------------------------------------------
(* Votes: a node moves to term t with vote w, and the ballots B are cast *)

Moves(n, t, w, B) ==
  /\ currentTerm' = [currentTerm EXCEPT ![n] = t]
  /\ votedFor' = [votedFor EXCEPT ![n] = w]
  /\ ballots' = ballots \cup B
  /\ B \subseteq {Ballot(n, t, w)}
  /\ B # {} => w # Nil
  /\ \/ t > currentTerm[n]
     \/ t = currentTerm[n] /\ votedFor[n] \in {Nil, w}

LEMMA VotesKept ==
  ASSUME TypeOK, BallotsRemembered, OneVotePerTerm, NEW n \in Server, NEW t \in Nat,
         NEW w \in Server \cup {Nil}, NEW B, Moves(n, t, w, B)
  PROVE  BallotsRemembered' /\ OneVotePerTerm'
<1>1. /\ currentTerm \in [Server -> Nat] /\ votedFor \in [Server -> Server \cup {Nil}]
      /\ \A b \in ballots : b.voter \in Server /\ b.term \in Nat /\ b.candidate \in Server
  BY DEF TypeOK
<1>2. Nil \notin Server
  BY ServerAssumption
<1>3. /\ currentTerm'[n] = t /\ votedFor'[n] = w
      /\ \A p \in Server \ {n} : currentTerm'[p] = currentTerm[p] /\ votedFor'[p] = votedFor[p]
  BY <1>1 DEF Moves
<1>4. \A b \in B : b.voter = n /\ b.term = t /\ b.candidate = w
  BY DEF Moves, Ballot
<1>5. ASSUME NEW b \in ballots, b.voter = n
      PROVE  b.term <= t /\ (b.term = t => b.candidate = w)
  BY <1>1, <1>2, <1>5 DEF BallotsRemembered, Moves
<1>6. BallotsRemembered'
  <2>. SUFFICES ASSUME NEW b \in ballots'
                PROVE  /\ b.term <= currentTerm'[b.voter]
                       /\ b.term = currentTerm'[b.voter] => votedFor'[b.voter] = b.candidate
    BY DEF BallotsRemembered
  <2>1. CASE b \in B
    BY <1>3, <1>4, <2>1
  <2>2. CASE b \in ballots /\ b.voter = n
    BY <1>3, <1>5, <2>2
  <2>3. CASE b \in ballots /\ b.voter # n
    BY <1>1, <1>3, <2>3 DEF BallotsRemembered
  <2>. QED  BY <2>1, <2>2, <2>3 DEF Moves
<1>7. OneVotePerTerm'
  BY <1>4, <1>5 DEF OneVotePerTerm, Moves
<1>. QED  BY <1>6, <1>7

-----------------------------------------------------------------------------
(* RPCs: they are answered or lost, and none is added *)

\* No node goes back in time or into a campaign without a new term.
TermsAdvance ==
  \A p \in Server :
    /\ currentTerm'[p] \in Nat /\ currentTerm'[p] >= currentTerm[p]
    /\ campaigning'[p] => campaigning[p] \/ currentTerm'[p] > currentTerm[p]

PendingKept ==
  \A n, p \in Server, t \in Nat : Pending(n, p, t)' => Pending(n, p, t)

RpcsKept == ElectionRpcsPast' /\ OneRpcPerPeer' /\ RepliesBacked' /\ PendingKept

\* A request may lose its owner, or be gone; a reply may be gone.
RpcsOnlyEnd ==
  /\ \A r \in voteReqs' : \E q \in voteReqs :
       r.from = q.from /\ r.to = q.to /\ r.term = q.term /\ (r.live => r = q)
  /\ voteReps' \subseteq voteReps

LEMMA PastKept ==
  ASSUME TypeOK, TermsAdvance, NEW n \in Server, NEW t \in Nat, Past(n, t)
  PROVE  Past(n, t)'
  BY DEF TypeOK, TermsAdvance, Past

LEMMA RpcsEnd ==
  ASSUME TypeOK, ElectionRpcsPast, OneRpcPerPeer, RepliesBacked, TermsAdvance, RpcsOnlyEnd,
         ballots \subseteq ballots'
  PROVE  RpcsKept
<1>1. /\ \A r \in voteReqs : r.from \in Server /\ r.to \in Server /\ r.term \in Nat
      /\ \A m \in voteReps : m.from \in Server /\ m.to \in Server /\ m.electionTerm \in Nat
  BY DEF TypeOK, VoteReqType, VoteRepType
<1>2. ElectionRpcsPast'
  <2>1. ASSUME NEW r \in voteReqs' PROVE r.from # r.to /\ Past(r.from, r.term)'
    BY <1>1, PastKept DEF ElectionRpcsPast, RpcsOnlyEnd
  <2>2. ASSUME NEW m \in voteReps' PROVE m.from # m.to /\ Past(m.to, m.electionTerm)'
    BY <1>1, PastKept DEF ElectionRpcsPast, RpcsOnlyEnd
  <2>. QED  BY <2>1, <2>2 DEF ElectionRpcsPast
<1>3. \A r \in voteReqs' : r.live => r \in voteReqs
  BY DEF RpcsOnlyEnd
<1>4. OneRpcPerPeer'
  BY <1>3 DEF OneRpcPerPeer, RpcsOnlyEnd
<1>5. RepliesBacked'
  BY DEF RepliesBacked, RpcsOnlyEnd
<1>6. PendingKept
  BY <1>3 DEF PendingKept, Pending, RpcsOnlyEnd
<1>. QED  BY <1>2, <1>4, <1>5, <1>6 DEF RpcsKept

\* A request is replaced by its reply, or by nothing.
RpcAnswered(r) ==
  /\ voteReqs' = voteReqs \ {r}
  /\ \E t \in Nat, g \in BOOLEAN :
       /\ voteReps' = voteReps \cup VoteReplies(r, t, g)
       /\ g => Ballot(r.to, r.term, r.from) \in ballots'

LEMMA RpcsAnswered ==
  ASSUME TypeOK, ElectionRpcsPast, OneRpcPerPeer, RepliesBacked, TermsAdvance,
         ballots \subseteq ballots', NEW r \in voteReqs, RpcAnswered(r)
  PROVE  RpcsKept
<1>. PICK t \in Nat, g \in BOOLEAN :
       /\ voteReps' = voteReps \cup VoteReplies(r, t, g)
       /\ g => Ballot(r.to, r.term, r.from) \in ballots'
  BY DEF RpcAnswered
<1>1. /\ \A q \in voteReqs : q.from \in Server /\ q.to \in Server /\ q.term \in Nat
      /\ \A m \in voteReps : m.from \in Server /\ m.to \in Server /\ m.electionTerm \in Nat
  BY DEF TypeOK, VoteReqType, VoteRepType
<1>2. \A m \in VoteReplies(r, t, g) :
        /\ r.live /\ m.from = r.to /\ m.to = r.from /\ m.electionTerm = r.term
        /\ m.voteGranted = g
  BY DEF VoteReplies
<1>3. \A m, k \in VoteReplies(r, t, g) : m = k
  BY DEF VoteReplies
<1>4. voteReqs' = voteReqs \ {r}
  BY DEF RpcAnswered
<1>5. ElectionRpcsPast'
  <2>1. ASSUME NEW q \in voteReqs' PROVE q.from # q.to /\ Past(q.from, q.term)'
    BY <1>1, <1>4, PastKept DEF ElectionRpcsPast
  <2>2. ASSUME NEW m \in voteReps' PROVE m.from # m.to /\ Past(m.to, m.electionTerm)'
    BY <1>1, <1>2, PastKept DEF ElectionRpcsPast
  <2>. QED  BY <2>1, <2>2 DEF ElectionRpcsPast
<1>6. OneRpcPerPeer'
  <2>1. \A q, s \in voteReqs' : q.live /\ s.live /\ q.from = s.from /\ q.to = s.to
          /\ q.term = s.term => q = s
    BY <1>4 DEF OneRpcPerPeer
  <2>2. \A m, k \in voteReps' : m.to = k.to /\ m.from = k.from
          /\ m.electionTerm = k.electionTerm => m = k
    BY <1>2, <1>3 DEF OneRpcPerPeer
  <2>3. \A q \in voteReqs', m \in voteReps' :
          ~(q.live /\ q.from = m.to /\ q.to = m.from /\ q.term = m.electionTerm)
    BY <1>2, <1>4 DEF OneRpcPerPeer
  <2>. QED  BY <2>1, <2>2, <2>3 DEF OneRpcPerPeer
<1>7. RepliesBacked'
  BY <1>2 DEF RepliesBacked
<1>8. PendingKept
  BY <1>2, <1>4 DEF PendingKept, Pending
<1>. QED  BY <1>5, <1>6, <1>7, <1>8 DEF RpcsKept

-----------------------------------------------------------------------------
(* Counting: what keeps a candidate's votes and a leader's majority *)

\* Candidate p, if it is one after the step, was one before, with its votes.
StillStands(p) ==
  role'[p] = "CANDIDATE" =>
    /\ role[p] = "CANDIDATE" /\ currentTerm'[p] = currentTerm[p]
    /\ votesReceived'[p] = votesReceived[p] /\ (campaigning'[p] => campaigning[p])

VotesBackedAt(p) ==
  role[p] = "CANDIDATE" =>
    /\ Ballot(p, currentTerm[p], p) \in ballots
    /\ votesReceived[p] <= Cardinality(CountedVoters(p))
    /\ campaigning[p] => votesReceived[p] <= 1

LEMMA CountedMore ==
  ASSUME NEW p, NEW S \in SUBSET CountedVoters(p)
  PROVE  /\ IsFiniteSet(S) /\ Cardinality(S) \in Nat
         /\ Cardinality(S) <= Cardinality(CountedVoters(p))
         /\ Cardinality(CountedVoters(p)) \in Nat
<1>1. IsFiniteSet(CountedVoters(p))
  BY ServerAssumption, FS_Subset DEF CountedVoters
<1>. QED  BY <1>1, FS_Subset, FS_CardinalityType

LEMMA CountedMoreAfter ==
  ASSUME NEW p, NEW S \in SUBSET CountedVoters(p)'
  PROVE  /\ IsFiniteSet(S) /\ Cardinality(S) \in Nat
         /\ Cardinality(S) <= Cardinality(CountedVoters(p)')
         /\ Cardinality(CountedVoters(p)') \in Nat
<1>1. IsFiniteSet(CountedVoters(p)')
  BY ServerAssumption, FS_Subset DEF CountedVoters
<1>. QED  BY <1>1, FS_Subset, FS_CardinalityType

LEMMA StandingKept ==
  ASSUME TypeOK, PendingKept, ballots \subseteq ballots', NEW p \in Server,
         VotesBackedAt(p), StillStands(p)
  PROVE  VotesBackedAt(p)'
<1>1. SUFFICES ASSUME role'[p] = "CANDIDATE"
               PROVE  /\ Ballot(p, currentTerm'[p], p) \in ballots'
                      /\ votesReceived'[p] <= Cardinality(CountedVoters(p)')
                      /\ campaigning'[p] => votesReceived'[p] <= 1
  BY DEF VotesBackedAt
<1>2. currentTerm[p] \in Nat /\ votesReceived[p] \in Nat
  BY DEF TypeOK
<1>3. /\ role[p] = "CANDIDATE" /\ currentTerm'[p] = currentTerm[p]
      /\ votesReceived'[p] = votesReceived[p] /\ (campaigning'[p] => campaigning[p])
  BY <1>1 DEF StillStands
<1>4. CountedVoters(p) \subseteq CountedVoters(p)'
  BY <1>2, <1>3 DEF CountedVoters, PendingKept
<1>5. Cardinality(CountedVoters(p)) <= Cardinality(CountedVoters(p)')
  BY <1>4, CountedMoreAfter
<1>6. /\ Cardinality(CountedVoters(p)) \in Nat
      /\ Cardinality(CountedVoters(p)') \in Nat
  BY CountedMore, CountedMoreAfter
<1>. QED  BY <1>2, <1>3, <1>5, <1>6 DEF VotesBackedAt

LEMMA ElectedKept ==
  ASSUME ElectedByMajority, ballots \subseteq ballots', UNCHANGED elected
  PROVE  ElectedByMajority'
  BY DEF ElectedByMajority

-----------------------------------------------------------------------------
(* The steps that elect nobody and count nothing *)

LEMMA NothingMoved ==
  ASSUME ElectionInv,
         UNCHANGED <<role, currentTerm, votedFor, votesReceived, campaigning, voteReqs,
                     voteReps, ballots, elected>>
  PROVE  ElectionInv'
<1>1. BallotsRemembered' /\ OneVotePerTerm' /\ ElectedByMajority'
  BY DEF ElectionInv, BallotsRemembered, OneVotePerTerm, ElectedByMajority
<1>2. ElectionRpcsPast' /\ OneRpcPerPeer' /\ RepliesBacked'
  BY DEF ElectionInv, ElectionRpcsPast, Past, OneRpcPerPeer, RepliesBacked, Ballot
<1>3. VotesBacked'
  BY DEF ElectionInv, VotesBacked, CountedVoters, Pending, Ballot
<1>. QED  BY <1>1, <1>2, <1>3 DEF ElectionInv

\* One node moves on and no candidacy begins or grows.
LEMMA NodeMoved ==
  ASSUME TypeOK, ElectionInv, NEW n \in Server, NEW t \in Nat, NEW w \in Server \cup {Nil},
         NEW B, Moves(n, t, w, B), RpcsKept, UNCHANGED elected \/ ElectedByMajority',
         \A p \in Server : StillStands(p)
  PROVE  ElectionInv'
<1>1. ballots \subseteq ballots'
  BY DEF Moves
<1>2. BallotsRemembered' /\ OneVotePerTerm'
  BY VotesKept DEF ElectionInv
<1>3. VotesBacked'
  <2>1. \A p \in Server : VotesBackedAt(p)
    BY DEF ElectionInv, VotesBacked, VotesBackedAt
  <2>2. \A p \in Server : VotesBackedAt(p)'
    BY <1>1, <2>1, StandingKept DEF RpcsKept
  <2>. QED  BY <2>2 DEF VotesBacked, VotesBackedAt
<1>4. ElectedByMajority'
  BY <1>1, ElectedKept DEF ElectionInv
<1>. QED  BY <1>2, <1>3, <1>4 DEF ElectionInv, RpcsKept

\* A step of the RPCs alone.
LEMMA RpcMoved ==
  ASSUME TypeOK, ElectionInv, RpcsKept,
         UNCHANGED <<role, currentTerm, votedFor, votesReceived, campaigning, ballots, elected>>
  PROVE  ElectionInv'
<1>1. BallotsRemembered' /\ OneVotePerTerm'
  BY DEF ElectionInv, BallotsRemembered, OneVotePerTerm
<1>2. VotesBacked'
  <2>1. \A p \in Server : VotesBackedAt(p)
    BY DEF ElectionInv, VotesBacked, VotesBackedAt
  <2>2. \A p \in Server : StillStands(p)
    BY DEF StillStands
  <2>3. \A p \in Server : VotesBackedAt(p)'
    BY <2>1, <2>2, StandingKept DEF RpcsKept
  <2>. QED  BY <2>3 DEF VotesBacked, VotesBackedAt
<1>3. ElectedByMajority'
  BY ElectedKept DEF ElectionInv
<1>. QED  BY <1>1, <1>2, <1>3 DEF ElectionInv, RpcsKept

-----------------------------------------------------------------------------
(* Candidates and leaders *)

LEMMA TimeoutMoves ==
  ASSUME TypeOK, NEW n \in Server, TimesOut(n)
  PROVE  /\ currentTerm[n] + 1 \in Nat
         /\ Moves(n, currentTerm[n] + 1, n, {Ballot(n, currentTerm[n] + 1, n)})
<1>1. currentTerm[n] \in Nat
  BY DEF TypeOK
<1>2. n # Nil
  BY ServerAssumption
<1>. QED  BY <1>1, <1>2 DEF TimesOut, Moves, Ballot

LEMMA RpcsUntouched ==
  ASSUME TypeOK, ElectionInv, TermsAdvance, ballots \subseteq ballots',
         UNCHANGED <<voteReqs, voteReps>>
  PROVE  RpcsKept
  BY RpcsEnd DEF ElectionInv, RpcsOnlyEnd

\* A candidate begins with its own vote, and no RPC of its new term exists.
LEMMA ElectionTimeoutStep ==
  ASSUME TypeOK, ElectionInv, NEW n \in Server, ElectionTimeout(n)
  PROVE  ElectionInv'
<1>. DEFINE t == currentTerm[n] + 1
<1>1. /\ currentTerm' = [currentTerm EXCEPT ![n] = t]
      /\ votesReceived' = [votesReceived EXCEPT ![n] = 1]
      /\ ballots' = ballots \cup {Ballot(n, t, n)}
      /\ role' = [role EXCEPT ![n] = "CANDIDATE"]
      /\ campaigning' = [campaigning EXCEPT ![n] = TRUE]
      /\ UNCHANGED <<voteReqs, voteReps, elected>>
      /\ TimesOut(n)
  BY DEF ElectionTimeout, TimesOut, Ballot, voteMsgs, leaderHist
<1>2. /\ role \in [Server -> Role] /\ currentTerm \in [Server -> Nat]
      /\ votesReceived \in [Server -> Nat] /\ campaigning \in [Server -> BOOLEAN]
  BY DEF TypeOK
<1>3. t \in Nat /\ Moves(n, t, n, {Ballot(n, t, n)})
  BY <1>1, TimeoutMoves
<1>4. BallotsRemembered' /\ OneVotePerTerm'
  BY <1>3, VotesKept DEF ElectionInv
<1>5. TermsAdvance
  BY <1>1, <1>2 DEF TermsAdvance
<1>6. RpcsKept
  BY <1>1, <1>5, RpcsUntouched
<1>7. ASSUME NEW p \in Server PROVE VotesBackedAt(p)'
  <2>1. CASE p # n
    <3>1. StillStands(p)
      BY <1>1, <1>2, <2>1 DEF StillStands
    <3>2. VotesBackedAt(p)
      BY DEF ElectionInv, VotesBacked, VotesBackedAt
    <3>. QED  BY <1>1, <1>6, <3>1, <3>2, StandingKept DEF RpcsKept
  <2>2. CASE p = n
    <3>1. currentTerm'[n] = t /\ votesReceived'[n] = 1 /\ Ballot(n, t, n) \in ballots'
      BY <1>1, <1>2
    <3>2. ~Pending(n, n, currentTerm[n])'
      BY <1>6 DEF RpcsKept, ElectionRpcsPast, Pending
    <3>3. {n} \in SUBSET CountedVoters(n)'
      BY <3>1, <3>2 DEF CountedVoters
    <3>4. 1 <= Cardinality(CountedVoters(n)')
      BY <3>3, CountedMoreAfter, FS_Singleton
    <3>. QED  BY <2>2, <3>1, <3>4 DEF VotesBackedAt
  <2>. QED  BY <2>1, <2>2
<1>8. VotesBacked'
  BY <1>7 DEF VotesBacked, VotesBackedAt
<1>9. ElectedByMajority'
  BY <1>1, ElectedKept DEF ElectionInv
<1>. QED  BY <1>4, <1>6, <1>8, <1>9 DEF ElectionInv, RpcsKept

\* The new leader's majority is Q.
LEMMA Elected ==
  ASSUME ElectedByMajority, NEW n, NEW t, NEW Q \in SUBSET Server, Cardinality(Q) >= Majority,
         \A v \in Q : Ballot(v, t, n) \in ballots', ballots \subseteq ballots',
         elected' = elected \cup {[term |-> t, leader |-> n]}
  PROVE  ElectedByMajority'
<1>1. \A e \in elected' : e \in elected \/ (e.term = t /\ e.leader = n)
  OBVIOUS
<1>. QED  BY <1>1 DEF ElectedByMajority

\* A cluster of one: its own vote is the majority.
LEMMA ElectedAlone ==
  ASSUME ElectedByMajority, Majority <= 1, NEW n \in Server, NEW t,
         ballots' = ballots \cup {Ballot(n, t, n)},
         elected' = elected \cup {[term |-> t, leader |-> n]}
  PROVE  ElectedByMajority'
<1>1. Cardinality({n}) >= Majority
  BY FS_Singleton, FS_CardinalityType, ServerAssumption DEF Majority
<1>. QED  BY <1>1, Elected

LEMMA ElectSelfStep ==
  ASSUME TypeOK, ElectionInv, NEW n \in Server, ElectSelf(n)
  PROVE  ElectionInv'
<1>. DEFINE t == currentTerm[n] + 1
<1>1. /\ Majority <= 1
      /\ currentTerm' = [currentTerm EXCEPT ![n] = t]
      /\ votesReceived' = [votesReceived EXCEPT ![n] = 1]
      /\ ballots' = ballots \cup {Ballot(n, t, n)}
      /\ role' = [role EXCEPT ![n] = "LEADER"]
      /\ elected' = elected \cup {[term |-> t, leader |-> n]}
      /\ UNCHANGED <<campaigning, voteReqs, voteReps>>
      /\ TimesOut(n)
  BY DEF ElectSelf, TimesOut, BecomeLeader, Reigns, Ballot, voteMsgs
<1>2. /\ role \in [Server -> Role] /\ currentTerm \in [Server -> Nat]
      /\ votesReceived \in [Server -> Nat]
  BY DEF TypeOK
<1>3. t \in Nat /\ Moves(n, t, n, {Ballot(n, t, n)})
  BY <1>1, TimeoutMoves
<1>4. BallotsRemembered' /\ OneVotePerTerm'
  BY <1>3, VotesKept DEF ElectionInv
<1>5. TermsAdvance
  BY <1>1, <1>2 DEF TermsAdvance
<1>6. RpcsKept
  BY <1>1, <1>5, RpcsUntouched
<1>7. ASSUME NEW p \in Server PROVE VotesBackedAt(p)'
  <2>1. StillStands(p)
    BY <1>1, <1>2 DEF StillStands
  <2>2. VotesBackedAt(p)
    BY DEF ElectionInv, VotesBacked, VotesBackedAt
  <2>. QED  BY <1>1, <1>6, <2>1, <2>2, StandingKept DEF RpcsKept
<1>8. VotesBacked'
  BY <1>7 DEF VotesBacked, VotesBackedAt
<1>9. ElectedByMajority'
  BY <1>1, ElectedAlone DEF ElectionInv
<1>. QED  BY <1>4, <1>6, <1>8, <1>9 DEF ElectionInv, RpcsKept

\* The broadcast: the first RPCs of this candidate's term.
LEMMA BroadcastStep ==
  ASSUME TypeOK, ElectionInv, NEW n \in Server, BroadcastRequestVote(n)
  PROVE  ElectionInv'
<1>. DEFINE new == {VoteRequest(n, p) : p \in Peers(n)}
<1>1. /\ campaigning[n] /\ campaigning' = [campaigning EXCEPT ![n] = FALSE]
      /\ voteReqs' = voteReqs \cup new
      /\ UNCHANGED <<role, currentTerm, votedFor, votesReceived, voteReps, ballots, elected>>
  BY DEF BroadcastRequestVote, nodeVars, history, leaderHist
<1>2. /\ currentTerm \in [Server -> Nat] /\ campaigning \in [Server -> BOOLEAN]
      /\ votesReceived \in [Server -> Nat]
      /\ \A r \in voteReqs : r.from \in Server /\ r.to \in Server /\ r.term \in Nat
      /\ \A m \in voteReps : m.from \in Server /\ m.to \in Server /\ m.electionTerm \in Nat
  BY DEF TypeOK, VoteReqType, VoteRepType
<1>3. /\ \A r \in new : /\ r.from = n /\ r.to \in Server \ {n} /\ r.term = currentTerm[n]
                        /\ r.live
      /\ \A r, q \in new : r.to = q.to => r = q
  <2>1. ASSUME NEW p \in Server
        PROVE  /\ VoteRequest(n, p).from = n /\ VoteRequest(n, p).to = p
               /\ VoteRequest(n, p).term = currentTerm[n] /\ VoteRequest(n, p).live
    BY DEF VoteRequest
  <2>2. \A r \in new : \E p \in Server \ {n} : r = VoteRequest(n, p)
    BY DEF Peers
  <2>. HIDE DEF new
  <2>. QED  BY <2>1, <2>2
<1>4. /\ \A r \in voteReqs : r.from = n => r.term < currentTerm[n]
      /\ \A m \in voteReps : m.to = n => m.electionTerm < currentTerm[n]
  BY <1>1 DEF ElectionInv, ElectionRpcsPast, Past
<1>. HIDE DEF new
<1>5. /\ campaigning'[n] = FALSE
      /\ \A p \in Server \ {n} : campaigning'[p] = campaigning[p]
  BY <1>1, <1>2
<1>6. BallotsRemembered' /\ OneVotePerTerm' /\ RepliesBacked' /\ ElectedByMajority'
  BY <1>1 DEF ElectionInv, BallotsRemembered, OneVotePerTerm, RepliesBacked, ElectedByMajority
<1>7. ElectionRpcsPast'
  <2>1. ASSUME NEW p \in Server, NEW u \in Nat, Past(p, u) PROVE Past(p, u)'
    BY <1>1, <1>5, <2>1 DEF Past
  <2>2. ASSUME NEW r \in voteReqs' PROVE r.from # r.to /\ Past(r.from, r.term)'
    <3>1. CASE r \in voteReqs
      BY <1>2, <2>1, <3>1 DEF ElectionInv, ElectionRpcsPast
    <3>2. CASE r \in new
      BY <1>1, <1>2, <1>3, <1>5, <3>2 DEF Past
    <3>. QED  BY <1>1, <3>1, <3>2
  <2>3. ASSUME NEW m \in voteReps' PROVE m.from # m.to /\ Past(m.to, m.electionTerm)'
    BY <1>1, <1>2, <2>1 DEF ElectionInv, ElectionRpcsPast
  <2>. QED  BY <2>2, <2>3 DEF ElectionRpcsPast
<1>8. OneRpcPerPeer'
  <2>1. \A r, q \in voteReqs' : r.live /\ q.live /\ r.from = q.from /\ r.to = q.to
          /\ r.term = q.term => r = q
    BY <1>1, <1>2, <1>3, <1>4 DEF ElectionInv, OneRpcPerPeer
  <2>2. \A m, k \in voteReps' : m.to = k.to /\ m.from = k.from
          /\ m.electionTerm = k.electionTerm => m = k
    BY <1>1 DEF ElectionInv, OneRpcPerPeer
  <2>3. \A r \in voteReqs', m \in voteReps' :
          ~(r.live /\ r.from = m.to /\ r.to = m.from /\ r.term = m.electionTerm)
    BY <1>1, <1>2, <1>3, <1>4 DEF ElectionInv, OneRpcPerPeer
  <2>. QED  BY <2>1, <2>2, <2>3 DEF OneRpcPerPeer
<1>9. ASSUME NEW p \in Server, role'[p] = "CANDIDATE"
      PROVE  /\ Ballot(p, currentTerm'[p], p) \in ballots'
             /\ votesReceived'[p] <= Cardinality(CountedVoters(p)')
             /\ campaigning'[p] => votesReceived'[p] <= 1
  <2>1. /\ Ballot(p, currentTerm[p], p) \in ballots
        /\ votesReceived[p] <= Cardinality(CountedVoters(p))
        /\ campaigning[p] => votesReceived[p] <= 1
    BY <1>1, <1>9 DEF ElectionInv, VotesBacked
  <2>2. CASE p # n
    <3>1. ASSUME NEW v, Pending(p, v, currentTerm[p])' PROVE Pending(p, v, currentTerm[p])
      BY <1>1, <1>3, <2>2, <3>1 DEF Pending
    <3>2. CountedVoters(p) \in SUBSET CountedVoters(p)'
      BY <1>1, <3>1 DEF CountedVoters
    <3>3. Cardinality(CountedVoters(p)) <= Cardinality(CountedVoters(p)')
      BY <3>2, CountedMoreAfter
    <3>4. /\ votesReceived[p] \in Nat /\ Cardinality(CountedVoters(p)) \in Nat
          /\ Cardinality(CountedVoters(p)') \in Nat
      BY <1>2, CountedMore, CountedMoreAfter
    <3>. QED  BY <1>1, <1>5, <2>1, <2>2, <3>3, <3>4
  <2>3. CASE p = n
    <3>1. ~Pending(n, n, currentTerm[n])'
      BY <1>7 DEF ElectionRpcsPast, Pending
    <3>2. {n} \in SUBSET CountedVoters(n)'
      BY <1>1, <2>1, <2>3, <3>1 DEF CountedVoters
    <3>3. Cardinality(CountedVoters(n)') >= 1 /\ Cardinality(CountedVoters(n)') \in Nat
      BY <3>2, CountedMoreAfter, FS_Singleton
    <3>. QED  BY <1>1, <1>2, <2>1, <2>3, <3>3
  <2>. QED  BY <2>2, <2>3
<1>10. VotesBacked'
  BY <1>9 DEF VotesBacked
<1>. QED  BY <1>6, <1>7, <1>8, <1>10 DEF ElectionInv

\* A granted vote for the election m.to stands in: its voter was not counted.
LEMMA CountingVote ==
  ASSUME TypeOK, ElectionInv, NEW m \in voteReps, Counts(m)
  PROVE  LET n == m.to
             Q == CountedVoters(n) \cup {m.from}
         IN  /\ n \in Server /\ m.from \in Server /\ currentTerm[n] = m.electionTerm
             /\ role[n] = "CANDIDATE" /\ ~campaigning[n]
             /\ Q \subseteq Server /\ Cardinality(Q) \in Nat
             /\ votesReceived[n] + 1 <= Cardinality(Q)
             /\ \A v \in Q : Ballot(v, currentTerm[n], n) \in ballots
<1>. DEFINE n == m.to
            C == CountedVoters(n)
<1>1. /\ n \in Server /\ m.from \in Server /\ m.electionTerm \in Nat
      /\ currentTerm[n] \in Nat /\ votesReceived[n] \in Nat /\ campaigning[n] \in BOOLEAN
  BY DEF TypeOK, VoteRepType
<1>2. role[n] = "CANDIDATE" /\ currentTerm[n] = m.electionTerm /\ m.voteGranted
  BY DEF Counts, ElectionOpen
<1>3. ~campaigning[n]
  BY <1>1, <1>2 DEF ElectionInv, ElectionRpcsPast, Past
<1>4. votesReceived[n] <= Cardinality(C)
  BY <1>1, <1>2 DEF ElectionInv, VotesBacked
<1>5. m.from \notin C
  BY <1>2 DEF CountedVoters, Pending
<1>6. C \subseteq Server /\ \A v \in C : Ballot(v, currentTerm[n], n) \in ballots
  BY DEF CountedVoters
<1>7. Ballot(m.from, currentTerm[n], n) \in ballots
  BY <1>2 DEF ElectionInv, RepliesBacked
<1>8. IsFiniteSet(C) /\ Cardinality(C) \in Nat
  BY CountedMore
<1>. HIDE DEF C
<1>9. Cardinality(C \cup {m.from}) = Cardinality(C) + 1
  BY <1>5, <1>8, FS_AddElement
<1>10. votesReceived[n] + 1 <= Cardinality(C \cup {m.from}) /\ Cardinality(C \cup {m.from}) \in Nat
  BY <1>1, <1>4, <1>8, <1>9
<1>. QED  BY <1>1, <1>2, <1>3, <1>6, <1>7, <1>10 DEF C

\* A vote that is counted uses up the RPC of its voter.
LEMMA CountedStep ==
  ASSUME TypeOK, ElectionInv, NEW m \in voteReps, Counts(m),
         UNCHANGED <<currentTerm, votedFor, campaigning, voteReqs, ballots>>
  PROVE  /\ BallotsRemembered' /\ OneVotePerTerm' /\ RpcsKept
         /\ \A p \in Server \ {m.to} : role'[p] = role[p] => VotesBackedAt(p)'
         /\ votesReceived'[m.to] <= Cardinality(CountedVoters(m.to)')
<1>. DEFINE n == m.to
            Q == CountedVoters(n) \cup {m.from}
<1>1. /\ n \in Server /\ m.from \in Server /\ currentTerm[n] = m.electionTerm
      /\ Q \subseteq Server /\ Cardinality(Q) \in Nat
      /\ votesReceived[n] + 1 <= Cardinality(Q)
      /\ \A v \in Q : Ballot(v, currentTerm[n], n) \in ballots
  BY CountingVote
<1>2. votesReceived \in [Server -> Nat] /\ currentTerm \in [Server -> Nat]
  BY DEF TypeOK
<1>3. /\ votesReceived' = [votesReceived EXCEPT ![n] = @ + 1]
      /\ voteReps' = voteReps \ {m}
  BY DEF Counts, ReceiveVote
<1>4. BallotsRemembered' /\ OneVotePerTerm'
  BY DEF ElectionInv, BallotsRemembered, OneVotePerTerm
<1>5. RpcsKept
  <2>1. TermsAdvance /\ RpcsOnlyEnd
    BY <1>2, <1>3 DEF TermsAdvance, RpcsOnlyEnd
  <2>. QED  BY <2>1, RpcsEnd DEF ElectionInv
<1>6. ASSUME NEW p \in Server \ {n}, role'[p] = role[p] PROVE VotesBackedAt(p)'
  <2>1. VotesBackedAt(p)
    BY DEF ElectionInv, VotesBacked, VotesBackedAt
  <2>2. StillStands(p)
    BY <1>1, <1>2, <1>3, <1>6 DEF StillStands
  <2>. QED  BY <1>5, <2>1, <2>2, StandingKept DEF RpcsKept
<1>7. votesReceived'[n] <= Cardinality(CountedVoters(n)')
  <2>1. ~Pending(n, m.from, currentTerm[n])'
    BY <1>1, <1>3 DEF ElectionInv, OneRpcPerPeer, Pending
  <2>2. ASSUME NEW v \in Q PROVE ~Pending(n, v, currentTerm[n])'
    BY <1>1, <1>2, <1>5, <2>1 DEF CountedVoters, RpcsKept, PendingKept
  <2>3. Q \in SUBSET CountedVoters(n)'
    BY <1>1, <2>2 DEF CountedVoters
  <2>. HIDE DEF Q
  <2>4. Cardinality(Q) <= Cardinality(CountedVoters(n)') /\ Cardinality(CountedVoters(n)') \in Nat
    BY <2>3, CountedMoreAfter
  <2>5. votesReceived'[n] = votesReceived[n] + 1
    BY <1>1, <1>2, <1>3
  <2>. QED  BY <1>1, <1>2, <2>4, <2>5
<1>. QED  BY <1>4, <1>5, <1>6, <1>7

LEMMA VoteReplyCountedStep ==
  ASSUME TypeOK, ElectionInv, NEW m \in voteReps, VoteReplyCounted(m)
  PROVE  ElectionInv'
<1>1. /\ Counts(m)
      /\ UNCHANGED <<role, currentTerm, votedFor, campaigning, voteReqs, ballots, elected>>
  BY DEF VoteReplyCounted, nodeVars, history, leaderHist
<1>2. /\ BallotsRemembered' /\ OneVotePerTerm' /\ RpcsKept
      /\ \A p \in Server \ {m.to} : role'[p] = role[p] => VotesBackedAt(p)'
      /\ votesReceived'[m.to] <= Cardinality(CountedVoters(m.to)')
  BY <1>1, CountedStep
<1>3. VotesBackedAt(m.to)'
  <2>1. /\ m.to \in Server /\ role[m.to] = "CANDIDATE" /\ ~campaigning[m.to]
    BY <1>1, CountingVote
  <2>2. Ballot(m.to, currentTerm[m.to], m.to) \in ballots
    BY <2>1 DEF ElectionInv, VotesBacked
  <2>. QED  BY <1>1, <1>2, <2>1, <2>2 DEF VotesBackedAt
<1>4. VotesBacked'
  BY <1>1, <1>2, <1>3 DEF VotesBacked, VotesBackedAt
<1>5. ElectedByMajority'
  BY <1>1, ElectedKept DEF ElectionInv
<1>. QED  BY <1>2, <1>4, <1>5 DEF ElectionInv, RpcsKept

LEMMA VoteReplyWinsStep ==
  ASSUME TypeOK, ElectionInv, NEW m \in voteReps, VoteReplyWins(m)
  PROVE  ElectionInv'
<1>1. /\ Counts(m) /\ votesReceived[m.to] + 1 >= Majority
      /\ role' = [role EXCEPT ![m.to] = "LEADER"]
      /\ elected' = elected \cup {[term |-> currentTerm[m.to], leader |-> m.to]}
      /\ UNCHANGED <<currentTerm, votedFor, campaigning, voteReqs, ballots>>
  BY DEF VoteReplyWins, Wins, BecomeLeader, Reigns
<1>2. /\ BallotsRemembered' /\ OneVotePerTerm' /\ RpcsKept
      /\ \A p \in Server \ {m.to} : role'[p] = role[p] => VotesBackedAt(p)'
  BY <1>1, CountedStep
<1>3. role \in [Server -> Role] /\ m.to \in Server
  BY DEF TypeOK, VoteRepType
<1>4. VotesBackedAt(m.to)'
  BY <1>1, <1>3 DEF VotesBackedAt
<1>5. VotesBacked'
  BY <1>1, <1>2, <1>3, <1>4 DEF VotesBacked, VotesBackedAt
<1>6. ElectedByMajority'
  <2>. DEFINE Q == CountedVoters(m.to) \cup {m.from}
  <2>1. /\ Q \in SUBSET Server /\ Cardinality(Q) \in Nat
        /\ votesReceived[m.to] + 1 <= Cardinality(Q)
        /\ \A v \in Q : Ballot(v, currentTerm[m.to], m.to) \in ballots
    BY <1>1, CountingVote
  <2>. HIDE DEF Q
  <2>2. Majority \in Int /\ votesReceived[m.to] \in Nat
    BY <1>3, ServerAssumption, FS_CardinalityType, SMTT(30) DEF TypeOK, Majority
  <2>3. Cardinality(Q) >= Majority
    BY <1>1, <2>1, <2>2
  <2>. QED  BY <1>1, <2>1, <2>3, Elected DEF ElectionInv
<1>. QED  BY <1>2, <1>5, <1>6 DEF ElectionInv, RpcsKept

-----------------------------------------------------------------------------
(* Handlers of requests, of replies and of leaders' messages *)

LEMMA TermsOf ==
  ASSUME TypeOK, NEW n \in Server, NEW t \in Nat, t >= currentTerm[n],
         currentTerm' = [currentTerm EXCEPT ![n] = t],
         \A p \in Server : campaigning'[p] => campaigning[p]
  PROVE  TermsAdvance
  BY SMTT(30) DEF TypeOK, TermsAdvance

LEMMA RejectStaleStep ==
  ASSUME TypeOK, ElectionInv, NEW r \in voteReqs, RejectStaleVoteRequest(r)
  PROVE  ElectionInv'
<1>1. /\ voteReqs' = voteReqs \ {r}
      /\ voteReps' = voteReps \cup VoteReplies(r, currentTerm[r.to], FALSE)
      /\ UNCHANGED <<role, currentTerm, votedFor, votesReceived, campaigning, ballots, elected>>
  BY DEF RejectStaleVoteRequest, nodeVars, electVars, history, leaderHist
<1>2. currentTerm[r.to] \in Nat
  BY DEF TypeOK, VoteReqType
<1>3. TermsAdvance
  BY <1>1 DEF TypeOK, TermsAdvance
<1>4. RpcAnswered(r)
  BY <1>1, <1>2 DEF RpcAnswered
<1>5. RpcsKept
  BY <1>1, <1>3, <1>4, RpcsAnswered DEF ElectionInv
<1>. QED  BY <1>1, <1>5, RpcMoved

LEMMA HandleRequestVoteStep ==
  ASSUME TypeOK, ElectionInv, NEW r \in voteReqs, HandleRequestVote(r)
  PROVE  ElectionInv'
<1>. DEFINE v == r.to
            t == r.term
            g == Grants(r)
            w == IF g THEN r.from ELSE VoteInTerm(v, t)
            B == IF g THEN {Ballot(v, t, r.from)} ELSE {}
<1>1. /\ v \in Server /\ t \in Nat /\ r.from \in Server /\ currentTerm[v] \in Nat
      /\ votedFor[v] \in Server \cup {Nil} /\ r.from # Nil /\ g \in BOOLEAN
  BY ServerAssumption DEF TypeOK, VoteReqType, Grants, CanVote, LogUpToDate
<1>2. /\ t >= currentTerm[v]
      /\ currentTerm' = [currentTerm EXCEPT ![v] = t]
      /\ role' = [role EXCEPT ![v] = IF t > currentTerm[v] THEN "FOLLOWER" ELSE @]
      /\ votedFor' = [votedFor EXCEPT ![v] = w]
      /\ ballots' = ballots \cup B
      /\ voteReqs' = voteReqs \ {r}
      /\ voteReps' = voteReps \cup VoteReplies(r, t, g)
      /\ UNCHANGED <<votesReceived, campaigning, elected>>
  BY <1>1 DEF HandleRequestVote, AdoptTerm, Stale, electVars, leaderHist, Ballot
<1>3. w \in Server \cup {Nil} /\ Moves(v, t, w, B)
  <2>1. t = currentTerm[v] => votedFor[v] \in {Nil, w}
    BY <1>1 DEF Grants, CanVote, VoteInTerm
  <2>2. w \in Server \cup {Nil}
    BY <1>1 DEF VoteInTerm
  <2>. QED  BY <1>1, <1>2, <2>1, <2>2 DEF Moves
<1>. HIDE DEF v, t, g, w
<1>4. RpcsKept
  <2>1. TermsAdvance
    BY <1>1, <1>2, TermsOf
  <2>2. RpcAnswered(r)
    BY <1>1, <1>2 DEF RpcAnswered, v, t
  <2>. QED  BY <1>2, <2>1, <2>2, RpcsAnswered DEF ElectionInv
<1>5. \A p \in Server : StillStands(p)
  BY <1>1, <1>2, SMTT(30) DEF StillStands, TypeOK
<1>. QED  BY <1>1, <1>2, <1>3, <1>4, <1>5, NodeMoved

\* A node that leaves its term for t, or its candidacy, with no vote given.
LEMMA DemotedStep ==
  ASSUME TypeOK, ElectionInv, NEW n \in Server, NEW t \in Nat, t >= currentTerm[n],
         role' = [role EXCEPT ![n] = "FOLLOWER"],
         currentTerm' = [currentTerm EXCEPT ![n] = t],
         votedFor' = [votedFor EXCEPT ![n] = VoteInTerm(n, t)],
         voteReqs' = voteReqs, voteReps' \subseteq voteReps,
         UNCHANGED <<votesReceived, campaigning, ballots, elected>>
  PROVE  ElectionInv'
<1>. DEFINE w == VoteInTerm(n, t)
<1>1. votedFor[n] \in Server \cup {Nil} /\ currentTerm[n] \in Nat
  BY DEF TypeOK
<1>2. w \in Server \cup {Nil} /\ Moves(n, t, w, {})
  BY <1>1 DEF VoteInTerm, Moves
<1>3. RpcsKept
  <2>1. TermsAdvance
    BY TermsOf
  <2>2. RpcsOnlyEnd
    BY DEF RpcsOnlyEnd
  <2>. QED  BY <2>1, <2>2, RpcsEnd DEF ElectionInv
<1>4. \A p \in Server : StillStands(p)
  BY DEF StillStands, TypeOK
<1>. QED  BY <1>2, <1>3, <1>4, NodeMoved

LEMMA StepDownStep ==
  ASSUME TypeOK, ElectionInv, NEW n \in Server, NEW t \in Nat, t > currentTerm[n],
         StepDown(n, t), voteReqs' = voteReqs, voteReps' \subseteq voteReps,
         UNCHANGED <<votesReceived, campaigning, ballots, elected>>
  PROVE  ElectionInv'
<1>1. currentTerm[n] \in Nat /\ VoteInTerm(n, t) = Nil
  BY DEF TypeOK, VoteInTerm
<1>2. /\ role' = [role EXCEPT ![n] = "FOLLOWER"]
      /\ currentTerm' = [currentTerm EXCEPT ![n] = t]
      /\ votedFor' = [votedFor EXCEPT ![n] = VoteInTerm(n, t)]
  BY <1>1 DEF StepDown
<1>3. t >= currentTerm[n]
  BY <1>1
<1>. QED  BY <1>2, <1>3, DemotedStep

LEMMA RecogniseStep ==
  ASSUME TypeOK, ElectionInv, NEW r \in appendReqs, ~Stale(r), Recognise(r.to, r.term, r.from),
         UNCHANGED <<votesReceived, campaigning, voteReqs, voteReps, ballots, elected>>
  PROVE  ElectionInv'
<1>1. r.to \in Server /\ r.term \in Nat /\ currentTerm[r.to] \in Nat
  BY DEF TypeOK, AppendReqType
<1>2. /\ role' = [role EXCEPT ![r.to] = "FOLLOWER"]
      /\ currentTerm' = [currentTerm EXCEPT ![r.to] = r.term]
      /\ votedFor' = [votedFor EXCEPT ![r.to] = VoteInTerm(r.to, r.term)]
  BY DEF Recognise
<1>3. r.term >= currentTerm[r.to]
  BY <1>1 DEF Stale
<1>. QED  BY <1>1, <1>2, <1>3, DemotedStep

-----------------------------------------------------------------------------
(* Every step *)

LEMMA ElectionStep ==
  ASSUME TypeOK, ElectionInv, Election
  PROVE  ElectionInv'
<1>1. ASSUME NEW n \in Server, ElectionTimeout(n) \/ ElectSelf(n) \/ BroadcastRequestVote(n)
      PROVE  ElectionInv'
  BY <1>1, ElectionTimeoutStep, ElectSelfStep, BroadcastStep
<1>2. ASSUME NEW r \in voteReqs, RejectStaleVoteRequest(r) \/ HandleRequestVote(r)
      PROVE  ElectionInv'
  BY <1>2, RejectStaleStep, HandleRequestVoteStep
<1>3. ASSUME NEW m \in voteReps, VoteReplyHigherTerm(m) PROVE ElectionInv'
  <2>1. m.to \in Server /\ m.term \in Nat
    BY DEF TypeOK, VoteRepType
  <2>2. /\ m.term > currentTerm[m.to] /\ StepDown(m.to, m.term)
        /\ voteReqs' = voteReqs /\ voteReps' \subseteq voteReps
        /\ UNCHANGED <<votesReceived, campaigning, ballots, elected>>
    BY <1>3 DEF VoteReplyHigherTerm, ReceiveVote, electVars, history, leaderHist
  <2>. QED  BY <2>1, <2>2, StepDownStep
<1>4. ASSUME NEW m \in voteReps, VoteReplyIgnored(m) PROVE ElectionInv'
  <2>1. /\ voteReqs' = voteReqs /\ voteReps' \subseteq voteReps
        /\ UNCHANGED <<role, currentTerm, votedFor, votesReceived, campaigning, ballots, elected>>
    BY <1>4 DEF VoteReplyIgnored, ReceiveVote, nodeVars, electVars, history, leaderHist
  <2>2. TermsAdvance /\ RpcsOnlyEnd
    BY <2>1 DEF TypeOK, TermsAdvance, RpcsOnlyEnd
  <2>3. RpcsKept
    BY <2>1, <2>2, RpcsEnd DEF ElectionInv
  <2>. QED  BY <2>1, <2>3, RpcMoved
<1>5. ASSUME NEW m \in voteReps, VoteReplyCounted(m) \/ VoteReplyWins(m) PROVE ElectionInv'
  BY <1>5, VoteReplyCountedStep, VoteReplyWinsStep
<1>. QED  BY <1>1, <1>2, <1>3, <1>4, <1>5 DEF Election

LEMMA ReplicationStep ==
  ASSUME TypeOK, ElectionInv, Replication
  PROVE  ElectionInv'
<1>. USE DEF nodeVars, electVars, voteMsgs, history, leaderHist
<1>1. ASSUME NEW n \in Server, NEW p \in Peers(n), SendAppendEntries(n, p) PROVE ElectionInv'
  BY <1>1, NothingMoved DEF SendAppendEntries
<1>2. ASSUME NEW r \in appendReqs, RpcFails(r) \/ RejectStaleAppend(r) PROVE ElectionInv'
  BY <1>2, NothingMoved DEF RpcFails, RejectStaleAppend
<1>3. ASSUME NEW r \in appendReqs, RejectMismatch(r) \/ AcceptAppend(r) PROVE ElectionInv'
  <2>1. /\ ~Stale(r) /\ Recognise(r.to, r.term, r.from)
        /\ UNCHANGED <<votesReceived, campaigning, voteReqs, voteReps, ballots, elected>>
    BY <1>3 DEF RejectMismatch, AcceptAppend
  <2>. QED  BY <2>1, RecogniseStep
<1>4. ASSUME NEW m \in appendReps, LoseAppendReply(m) \/ AppendReplyIgnored(m)
                                   \/ AppendReplySuccess(m) \/ AppendReplyFailure(m)
      PROVE  ElectionInv'
  BY <1>4, NothingMoved
     DEF LoseAppendReply, AppendReplyIgnored, AppendReplySuccess, AppendReplyFailure
<1>5. ASSUME NEW m \in appendReps, AppendReplyHigherTerm(m) PROVE ElectionInv'
  <2>1. m.to \in Server /\ m.term \in Nat
    BY DEF TypeOK, AppendRepType
  <2>2. /\ m.term > currentTerm[m.to] /\ StepDown(m.to, m.term)
        /\ UNCHANGED <<votesReceived, campaigning, voteReqs, voteReps, ballots, elected>>
    BY <1>5 DEF AppendReplyHigherTerm
  <2>. QED  BY <2>1, <2>2, StepDownStep
<1>. QED  BY <1>1, <1>2, <1>3, <1>4, <1>5 DEF Replication

LEMMA ClientStep ==
  ASSUME ElectionInv, Client
  PROVE  ElectionInv'
  BY NothingMoved DEF Client, Propose, ProposalOk, ProposalFails, nodeVars, electVars,
     voteMsgs, history, leaderHist

\* A node comes back in its term with its vote, or in a later term.
LEMMA CrashStep ==
  ASSUME TypeOK, DurableState, ElectionInv, ~MetaTearing, Failure
  PROVE  ElectionInv'
<1>. PICK n \in Server, d \in DiskType : CrashLeaves(n, d)
  BY CrashImage
<1>. DEFINE t == d.currentTerm
            w == d.votedFor
<1>1. /\ t \in Nat /\ w \in Server \cup {Nil} /\ currentTerm[n] \in Nat
      /\ votedFor[n] \in Server \cup {Nil} /\ n # Nil
  BY ServerAssumption DEF DiskType, TypeOK
<1>2. /\ role' = [role EXCEPT ![n] = "FOLLOWER"]
      /\ currentTerm' = [currentTerm EXCEPT ![n] = t]
      /\ votedFor' = [votedFor EXCEPT ![n] = w]
      /\ votesReceived' = [votesReceived EXCEPT ![n] = 0]
      /\ campaigning' = [campaigning EXCEPT ![n] = FALSE]
      /\ voteReps' \subseteq voteReps
  BY DEF CrashLeaves, Recover
<1>3. \A p \in Server : StillStands(p)
  BY <1>2 DEF StillStands, TypeOK
<1>4. voteReqs' \subseteq Disown(voteReqs, n) \/ voteReqs' = voteReqs
  BY DEF CrashLeaves
<1>5. RpcsOnlyEnd
  <2>1. ASSUME NEW r \in Disown(voteReqs, n)
        PROVE  \E q \in voteReqs :
                 r.from = q.from /\ r.to = q.to /\ r.term = q.term /\ (r.live => r = q)
    <3>1. PICK q \in voteReqs : r = IF q.from = n THEN [q EXCEPT !.live = FALSE] ELSE q
      BY DEF Disown
    <3>2. q \in VoteReqType
      BY DEF TypeOK
    <3>3. r.from = q.from /\ r.to = q.to /\ r.term = q.term /\ (r.live => r = q)
      BY <3>1, <3>2 DEF VoteReqType
    <3>. QED  BY <3>3
  <2>. QED  BY <1>2, <1>4, <2>1 DEF RpcsOnlyEnd
<1>6. \A p \in Server : campaigning'[p] => campaigning[p]
  BY <1>2 DEF TypeOK
<1>7. CASE UNCHANGED <<ballots, elected>> /\ Keeps(n, d)
  <2>1. Moves(n, t, w, {})
    BY <1>1, <1>2, <1>7 DEF Moves, Keeps
  <2>2. TermsAdvance
    <3>1. t >= currentTerm[n]
      BY <1>1, <1>7 DEF Keeps
    <3>. HIDE DEF t
    <3>. QED  BY <1>1, <1>2, <1>6, <3>1, TermsOf
  <2>3. RpcsKept
    BY <1>5, <1>7, <2>2, RpcsEnd DEF ElectionInv
  <2>. QED  BY <1>1, <1>2, <1>3, <1>7, <2>1, <2>3, NodeMoved
<1>8. CASE /\ Majority <= 1 /\ t = currentTerm[n] + 1 /\ w = n
           /\ ballots' = ballots \cup {Ballot(n, t, n)}
           /\ elected' = elected \/ elected' = elected \cup {[term |-> t, leader |-> n]}
  <2>1. Moves(n, t, w, {Ballot(n, t, n)})
    BY <1>1, <1>2, <1>8 DEF Moves
  <2>2. TermsAdvance
    <3>1. t >= currentTerm[n]
      BY <1>1, <1>8
    <3>. HIDE DEF t
    <3>. QED  BY <1>1, <1>2, <1>6, <3>1, TermsOf
  <2>3. RpcsKept
    BY <1>5, <1>8, <2>2, RpcsEnd DEF ElectionInv
  <2>4. UNCHANGED elected \/ ElectedByMajority'
    BY <1>8, ElectedAlone DEF ElectionInv
  <2>. QED  BY <1>1, <1>2, <1>3, <2>1, <2>3, <2>4, NodeMoved
<1>. QED  BY <1>7, <1>8 DEF CrashLeaves, Ballot

LEMMA ElectionInit == Init => ElectionInv
<1>1. ASSUME Init
      PROVE  /\ ballots = {} /\ elected = {} /\ voteReqs = {} /\ voteReps = {}
             /\ \A p \in Server : role[p] = "FOLLOWER"
  BY <1>1 DEF Init
<1>. QED  BY <1>1 DEF ElectionInv, BallotsRemembered, OneVotePerTerm, ElectionRpcsPast,
              OneRpcPerPeer, RepliesBacked, VotesBacked, ElectedByMajority

\* Votes are remembered across elections, messages and crashes, given once and
\* counted once: the invariant that makes the election of server.cpp work.
THEOREM ElectionInvariant == ~MetaTearing => (Spec => []ElectionInv)
<1>. SUFFICES ASSUME ~MetaTearing PROVE Spec => []ElectionInv
  OBVIOUS
<1>1. TypeOK /\ DurableState /\ ElectionInv /\ [Next]_vars => ElectionInv'
  <2>1. ASSUME TypeOK, DurableState, ElectionInv, Next PROVE ElectionInv'
    BY <2>1, ElectionStep, ReplicationStep, ClientStep, CrashStep DEF Next
  <2>2. ASSUME ElectionInv, UNCHANGED vars PROVE ElectionInv'
    BY <2>2, NothingMoved DEF vars, nodeVars, electVars, voteMsgs, history, leaderHist
  <2>. QED  BY <2>1, <2>2
<1>. QED  BY <1>1, ElectionInit, TypeCorrect, Durable, PTL DEF Spec

\* No node votes for two candidates of one term, whatever it was told, timed out
\* on or restarted from in between (handleRequestVote, electionTimerLoop).
THEOREM VotesOnce == ~MetaTearing => (Spec => []OneVotePerTerm)
<1>1. ElectionInv => OneVotePerTerm
  BY DEF ElectionInv
<1>. QED  BY <1>1, ElectionInvariant, PTL

\* Two majorities share a voter, which gave one vote.
LEMMA MajoritiesElectOne ==
  ASSUME OneVotePerTerm, ElectedByMajority
  PROVE  ElectionSafety
<1>. SUFFICES ASSUME NEW a \in elected, NEW b \in elected, a.term = b.term
              PROVE  a.leader = b.leader
  BY DEF ElectionSafety
<1>1. PICK Q \in SUBSET Server :
        Cardinality(Q) >= Majority /\ \A v \in Q : Ballot(v, a.term, a.leader) \in ballots
  BY DEF ElectedByMajority
<1>2. PICK R \in SUBSET Server :
        Cardinality(R) >= Majority /\ \A v \in R : Ballot(v, b.term, b.leader) \in ballots
  BY DEF ElectedByMajority
<1>3. /\ Cardinality(Server) \in Nat /\ Cardinality(Q) \in Nat /\ Cardinality(R) \in Nat
  BY ServerAssumption, FS_Subset, FS_CardinalityType
<1>4. Cardinality(Q) + Cardinality(R) > Cardinality(Server)
  BY <1>1, <1>2, <1>3 DEF Majority
<1>5. PICK v \in Server : v \in Q /\ v \in R
  BY <1>4, ServerAssumption, FS_MajoritiesIntersect
<1>6. Ballot(v, a.term, a.leader) \in ballots /\ Ballot(v, a.term, b.leader) \in ballots
  BY <1>1, <1>2, <1>5
<1>. QED  BY <1>6 DEF OneVotePerTerm, Ballot

\* At most one leader a term: a majority of votes, each given once.
THEOREM AtMostOneLeader == ~MetaTearing => (Spec => []ElectionSafety)
<1>1. ElectionInv => ElectionSafety
  BY MajoritiesElectOne DEF ElectionInv
<1>. QED  BY <1>1, ElectionInvariant, PTL
=============================================================================
