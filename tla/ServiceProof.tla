------------------------------ MODULE ServiceProof ------------------------------
(***************************************************************************)
(* What clients of the cluster see, for every set of servers and every     *)
(* bound, on the assumption that metadata.bin is never found truncated: a  *)
(* read that is answered in the term of its marker sees the writes         *)
(* answered before it, and the cluster implements the replicated log.      *)
(***************************************************************************)
EXTENDS RaftService, SafetyProof

-----------------------------------------------------------------------------
(* A step of the service is a step of Raft *)

LEMMA StepsOfRaft == ServiceNext => Next
<1>. SUFFICES ASSUME ServiceNext PROVE Next
  OBVIOUS
<1>1. ASSUME NEW n \in Server, ReadBegins(n) PROVE Next
  BY <1>1, MarkerAssumption DEF ReadBegins, Next, Client
<1>2. ASSUME NEW r \in reading, ReadAnswered(r) PROVE Next
  BY <1>2 DEF ReadAnswered, ProposalOk, Next, Client
<1>3. ASSUME WriteOrFail PROVE Next
  BY <1>3 DEF WriteOrFail, Next, Client
<1>. QED  BY <1>1, <1>2, <1>3 DEF ServiceNext, Next

\* The service adds to a cluster of Raft what its clients remember, and changes
\* nothing in it: a read goes the way of a write.
THEOREM ServiceIsRaft == ServiceSpec => Spec
<1>1. ServiceInit => Init
  BY DEF ServiceInit
<1>2. [ServiceNext]_serviceVars => [Next]_vars
  BY StepsOfRaft DEF serviceVars
<1>. QED  BY <1>1, <1>2, PTL DEF ServiceSpec, Spec

-----------------------------------------------------------------------------
(* Reads *)

\* Answers are not taken back.
LEMMA AnswersKept ==
  ASSUME Next
  PROVE  acked \subseteq acked'
<1>. USE DEF clientVars
<1>1. CASE Election
  BY <1>1
     DEF Election, ElectionTimeout, ElectSelf, BroadcastRequestVote, RejectStaleVoteRequest,
         HandleRequestVote, VoteReplyHigherTerm, VoteReplyIgnored, VoteReplyCounted, VoteReplyWins
<1>2. CASE Replication
  BY <1>2
     DEF Replication, SendAppendEntries, RpcFails, RejectStaleAppend, RejectMismatch, AcceptAppend,
         LoseAppendReply, AppendReplyHigherTerm, AppendReplyIgnored, AppendReplySuccess,
         AppendReplyFailure
<1>3. CASE Client
  BY <1>3 DEF Client, Propose, ProposalOk, ProposalFails
<1>4. ASSUME NEW n, NEW d, Recover(n, d) PROVE acked \subseteq acked'
  BY <1>4 DEF Recover
<1>5. CASE Failure
  BY <1>4, <1>5
     DEF Failure, Crash, CrashInElectSelf, CrashInUpdateMetaData, CrashInPropose,
         CrashInRequestVote, CrashInAppendEntries
<1>. QED  BY <1>1, <1>2, <1>3, <1>5 DEF Next

\* A majority that has left a term never takes anything of it again.
LEMMA OvertakenStays ==
  ASSUME TypeOK, TypeOK', Later, NEW i \in Nat, NEW t \in Nat, Overtaken(i, t)
  PROVE  Overtaken(i, t)'
<1>1. PICK Q \in Quorums : \A v \in Q :
        currentTerm[v] > t /\ \A a \in acks : a.node = v /\ a.term = t => a.index < i
  BY DEF Overtaken
<1>2. ASSUME NEW v \in Q
      PROVE  currentTerm'[v] > t /\ \A a \in acks' : a.node = v /\ a.term = t => a.index < i
  <2>1. v \in Server
    BY DEF Quorums
  <2>2. currentTerm[v] \in Nat /\ currentTerm'[v] \in Nat /\ currentTerm'[v] >= currentTerm[v]
    BY <2>1, NodeTypes DEF Later, TermsRise
  <2>3. currentTerm[v] > t /\ \A a \in acks : a.node = v /\ a.term = t => a.index < i
    BY <1>1
  <2>4. ASSUME NEW a \in acks', a.node = v, a.term = t PROVE a.index < i
    <3>1. a.index \in Nat /\ a = Ack(v, t, a.index)
      BY <2>4 DEF TypeOK, Ack
    <3>2. Ack(v, t, a.index) \in acks \/ t >= currentTerm[v]
      BY <2>1, <2>4, <3>1 DEF Later, AcksGrow
    <3>3. a \in acks
      BY <2>2, <2>3, <3>1, <3>2
    <3>. QED  BY <2>3, <2>4, <3>3
  <2>. QED  BY <2>2, <2>3, <2>4
<1>. QED  BY <1>2 DEF Overtaken, Quorums

\* What nobody has yet of a term when a later term has had its election.
LEMMA LateEntryOvertaken ==
  ASSUME TypeOK, LogInv, AcksHeld, BallotsRemembered, ElectedByMajority,
         NEW t \in DOMAIN termLog, NEW u \in DOMAIN termLog, t < u
  PROVE  Overtaken(Len(termLog[t]) + 1, t)
<1>1. PICK e \in elected : e.term = u
  BY DEF LogInv, Reigned
<1>2. PICK Q \in SUBSET Server :
        Cardinality(Q) >= Majority /\ \A v \in Q : Ballot(v, e.term, e.leader) \in ballots
  BY DEF ElectedByMajority
<1>3. t \in Nat /\ u \in Nat /\ Len(termLog[t]) \in Nat
  BY LogTypes DEF LogsType
<1>4. ASSUME NEW v \in Q PROVE currentTerm[v] > t
  <2>1. Ballot(v, u, e.leader) \in ballots /\ Ballot(v, u, e.leader).voter = v
        /\ Ballot(v, u, e.leader).term = u
    BY <1>1, <1>2 DEF Ballot
  <2>2. u <= currentTerm[v]
    BY <2>1 DEF BallotsRemembered
  <2>3. currentTerm[v] \in Nat
    BY DEF TypeOK
  <2>. QED  BY <1>3, <2>2, <2>3
<1>5. ASSUME NEW a \in acks, a.term = t PROVE a.index < Len(termLog[t]) + 1
  <2>1. a.index \in 1..Len(termLog[t])
    BY <1>5 DEF AcksHeld, Held
  <2>. QED  BY <1>3, <2>1
<1>. QED  BY <1>2, <1>4, <1>5 DEF Overtaken, Quorums

LEMMA ComesAfterStays ==
  ASSUME TypeOK, TypeOK', Later, NEW w, w.index \in Nat, w.term \in Nat, NEW a, ComesAfter(w, a)
  PROVE  ComesAfter(w, a)'
  BY OvertakenStays DEF ComesAfter

\* The entry of a marker, once the leader has written it.
LEMMA MarkerWritten ==
  ASSUME TypeOK, LogInv, NEW n \in Server, Propose(n, NoOp)
  PROVE  /\ Proposal(n, NoOp).term = currentTerm[n]
         /\ Proposal(n, NoOp).index = Len(log[n]) + 1
         /\ currentTerm[n] \in DOMAIN termLog'
         /\ Has(termLog'[currentTerm[n]], Len(log[n]) + 1, currentTerm[n])
<1>. DEFINE t == currentTerm[n]
            l == Extended(n, t, NoOp)
            e == Entry(t, Len(log[n]) + 1, NoOp)
<1>1. t \in Nat /\ log[n] \in Seq(EntryType) /\ NoOp \in Command
  BY DEF TypeOK, Command
<1>2. l = Append(log[n], e) /\ e \in EntryType /\ LastIndex(l) = Len(log[n]) + 1 /\ e.term = t
  BY <1>1, ExtendedFacts DEF Entry
<1>3. t \in DOMAIN termLog' /\ termLog'[t] = l
  BY DEF Propose, LeaderWrites
<1>4. Proposal(n, NoOp).term = t /\ Proposal(n, NoOp).index = LastIndex(l)
  BY DEF Proposal
<1>. HIDE DEF l, e
<1>5. Len(l) = Len(log[n]) + 1 /\ l[Len(log[n]) + 1] = e /\ Len(log[n]) \in Nat
  BY <1>1, <1>2, AppendAgrees
<1>6. Has(l, Len(log[n]) + 1, t)
  BY <1>2, <1>5 DEF Has
<1>. QED  BY <1>2, <1>3, <1>4, <1>6

\* A read that begins has its marker behind what it must see, or will not be
\* answered in this term.
LEMMA MarkerComesAfter ==
  ASSUME TypeOK, LogInv, CommitInv, ElectionInv, AnswersInv, NEW n \in Server,
         role[n] = "LEADER", NEW a \in acked, InTerm(a), NEW w,
         w.term = currentTerm[n], w.index = Len(log[n]) + 1
  PROVE  ComesAfter(w, a)
<1>. DEFINE t == currentTerm[n]
<1>1. t \in Nat /\ t \in DOMAIN termLog /\ log[n] = termLog[t] /\ Len(log[n]) \in Nat
  BY LeaderFacts, LogTypes
<1>2. /\ a.term \in DOMAIN termLog /\ a.term \in Nat /\ a.index \in Nat
      /\ termLog[a.term] \in Seq(EntryType)
      /\ Settled(termLog[a.term], a.index, a.term, termLog, acks)
  BY ClientTypes, LogTypes DEF AnswersInv, AnswerSettled, OnRecord, InTerm, LogsType
<1>3. CASE a.term <= t
  <2>1. AgreeUpTo(termLog[a.term], termLog[t], a.index)
    BY <1>1, <1>2, <1>3, SettledLater DEF CommitInv
  <2>2. a.index <= Len(log[n])
    BY <1>1, <2>1 DEF AgreeUpTo
  <2>. QED  BY <1>1, <1>2, <1>3, <2>2 DEF ComesAfter
<1>4. CASE ~(a.term <= t)
  <2>1. t < a.term
    BY <1>1, <1>2, <1>4
  <2>2. Overtaken(Len(termLog[t]) + 1, t)
    BY <1>1, <1>2, <2>1, LateEntryOvertaken DEF CommitInv, ElectionInv
  <2>. QED  BY <1>1, <1>4, <2>2 DEF ComesAfter
<1>. QED  BY <1>3, <1>4

\* What is remembered of a read.
ReadKept(r) ==
  LET w == r.marker
  IN  /\ w \in ProposalType /\ r.known \subseteq acked
      /\ w.term \in DOMAIN termLog /\ Has(termLog[w.term], w.index, w.term)
      /\ \A a \in r.known : InTerm(a) => ComesAfter(w, a)

LEMMA ReadStays ==
  ASSUME TypeOK, TypeOK', Later, acked \subseteq acked', NEW r, ReadKept(r)
  PROVE  ReadKept(r)'
<1>. DEFINE w == r.marker
<1>1. /\ w \in ProposalType /\ r.known \subseteq acked
      /\ w.term \in DOMAIN termLog /\ Has(termLog[w.term], w.index, w.term)
      /\ \A a \in r.known : InTerm(a) => ComesAfter(w, a)
  BY DEF ReadKept
<1>2. w.index \in Nat /\ w.term \in Nat
  BY <1>1 DEF ProposalType
<1>3. w.term \in DOMAIN termLog' /\ Has(termLog'[w.term], w.index, w.term)
  <2>1. w.index \in 1..Len(termLog[w.term])
    BY <1>1 DEF Has
  <2>. QED  BY <1>1, <2>1, HasGrows DEF Later
<1>4. ASSUME NEW a \in r.known, InTerm(a) PROVE ComesAfter(w, a)'
  BY <1>1, <1>2, <1>4, ComesAfterStays
<1>. HIDE DEF w
<1>5. \A a \in r.known : InTerm(a) => ComesAfter(w, a)'
  BY <1>4
<1>. QED  BY <1>1, <1>3, <1>5 DEF ReadKept, w

LEMMA ReadStarts ==
  ASSUME TypeOK, TypeOK', LogInv, CommitInv, ElectionInv, AnswersInv, Later,
         NEW n \in Server, Propose(n, NoOp), NEW w \in waiting' \ waiting,
         NEW r, r.marker = w, r.known = acked
  PROVE  ReadKept(r)'
<1>2. w = Proposal(n, NoOp) /\ role[n] = "LEADER" /\ acked' = acked
  BY DEF Propose, Proposal
<1>3. /\ w.term = currentTerm[n] /\ w.index = Len(log[n]) + 1
      /\ w.term \in DOMAIN termLog' /\ Has(termLog'[w.term], w.index, w.term)
  BY <1>2, MarkerWritten
<1>4. w \in ProposalType
  BY DEF TypeOK
<1>5. w.index \in Nat /\ w.term \in Nat
  BY <1>4 DEF ProposalType
<1>6. ASSUME NEW a \in acked, InTerm(a) PROVE ComesAfter(w, a)'
  <2>1. ComesAfter(w, a)
    BY <1>2, <1>3, <1>6, MarkerComesAfter
  <2>. QED  BY <1>5, <2>1, ComesAfterStays
<1>. QED  BY <1>2, <1>3, <1>4, <1>6 DEF ReadKept, InTerm

LEMMA ReadsStep ==
  ASSUME TypeOK, TypeOK', LogInv, CommitInv, ElectionInv, AnswersInv, Later, ReadsInv, ServiceNext
  PROVE  ReadsInv'
<1>1. acked \subseteq acked'
  BY StepsOfRaft, AnswersKept
<1>2. ASSUME NEW r \in reading PROVE ReadKept(r)'
  <2>1. ReadKept(r)
    BY DEF ReadsInv, ReadKept
  <2>. QED  BY <1>1, <2>1, ReadStays
<1>3. ASSUME NEW r \in reading' PROVE ReadKept(r)'
  <2>1. ASSUME NEW n \in Server, ReadBegins(n) PROVE ReadKept(r)'
    <3>1. Propose(n, NoOp)
      BY <2>1 DEF ReadBegins
    <3>2. CASE r \in reading
      BY <1>2, <3>2
    <3>3. CASE r \notin reading
      <4>1. PICK w \in waiting' \ waiting : r = [marker |-> w, known |-> acked]
        BY <2>1, <3>3 DEF ReadBegins
      <4>2. r.marker = w /\ r.known = acked
        BY <4>1
      <4>. QED  BY <3>1, <4>2, ReadStarts
    <3>. QED  BY <3>2, <3>3
  <2>2. ASSUME NEW q \in reading, ReadAnswered(q) PROVE ReadKept(r)'
    BY <1>2, <2>2 DEF ReadAnswered, ReadEnds
  <2>. QED  BY <1>2, <2>1, <2>2 DEF ServiceNext
<1>. QED  BY <1>3 DEF ReadsInv, ReadKept

\* A read waits for a marker behind everything that was answered in its term or
\* before, and one that later leaders have left behind is not answered in its
\* term (server.cpp:588, the marker of handleGet).
THEOREM ReadsAreBacked == ~MetaTearing => (ServiceSpec => []ReadsInv)
<1>. SUFFICES ASSUME ~MetaTearing PROVE ServiceSpec => []ReadsInv
  OBVIOUS
<1>1. ServiceInit => ReadsInv
  BY DEF ServiceInit, ReadsInv
<1>2. /\ TypeOK /\ TypeOK' /\ DurableState /\ ElectionInv /\ ElectionSafety' /\ LogInv
      /\ CommitInv /\ AnswersInv /\ ReadsInv /\ [ServiceNext]_serviceVars
      => ReadsInv'
  <2>1. ASSUME TypeOK, TypeOK', DurableState, ElectionInv, ElectionSafety', LogInv,
               CommitInv, AnswersInv, ReadsInv, ServiceNext
        PROVE  ReadsInv'
    <3>1. CommitsWithin
      BY <2>1, CommitsAreWithin DEF CommitInv
    <3>2. Later
      BY <2>1, <3>1, StepsOfRaft, StepsShaped, LaterStep
    <3>. QED  BY <2>1, <3>2, ReadsStep
  <2>2. ASSUME ReadsInv, UNCHANGED serviceVars PROVE ReadsInv'
    <3>1. UNCHANGED <<reading, acked, termLog, acks, currentTerm>>
      BY <2>2 DEF serviceVars, vars, nodeVars, clientVars, history, leaderHist
    <3>. QED  BY <2>2, <3>1 DEF ReadsInv, ComesAfter, Overtaken, InTerm
  <2>. QED  BY <2>1, <2>2
<1>. QED  BY <1>1, <1>2, ServiceIsRaft, TypeCorrect, Durable, ElectionInvariant, AtMostOneLeader,
             LogInvariant, CommitInvariant, AnswersAreBacked, PTL DEF ServiceSpec

\* What a leader has committed in its own term no majority has left behind.
LEMMA CommittedNotOvertaken ==
  ASSUME TypeOK, LogInv, CommitsSettled, NEW n \in Server, role[n] = "LEADER",
         NEW i \in Nat, Has(log[n], i, currentTerm[n]), i <= commitIndex[n]
  PROVE  ~Overtaken(i, currentTerm[n])
<1>. DEFINE t == currentTerm[n]
            c == commitIndex[n]
<1>1. t \in Nat /\ c \in Nat /\ i \in 1..Len(log[n]) /\ log[n][i].term = t
  BY LeaderFacts DEF Has, TypeOK
<1>2. Settled(log[n], c, t, termLog, acks)
  BY DEF CommitsSettled
<1>3. PICK u \in DOMAIN termLog : \E k \in 1..Len(termLog[u]) :
        /\ u <= t /\ c <= k /\ termLog[u][k].term = u /\ Chosen(k, u, acks)
        /\ AgreeUpTo(log[n], termLog[u], c)
  BY <1>1, <1>2 DEF Settled
<1>4. PICK k \in 1..Len(termLog[u]) :
        /\ u <= t /\ c <= k /\ termLog[u][k].term = u /\ Chosen(k, u, acks)
        /\ AgreeUpTo(log[n], termLog[u], c)
  BY <1>3
<1>5. u \in Nat /\ Len(termLog[u]) \in Nat
  BY LogTypes DEF LogsType
<1>6. i \in 1..c /\ i \in 1..Len(termLog[u]) /\ i <= k
  BY <1>1, <1>4, <1>5
<1>7. termLog[u][i].term = t
  BY <1>1, <1>4, <1>6 DEF AgreeUpTo
<1>8. termLog[u][i].term <= termLog[u][k].term
  BY <1>6 DEF LogInv, TermLogs, WellFormed
<1>9. u = t
  BY <1>1, <1>4, <1>5, <1>7, <1>8
<1>10. PICK Q \in Quorums : \A v \in Q : Ack(v, t, k) \in acks
  BY <1>4, <1>9 DEF Chosen
<1>11. ASSUME NEW R \in Quorums, \A v \in R : \A a \in acks : a.node = v /\ a.term = t => a.index < i
       PROVE  FALSE
  <2>1. PICK v \in Server : v \in Q /\ v \in R
    BY MajoritiesMeet
  <2>2. /\ Ack(v, t, k) \in acks /\ Ack(v, t, k).node = v /\ Ack(v, t, k).term = t
        /\ Ack(v, t, k).index = k
    BY <1>10, <2>1 DEF Ack
  <2>3. k < i
    BY <1>11, <2>1, <2>2
  <2>. QED  BY <1>5, <1>6, <2>3
<1>. QED  BY <1>11 DEF Overtaken

\* The state out of which a read is answered in the term of its marker.
LEMMA ReadSees ==
  ASSUME TypeOK, LogInv, CommitInv, AppliedIsCommitted, AckedInTermDurable, AnswersInv,
         NEW r, ReadKept(r), SeenCommitted(r.marker), r.marker \in waiting,
         currentTerm[r.marker.node] = r.marker.term,
         NEW a \in r.known, InTerm(a)
  PROVE  Len(applied[r.marker.node]) >= a.index /\ applied[r.marker.node][a.index] = a.cmd
<1>. DEFINE w == r.marker
            n == w.node
            c == commitIndex[n]
<1>1. /\ n \in Server /\ w.index \in Nat /\ w.term \in Nat /\ w.index <= c
      /\ role[n] = "LEADER" /\ c \in Nat /\ log[n] \in Seq(EntryType)
  BY ClientTypes DEF SeenCommitted, TypeOK
<1>2. /\ a \in acked /\ ComesAfter(w, a)
      /\ w.term \in DOMAIN termLog /\ Has(termLog[w.term], w.index, w.term)
  BY DEF ReadKept
<1>3. Len(applied[n]) = c
  <2>1. c <= Len(log[n])
    BY <1>1, CommitsAreWithin DEF CommitInv, CommitsWithin
  <2>2. applied[n] = Commands(SubSeq(log[n], 1, c))
    BY <1>1 DEF AppliedIsCommitted, Committed
  <2>. HIDE DEF c, n
  <2>. QED  BY <1>1, <2>1, <2>2, PrefixCommands
<1>4. Has(log[n], w.index, currentTerm[n])
  BY <1>1, <1>2, LeaderFacts
<1>5. ~Overtaken(w.index, w.term)
  BY <1>1, <1>4, CommittedNotOvertaken DEF CommitInv
<1>6. a.index < w.index
  BY <1>2, <1>5 DEF ComesAfter
<1>7. a.index \in Nat
  BY <1>2, ClientTypes
<1>8. a.index <= c
  BY <1>1, <1>6, <1>7
<1>9. applied[n][a.index] = a.cmd
  BY <1>1, <1>2, <1>3, <1>8 DEF AckedInTermDurable, DurableAt, InTerm
<1>. QED  BY <1>3, <1>8, <1>9

LEMMA ReadsInTermStep ==
  ASSUME TypeOK, LogInv, CommitInv, AppliedIsCommitted, AckedInTermDurable, AnswersInv,
         ReadsInv, ReadsInTerm, ServiceNext
  PROVE  ReadsInTerm'
<1>1. ASSUME NEW q \in reading, ReadAnswered(q), NEW r \in readings', r \notin readings,
             InTerm(r.marker), NEW a \in r.known, InTerm(a)
      PROVE  Len(r.state) >= a.index /\ r.state[a.index] = a.cmd
  <2>1. r = [marker |-> Answer(q.marker), known |-> q.known, state |-> applied[q.marker.node]]
    BY <1>1 DEF ReadAnswered, ReadEnds
  <2>2. r.known = q.known /\ r.state = applied[q.marker.node] /\ r.marker = Answer(q.marker)
    BY <2>1
  <2>3. currentTerm[q.marker.node] = q.marker.term
    BY <1>1, <2>2 DEF InTerm, Answer
  <2>4. q.marker \in waiting /\ SeenCommitted(q.marker)
    BY <1>1 DEF ReadAnswered, ProposalOk
  <2>5. ReadKept(q)
    BY DEF ReadsInv, ReadKept
  <2>. QED  BY <1>1, <2>2, <2>3, <2>4, <2>5, ReadSees
<1>2. ASSUME NEW r \in readings', r \notin readings, InTerm(r.marker), NEW a \in r.known, InTerm(a)
      PROVE  Len(r.state) >= a.index /\ r.state[a.index] = a.cmd
  <2>1. PICK q \in reading : ReadAnswered(q)
    BY <1>2 DEF ServiceNext, ReadBegins
  <2>. QED  BY <1>1, <1>2, <2>1
<1>. QED  BY <1>2 DEF ReadsInTerm, SawKnown, InTerm

\* A read that is answered in the term of its marker is linearizable: the state
\* it is answered from has every write answered before it began, by whichever
\* leader in its own term (server.cpp:588).
THEOREM ReadsAreLinearizable == ~MetaTearing => (ServiceSpec => []ReadsInTerm)
<1>. SUFFICES ASSUME ~MetaTearing PROVE ServiceSpec => []ReadsInTerm
  OBVIOUS
<1>1. ServiceInit => ReadsInTerm
  BY DEF ServiceInit, ReadsInTerm
<1>2. /\ TypeOK /\ LogInv /\ CommitInv /\ AppliedIsCommitted /\ AckedInTermDurable
      /\ AnswersInv /\ ReadsInv /\ ReadsInTerm /\ [ServiceNext]_serviceVars
      => ReadsInTerm'
  <2>1. ASSUME ReadsInTerm, UNCHANGED serviceVars PROVE ReadsInTerm'
    BY <2>1 DEF ReadsInTerm, SawKnown, InTerm, serviceVars
  <2>. QED  BY <2>1, ReadsInTermStep
<1>. QED  BY <1>1, <1>2, ServiceIsRaft, TypeCorrect, LogInvariant, CommitInvariant,
             AppliedAsCommitted, AnswersAreDurable, AnswersAreBacked, ReadsAreBacked, PTL
          DEF ServiceSpec

-----------------------------------------------------------------------------
(* The replicated log *)

\* Prefixes, also those that ReplicatedLog speaks of.
LEMMA PrefixOrder ==
  ASSUME NEW S, NEW s \in Seq(S), NEW t \in Seq(S)
  PROVE  /\ IsPrefix(s, s) /\ (IsPrefix(s, t) => Len(s) <= Len(t))
         /\ (IsPrefix(s, t) /\ Len(t) <= Len(s) => s = t)
         /\ (Service!IsPrefix(s, t) <=> IsPrefix(s, t))
         /\ (Service!IsStrictPrefix(s, t) <=> IsPrefix(s, t) /\ s # t)
<1>1. Len(s) \in Nat /\ Len(t) \in Nat /\ SubSeq(s, 1, Len(s)) = s /\ SubSeq(t, 1, Len(t)) = t
  OBVIOUS
<1>. QED  BY <1>1 DEF IsPrefix, Service!IsPrefix, Service!IsStrictPrefix

LEMMA PrefixHas ==
  ASSUME NEW S, NEW s \in Seq(S), NEW t \in Seq(S), IsPrefix(s, t), NEW i \in 1..Len(s)
  PROVE  i \in 1..Len(t) /\ t[i] = s[i]
<1>1. Len(s) <= Len(t) /\ SubSeq(s, 1, Len(s)) = SubSeq(t, 1, Len(s))
  BY DEF IsPrefix
<1>2. SubSeq(s, 1, Len(s))[i] = s[i] /\ SubSeq(t, 1, Len(s))[i] = t[i]
  BY <1>1
<1>. QED  BY <1>1, <1>2

\* Of finitely many nodes one has applied the most.
LEMMA SomeLongest ==
  ASSUME TypeOK
  PROVE  /\ Longest \in Server
         /\ \A p \in Server : Len(applied[p]) <= Len(applied[Longest])
<1>. DEFINE Beyond(n) == {p \in Server : Len(applied[p]) > Len(applied[n])}
            S == {Cardinality(Beyond(n)) : n \in Server}
<1>1. ASSUME NEW n \in Server
      PROVE  IsFiniteSet(Beyond(n)) /\ Cardinality(Beyond(n)) \in Nat
  <2>1. Beyond(n) \in SUBSET Server
    OBVIOUS
  <2>. HIDE DEF Beyond
  <2>. QED  BY <2>1, ServerAssumption, FS_Subset, FS_CardinalityType
<1>2. S \in SUBSET Nat /\ S # {}
  BY <1>1, ServerAssumption
<1>3. PICK n \in Server : \A p \in Server : Cardinality(Beyond(n)) <= Cardinality(Beyond(p))
  <2>1. \A p \in Server : Cardinality(Beyond(p)) \in S
    OBVIOUS
  <2>. HIDE DEF Beyond
  <2>2. Min(S) \in S
    <3>. HIDE DEF S
    <3>. QED  BY <1>2, MinNat
  <2>3. \A k \in S : Min(S) <= k
    <3>. HIDE DEF S
    <3>. QED  BY <1>2, MinNat
  <2>4. PICK n \in Server : Cardinality(Beyond(n)) = Min(S)
    BY <2>2
  <2>5. \A p \in Server : Min(S) <= Cardinality(Beyond(p))
    BY <2>1, <2>3
  <2>. QED  BY <2>4, <2>5
<1>5. ASSUME NEW p \in Server PROVE Len(applied[p]) <= Len(applied[n])
  <2>0. \A q \in Server : Len(applied[q]) \in Nat
    BY DEF TypeOK
  <2>. SUFFICES ASSUME Len(applied[p]) > Len(applied[n]) PROVE FALSE
    BY <2>0
  <2>1. Beyond(p) \in SUBSET Beyond(n)
    BY <2>0
  <2>2. p \in Beyond(n) /\ p \notin Beyond(p)
    BY <2>0
  <2>. HIDE DEF Beyond
  <2>3. Cardinality(Beyond(p)) <= Cardinality(Beyond(n)) /\ Beyond(p) # Beyond(n)
    BY <1>1, <2>1, <2>2, FS_Subset
  <2>4. Cardinality(Beyond(p)) = Cardinality(Beyond(n))
    BY <1>1, <1>3, <2>3
  <2>. QED  BY <1>1, <2>1, <2>3, <2>4, FS_Subset
<1>. HIDE DEF S, Beyond
<1>. QED  BY <1>5 DEF Longest

\* The longest of the applied sequences goes on from each of them, and whoever
\* has applied as much has the same.
LongestHolds ==
  /\ applied[Longest] \in Seq(Command)
  /\ \A p \in Server : IsPrefix(applied[p], applied[Longest])
  /\ \A q \in Server : (\A p \in Server : Len(applied[p]) <= Len(applied[q]))
       => applied[q] = applied[Longest]

LEMMA LongestFacts == TypeOK /\ StateMachineSafety => LongestHolds
<1>. SUFFICES ASSUME TypeOK, StateMachineSafety PROVE LongestHolds
  OBVIOUS
<1>1. \A p \in Server : applied[p] \in Seq(Command)
  BY DEF TypeOK
<1>2. Longest \in Server /\ \A p \in Server : Len(applied[p]) <= Len(applied[Longest])
  BY SomeLongest
<1>3. ASSUME NEW p \in Server PROVE IsPrefix(applied[p], applied[Longest])
  <2>1. IsPrefix(applied[p], applied[Longest]) \/ IsPrefix(applied[Longest], applied[p])
    BY <1>2 DEF StateMachineSafety
  <2>. QED  BY <1>1, <1>2, <2>1, PrefixOrder
<1>4. ASSUME NEW q \in Server, \A p \in Server : Len(applied[p]) <= Len(applied[q])
      PROVE  applied[q] = applied[Longest]
  <2>1. IsPrefix(applied[q], applied[Longest]) /\ Len(applied[Longest]) <= Len(applied[q])
    BY <1>2, <1>3, <1>4
  <2>. QED  BY <1>1, <1>2, <2>1, PrefixOrder
<1>. QED  BY <1>1, <1>2, <1>3, <1>4 DEF LongestHolds

LEMMA LongestFactsAfter == TypeOK' /\ StateMachineSafety' => LongestHolds'
  BY LongestFacts, PTL

\* A step of Raft gives commands to at most one state machine, or tells a client.
OneApplied == \E n \in Server : applied' = [applied EXCEPT ![n] = applied'[n]]
OneAnswered == \E w \in waiting :
  SeenCommitted(w) /\ acked' = acked \cup {Answer(w)} /\ applied' = applied
OneMoves == (OneApplied /\ acked' = acked) \/ OneAnswered

LEMMA MachinesRest ==
  ASSUME TypeOK, UNCHANGED <<applied, acked>>
  PROVE  OneMoves
<1>1. PICK n \in Server : TRUE
  BY ServerAssumption
<1>2. applied \in [Server -> Seq(Command)]
  BY DEF TypeOK
<1>. QED  BY <1>1, <1>2 DEF OneApplied, OneMoves

LEMMA MachineMoves ==
  ASSUME TypeOK, NEW n \in Server, NEW a, applied' = [applied EXCEPT ![n] = a]
  PROVE  OneApplied
<1>1. applied'[n] = a
  BY DEF TypeOK
<1>. QED  BY <1>1 DEF OneApplied

LEMMA LeaderMoves ==
  ASSUME TypeOK, NEW n \in Server, NEW l, NEW match, NEW t, NEW d, CommitAsLeader(n, l, match, t, d)
  PROVE  OneApplied
  BY MachineMoves DEF CommitAsLeader

LEMMA StepsMove ==
  ASSUME TypeOK, Next
  PROVE  OneMoves
<1>. USE DEF clientVars, logVars
<1>1. CASE Election
  <2>1. ASSUME NEW n \in Server, ElectSelf(n) PROVE OneMoves
    BY <2>1, LeaderMoves DEF ElectSelf, BecomeLeader, OneMoves
  <2>2. ASSUME NEW m \in voteReps, VoteReplyWins(m) PROVE OneMoves
    <3>1. m.to \in Server
      BY DEF TypeOK, VoteRepType
    <3>. QED  BY <2>2, <3>1, LeaderMoves DEF VoteReplyWins, BecomeLeader, OneMoves
  <2>. QED  BY <1>1, <2>1, <2>2, MachinesRest
            DEF Election, ElectionTimeout, BroadcastRequestVote, RejectStaleVoteRequest,
                HandleRequestVote, VoteReplyHigherTerm, VoteReplyIgnored, VoteReplyCounted
<1>2. CASE Replication
  <2>1. ASSUME NEW r \in appendReqs, AcceptAppend(r) PROVE OneMoves
    <3>1. r.to \in Server
      BY LogTypes
    <3>2. acked' = acked
      BY <2>1 DEF AcceptAppend
    <3>. DEFINE l == Reconcile(log[r.to], r.entries)
                c == FollowerCommit(r, l, commitIndex[r.to])
    <3>3. applied' = [applied EXCEPT ![r.to] = ApplyCommitted(@, l, c)]
      BY <2>1 DEF AcceptAppend
    <3>. HIDE DEF l, c
    <3>. QED  BY <3>1, <3>2, <3>3, MachineMoves DEF OneMoves
  <2>2. ASSUME NEW m \in appendReps, AppendReplySuccess(m) PROVE OneMoves
    <3>1. m.to \in Server
      BY LogTypes
    <3>. QED  BY <2>2, <3>1, LeaderMoves DEF AppendReplySuccess, OneMoves
  <2>. QED  BY <1>2, <2>1, <2>2, MachinesRest
            DEF Replication, SendAppendEntries, RpcFails, RejectStaleAppend, RejectMismatch,
                LoseAppendReply, AppendReplyHigherTerm, AppendReplyIgnored, AppendReplyFailure
<1>3. CASE Client
  <2>1. ASSUME NEW n \in Server, NEW v \in Value, Propose(n, v) PROVE OneMoves
    BY <2>1, LeaderMoves DEF Propose, OneMoves
  <2>2. ASSUME NEW w \in waiting, ProposalOk(w) PROVE OneMoves
    BY <2>2 DEF ProposalOk, OneMoves, OneAnswered
  <2>. QED  BY <1>3, <2>1, <2>2, MachinesRest DEF Client, ProposalFails
<1>4. ASSUME NEW n \in Server, NEW d, Recover(n, d) PROVE OneMoves
  <2>1. acked' = acked
    BY <1>4 DEF Recover
  <2>. DEFINE a == Replay(d.log, Min({d.commitIndex, Len(d.log)}))
  <2>2. applied' = [applied EXCEPT ![n] = a]
    BY <1>4 DEF Recover
  <2>. HIDE DEF a
  <2>. QED  BY <2>1, <2>2, MachineMoves DEF OneMoves
<1>5. CASE Failure
  <2>1. \A r \in voteReqs : r.to \in Server
    BY DEF TypeOK, VoteReqType
  <2>2. \A r \in appendReqs : r.to \in Server
    BY LogTypes
  <2>. QED  BY <1>4, <1>5, <2>1, <2>2
            DEF Failure, Crash, CrashInElectSelf, CrashInUpdateMetaData, CrashInPropose,
                CrashInRequestVote, CrashInAppendEntries
<1>. QED  BY <1>1, <1>2, <1>3, <1>5 DEF Next

\* No state machine goes back, a restarted one included.
LEMMA MachinesGrow ==
  ASSUME TypeOK, TypeOK', CommitsWithin', \A n \in Server : NodeCommits(n),
         AppliedIsCommitted, AppliedIsCommitted', NEW n \in Server
  PROVE  IsPrefix(applied[n], applied'[n])
<1>1. /\ commitIndex[n] \in Nat /\ commitIndex'[n] \in Nat
      /\ log[n] \in Seq(EntryType) /\ log'[n] \in Seq(EntryType)
  BY NodeTypes
<1>2. commitIndex'[n] <= Len(log'[n])
  BY DEF CommitsWithin
<1>3. AgreeUpTo(log'[n], log[n], commitIndex[n]) /\ commitIndex[n] <= commitIndex'[n]
  BY DEF NodeCommits
<1>4. AgreeUpTo(log[n], log'[n], commitIndex[n])
  BY <1>1, <1>3, AgreeFacts
<1>5. /\ applied[n] = Commands(SubSeq(log[n], 1, commitIndex[n]))
      /\ applied'[n] = Commands(SubSeq(log'[n], 1, commitIndex'[n]))
  BY DEF AppliedIsCommitted, Committed
<1>. QED  BY <1>1, <1>2, <1>3, <1>4, <1>5, CommandsPrefix

\* When one of some machines moves on, the longest of them stays or is that one.
OnlyMoves(n, a, b) == \A p \in Server \ {n} : b[p] = a[p]
IsLongest(a, d) ==
  /\ \A p \in Server : IsPrefix(a[p], d)
  /\ \A q \in Server : (\A p \in Server : Len(a[p]) <= Len(a[q])) => a[q] = d
GoesOn(n, a, b, c, d) ==
  \/ a = b /\ d = c
  \/ a[n] # b[n] /\ IsPrefix(b[n], c) /\ d = c
  \/ a[n] # b[n] /\ IsPrefix(c, b[n]) /\ c # b[n] /\ d = b[n]

LEMMA LongestMoves ==
  ASSUME NEW a \in [Server -> Seq(Command)], NEW b \in [Server -> Seq(Command)],
         NEW n \in Server, NEW k \in Server, NEW d \in Seq(Command),
         OnlyMoves(n, a, b), IsPrefix(a[n], b[n]), IsLongest(a, a[k]), IsLongest(b, d)
  PROVE  GoesOn(n, a, b, a[k], d)
<1>1. \A p \in Server : a[p] \in Seq(Command) /\ b[p] \in Seq(Command)
                        /\ Len(a[p]) \in Nat /\ Len(b[p]) \in Nat
  OBVIOUS
<1>2. \A p \in Server : Len(a[p]) <= Len(a[k]) /\ Len(b[p]) <= Len(d)
  BY <1>1, PrefixOrder DEF IsLongest
<1>3. \A p \in Server \ {n} : b[p] = a[p]
  BY DEF OnlyMoves
<1>4. CASE a[n] = b[n]
  <2>1. a = b
    BY <1>3, <1>4
  <2>2. \A p \in Server : Len(b[p]) <= Len(b[k])
    BY <1>2, <2>1
  <2>. QED  BY <2>1, <2>2 DEF IsLongest, GoesOn
<1>5. CASE a[n] # b[n] /\ Len(b[n]) <= Len(a[k])
  <2>1. k # n
    BY <1>1, <1>5, PrefixOrder
  <2>2. \A p \in Server : Len(b[p]) <= Len(b[k])
    <3>1. b[k] = a[k] /\ \A p \in Server \ {n} : Len(b[p]) = Len(a[p])
      BY <1>3, <2>1
    <3>2. \A p \in Server \ {n} : Len(b[p]) <= Len(a[k])
      BY <1>2, <3>1
    <3>. QED  BY <1>5, <3>1, <3>2
  <2>3. d = a[k]
    BY <1>3, <2>1, <2>2 DEF IsLongest
  <2>. QED  BY <1>5, <2>3 DEF IsLongest, GoesOn
<1>6. CASE a[n] # b[n] /\ ~(Len(b[n]) <= Len(a[k]))
  <2>1. \A p \in Server : Len(b[p]) <= Len(b[n])
    <3>1. \A p \in Server \ {n} : Len(b[p]) <= Len(a[k])
      BY <1>2, <1>3
    <3>2. \A p \in Server \ {n} : Len(b[p]) <= Len(b[n])
      BY <1>1, <1>6, <3>1
    <3>. QED  BY <1>1, <3>2
  <2>2. d = b[n]
    BY <2>1 DEF IsLongest
  <2>3. IsPrefix(a[k], b[n])
    BY <1>3, <1>6, <2>2 DEF IsLongest
  <2>4. a[k] # b[n]
    BY <1>1, <1>6
  <2>. QED  BY <1>6, <2>2, <2>3, <2>4 DEF GoesOn
<1>. QED  BY <1>4, <1>5, <1>6

\* Answers given in the term of their entry, as the replicated log knows them.
ToldInTerm == {[index |-> a.index, cmd |-> a.cmd] : a \in {b \in acked : InTerm(b)}}

LEMMA AppliesToLog ==
  ASSUME TypeOK, TypeOK', LongestHolds, LongestHolds', OneApplied, acked' = acked,
         \A n \in Server : IsPrefix(applied[n], applied'[n])
  PROVE  [Service!Next]_(Service!vars)
<1>1. applied \in [Server -> Seq(Command)] /\ applied' \in [Server -> Seq(Command)]
  BY DEF TypeOK
<1>2. PICK n \in Server : applied' = [applied EXCEPT ![n] = applied'[n]]
  BY DEF OneApplied
<1>3. PICK k \in Server : k = Longest
  BY SomeLongest
<1>4. PICK d \in Seq(Command) : d = (applied[Longest])'
  BY DEF LongestHolds
<1>5. IsLongest(applied, applied[k]) /\ IsLongest(applied', d)
  BY <1>3, <1>4 DEF LongestHolds, IsLongest
<1>6. \/ applied = applied' /\ d = applied[k]
      \/ /\ applied[n] # applied'[n]
         /\ \/ IsPrefix(applied'[n], applied[k]) /\ d = applied[k]
            \/ IsPrefix(applied[k], applied'[n]) /\ applied[k] # applied'[n] /\ d = applied'[n]
  <2>1. PICK a \in [Server -> Seq(Command)] : a = applied
    BY <1>1
  <2>2. PICK b \in [Server -> Seq(Command)] : b = applied'
    BY <1>1
  <2>3. /\ OnlyMoves(n, a, b) /\ IsPrefix(a[n], b[n])
        /\ IsLongest(a, a[k]) /\ IsLongest(b, d)
    BY <1>1, <1>2, <1>5, <2>1, <2>2 DEF OnlyMoves
  <2>4. GoesOn(n, a, b, a[k], d)
    BY <2>3, LongestMoves
  <2>. QED  BY <2>1, <2>2, <2>4 DEF GoesOn
<1>7. ToldInTerm' = ToldInTerm
  BY DEF ToldInTerm, InTerm
<1>8. CASE applied = applied' /\ d = applied[k]
  BY <1>3, <1>4, <1>7, <1>8 DEF Service!vars, ToldInTerm
<1>9. CASE /\ applied[n] # applied'[n]
           /\ \/ IsPrefix(applied'[n], applied[k]) /\ d = applied[k]
              \/ IsPrefix(applied[k], applied'[n]) /\ applied[k] # applied'[n] /\ d = applied'[n]
  <2>1. applied[k] \in Seq(Command) /\ applied[n] \in Seq(Command) /\ applied'[n] \in Seq(Command)
    BY <1>1
  <2>2. /\ Service!IsStrictPrefix(applied[n], applied'[n])
        /\ Service!IsPrefix(applied'[n], applied[k]) <=> IsPrefix(applied'[n], applied[k])
        /\ Service!IsStrictPrefix(applied[k], applied'[n])
             <=> IsPrefix(applied[k], applied'[n]) /\ applied[k] # applied'[n]
    BY <1>9, <2>1, PrefixOrder
  <2>3. Service!Apply(n, applied'[n])
    BY <1>2, <1>3, <1>4, <1>7, <1>9, <2>2 DEF Service!Apply, ToldInTerm
  <2>. QED  BY <2>3 DEF Service!Next
<1>. QED  BY <1>6, <1>8, <1>9

LEMMA AnswersFromLog ==
  ASSUME TypeOK, TypeOK', LongestHolds, LongestHolds', AppliedIsCommitted, CommitsWithin, AnswersInv,
         AckedInTermDurable', OneAnswered
  PROVE  [Service!Next]_(Service!vars)
<1>1. PICK w \in waiting :
        SeenCommitted(w) /\ acked' = acked \cup {Answer(w)} /\ applied' = applied
  BY DEF OneAnswered
<1>2. PICK n \in Server : n = w.node
  BY ClientTypes
<1>3. PICK i \in Nat : i = w.index
  BY ClientTypes
<1>4. (applied[Longest])' = applied[Longest]
  <2>1. PICK k \in Server : k = Longest
    BY SomeLongest
  <2>2. \A p \in Server : Len(applied[p]) <= Len(applied[k])
    BY <2>1, SomeLongest
  <2>3. applied'[k] = (applied[Longest])'
    BY <1>1, <2>2 DEF LongestHolds
  <2>. QED  BY <1>1, <2>1, <2>3
<1>5. CASE ~InTerm(Answer(w))
  <2>1. ToldInTerm' = ToldInTerm
    BY <1>1, <1>5 DEF ToldInTerm, InTerm
  <2>. QED  BY <1>1, <1>4, <2>1 DEF Service!vars, ToldInTerm
<1>6. CASE InTerm(Answer(w))
  <2>. DEFINE a == Answer(w)
  <2>1. a \in acked' /\ a.index = i /\ a.cmd = w.cmd /\ a.ackTerm = a.term
    BY <1>1, <1>3, <1>6 DEF InTerm, Answer
  <2>. HIDE DEF a
  <2>2. commitIndex[n] >= i /\ i >= 1
    <3>1. i \in 1..Len(termLog[w.term])
      BY <1>3 DEF AnswersInv, OnRecord
    <3>. QED  BY <1>1, <1>2, <1>3, <3>1 DEF SeenCommitted
  <2>3. applied[n] \in Seq(Command) /\ Len(applied[n]) = commitIndex[n] /\ commitIndex[n] \in Nat
    <3>1. log[n] \in Seq(EntryType) /\ commitIndex[n] \in Nat /\ commitIndex[n] <= Len(log[n])
      BY DEF TypeOK, CommitsWithin
    <3>2. applied[n] = Commands(SubSeq(log[n], 1, commitIndex[n]))
      BY DEF AppliedIsCommitted, Committed
    <3>. QED  BY <3>1, <3>2, PrefixCommands
  <2>4. applied[n][i] = w.cmd
    <3>1. \A p \in Server : Len(applied'[p]) >= a.index => applied'[p][a.index] = a.cmd
      BY <2>1 DEF AckedInTermDurable, DurableAt
    <3>. QED  BY <1>1, <2>1, <2>2, <2>3, <3>1
  <2>5. PICK c \in Seq(Command) : c = applied[Longest] /\ IsPrefix(applied[n], c)
    BY DEF LongestHolds
  <2>6. i \in 1..Len(c) /\ c[i] = w.cmd
    <3>1. PICK s \in Seq(Command) : s = applied[n]
      BY <2>3
    <3>2. IsPrefix(s, c) /\ Len(s) \in Nat /\ i \in 1..Len(s) /\ s[i] = w.cmd
      BY <2>2, <2>3, <2>4, <2>5, <3>1
    <3>. QED  BY <3>2, PrefixHas
  <2>7. ToldInTerm' = ToldInTerm \cup {[index |-> i, cmd |-> w.cmd]}
    BY <1>1, <2>1, <1>6 DEF ToldInTerm, InTerm, a
  <2>8. Service!AnswerAt(i)
    BY <1>1, <1>4, <2>5, <2>6, <2>7 DEF Service!AnswerAt, ToldInTerm
  <2>9. i \in DOMAIN applied[Longest]
    BY <2>5, <2>6
  <2>. QED  BY <2>8, <2>9 DEF Service!Next
<1>. QED  BY <1>5, <1>6

LEMMA StepsOfLog ==
  ASSUME TypeOK, TypeOK', DurableState, ElectionInv, ElectionInv', ElectionSafety', LogInv, LogInv',
         CommitInv, CommitInv', AppliedIsCommitted, AppliedIsCommitted', AnswersInv,
         AckedInTermDurable', StateMachineSafety, StateMachineSafety', ~MetaTearing, Next
  PROVE  [Service!Next]_(Service!vars)
<1>1. LongestHolds /\ LongestHolds'
  BY LongestFacts, LongestFactsAfter
<1>2. CommitsWithin /\ CommitsWithin'
  BY CommitsAreWithin, CommitsAreWithinAfter DEF CommitInv
<1>3. \A n \in Server : NodeCommits(n)
  BY CommitInvStep
<1>4. \A n \in Server : IsPrefix(applied[n], applied'[n])
  BY <1>2, <1>3, MachinesGrow
<1>5. OneMoves
  BY StepsMove
<1>. QED  BY <1>1, <1>2, <1>4, <1>5, AppliesToLog, AnswersFromLog DEF OneMoves

LEMMA RestsOfLog ==
  ASSUME TypeOK, LongestHolds, LongestHolds', UNCHANGED vars
  PROVE  [Service!Next]_(Service!vars)
<1>1. applied' = applied /\ acked' = acked
  BY DEF vars, logVars, clientVars
<1>2. PICK k \in Server : k = Longest
  BY SomeLongest
<1>3. \A p \in Server : Len(applied[p]) <= Len(applied[k])
  BY <1>2, SomeLongest
<1>4. applied'[k] = (applied[Longest])'
  BY <1>1, <1>3 DEF LongestHolds
<1>5. ToldInTerm' = ToldInTerm
  BY <1>1 DEF ToldInTerm, InTerm
<1>. QED  BY <1>1, <1>2, <1>4, <1>5 DEF Service!vars, ToldInTerm

LEMMA LogStarts == Init /\ TypeOK => Service!Init
<1>. SUFFICES ASSUME Init, TypeOK PROVE Service!Init
  OBVIOUS
<1>1. applied = [n \in Server |-> <<>>] /\ acked = {}
  BY DEF Init
<1>2. Longest \in Server
  BY SomeLongest
<1>. QED  BY <1>1, <1>2 DEF Service!Init

\* The cluster is a replicated log: one sequence of commands that only grows, of
\* which every state machine is given a prefix and which has every answer that
\* was given in the term of its entry, whatever nodes crash and messages are
\* lost or late. The longest of what was applied stands for the sequence.
THEOREM ClusterImplementsLog == ~MetaTearing => (ServiceSpec => ImplementsReplicatedLog)
<1>. SUFFICES ASSUME ~MetaTearing PROVE ServiceSpec => ImplementsReplicatedLog
  OBVIOUS
<1>1. /\ TypeOK /\ TypeOK' /\ DurableState /\ ElectionInv /\ ElectionInv' /\ ElectionSafety'
      /\ LogInv /\ LogInv' /\ CommitInv /\ CommitInv' /\ AppliedIsCommitted /\ AppliedIsCommitted'
      /\ AnswersInv /\ AckedInTermDurable' /\ StateMachineSafety /\ StateMachineSafety'
      /\ [Next]_vars
      => [Service!Next]_(Service!vars)
  BY StepsOfLog, RestsOfLog, LongestFacts, LongestFactsAfter
<1>. QED  BY <1>1, LogStarts, ServiceIsRaft, TypeCorrect, Durable, AtMostOneLeader,
             ElectionInvariant, LogInvariant, CommitInvariant, AppliedAsCommitted,
             AnswersAreBacked, AnswersAreDurable, StateMachinesAgree, PTL
          DEF Spec, ImplementsReplicatedLog, Service!Spec
=============================================================================
