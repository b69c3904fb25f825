------------------------------ MODULE CommitProof ------------------------------
(***************************************************************************)
(* What is committed stays, for every set of servers and every bound, on   *)
(* the assumption that metadata.bin is never found truncated.  The         *)
(* inductive invariant is CommitInv: what a majority holds every later     *)
(* leader has, because the majority that elected it remembers, and what no *)
(* later leader has can no longer get a majority.                          *)
(***************************************************************************)
EXTENDS LogProof

-----------------------------------------------------------------------------
(* Majorities *)

LEMMA MajoritiesMeet ==
  ASSUME NEW Q \in Quorums, NEW R \in Quorums
  PROVE  \E v \in Server : v \in Q /\ v \in R
<1>1. Q \in SUBSET Server /\ R \in SUBSET Server
  BY DEF Quorums
<1>2. /\ Cardinality(Server) \in Nat /\ Cardinality(Q) \in Nat /\ Cardinality(R) \in Nat
  BY <1>1, ServerAssumption, FS_Subset, FS_CardinalityType
<1>3. Cardinality(Q) + Cardinality(R) > Cardinality(Server)
  BY <1>2 DEF Quorums, Majority
<1>. QED  BY <1>1, <1>3, ServerAssumption, FS_MajoritiesIntersect

\* What is chosen has its majority; what is blocked will not have one.
LEMMA ChosenNotBlocked ==
  ASSUME NEW i, NEW t, Chosen(i, t, acks)
  PROVE  ~Blocked(i, t)
<1>1. PICK Q \in Quorums : \A v \in Q : Ack(v, t, i) \in acks
  BY DEF Chosen
<1>2. ASSUME NEW R \in Quorums, \A v \in R : Ack(v, t, i) \notin acks PROVE FALSE
  BY <1>1, <1>2, MajoritiesMeet
<1>. QED  BY <1>2 DEF Blocked

LEMMA ChosenStays ==
  ASSUME NEW i, NEW t, NEW A, NEW B, A \subseteq B, Chosen(i, t, A)
  PROVE  Chosen(i, t, B)
  BY DEF Chosen

\* What nodes are recorded to hold: entries are added in the holder's term or a
\* later one.
AcksGrow ==
  /\ acks \subseteq acks'
  /\ \A v \in Server, t \in Nat, i \in Nat :
       Ack(v, t, i) \in acks' => Ack(v, t, i) \in acks \/ t >= currentTerm[v]

\* The history of a step.
Later == TermsRise /\ AcksGrow /\ Grows(termLog, termLog')

LEMMA BlockedStays ==
  ASSUME TypeOK, TypeOK', Later, NEW i \in Nat, NEW t \in Nat, Blocked(i, t)
  PROVE  Blocked(i, t)'
<1>1. PICK Q \in Quorums : \A v \in Q : currentTerm[v] > t /\ Ack(v, t, i) \notin acks
  BY DEF Blocked
<1>2. ASSUME NEW v \in Q PROVE currentTerm'[v] > t /\ Ack(v, t, i) \notin acks'
  <2>1. v \in Server
    BY DEF Quorums
  <2>2. currentTerm[v] \in Nat /\ currentTerm'[v] \in Nat /\ currentTerm'[v] >= currentTerm[v]
    BY <2>1 DEF TypeOK, Later, TermsRise
  <2>3. currentTerm[v] > t /\ Ack(v, t, i) \notin acks
    BY <1>1
  <2>. QED  BY <2>1, <2>2, <2>3 DEF Later, AcksGrow
<1>. QED  BY <1>2 DEF Blocked, Quorums

\* An entry of a leader's log is the same in the log as it has grown.
LEMMA HasGrows ==
  ASSUME NEW T, NEW U, Grows(T, U), NEW t \in DOMAIN T, NEW i \in 1..Len(T[t])
  PROVE  /\ t \in DOMAIN U /\ i \in 1..Len(U[t]) /\ U[t][i] = T[t][i]
         /\ \A u : Has(T[t], i, u) <=> Has(U[t], i, u)
<1>1. t \in DOMAIN U /\ AgreeUpTo(T[t], U[t], Len(T[t]))
  BY DEF Grows
<1>2. i \in 1..Len(U[t]) /\ U[t][i] = T[t][i]
  BY <1>1 DEF AgreeUpTo
<1>. QED  BY <1>1, <1>2 DEF Has

LEMMA SettledStays ==
  ASSUME NEW T, NEW U, LogsType(T), LogsType(U), Grows(T, U), NEW A, NEW B, A \subseteq B,
         NEW l \in Seq(EntryType), NEW m \in Seq(EntryType), NEW c \in Nat, NEW d \in Nat, d <= c,
         NEW t \in Nat, NEW u \in Nat, t <= u, Settled(l, c, t, T, A),
         d > 0 => AgreeUpTo(m, l, d)
  PROVE  Settled(m, d, u, U, B)
<1>1. CASE d = 0
  BY <1>1 DEF Settled
<1>2. CASE d # 0
  <2>1. PICK w \in DOMAIN T : \E k \in 1..Len(T[w]) :
          w <= t /\ c <= k /\ T[w][k].term = w /\ Chosen(k, w, A) /\ AgreeUpTo(l, T[w], c)
    BY <1>2 DEF Settled
  <2>2. PICK k \in 1..Len(T[w]) :
          w <= t /\ c <= k /\ T[w][k].term = w /\ Chosen(k, w, A) /\ AgreeUpTo(l, T[w], c)
    BY <2>1
  <2>3. w \in DOMAIN U /\ k \in 1..Len(U[w]) /\ U[w][k].term = w
    BY <2>2, HasGrows
  <2>4. Chosen(k, w, B)
    BY <2>2, ChosenStays
  <2>5. w \in Nat /\ T[w] \in Seq(EntryType) /\ U[w] \in Seq(EntryType)
        /\ AgreeUpTo(T[w], U[w], Len(T[w]))
    BY <2>3 DEF LogsType, Grows
  <2>6. AgreeUpTo(m, U[w], d)
    <3>1. AgreeUpTo(l, T[w], d)
      BY <2>2, <2>5, AgreeLess
    <3>2. AgreeUpTo(T[w], U[w], d)
      BY <2>5, <3>1 DEF AgreeUpTo
    <3>3. AgreeUpTo(m, l, d)
      BY <1>2
    <3>. QED  BY <3>1, <3>2, <3>3, AgreeFacts
  <2>7. w <= u /\ d <= k
    BY <2>2, <2>5
  <2>. QED  BY <2>3, <2>4, <2>6, <2>7 DEF Settled
<1>. QED  BY <1>1, <1>2

-----------------------------------------------------------------------------
(* Four shapes of steps, as far as commitment is concerned *)

\* Votes are cast for oneself in a new term or for a candidate with a log up to
\* date; requests for them are as they were, or have the end of the log.
SameVoteRequest(r, q) ==
  /\ r.from = q.from /\ r.to = q.to /\ r.term = q.term
  /\ r.lastLogIndex = q.lastLogIndex /\ r.lastLogTerm = q.lastLogTerm
VotesStep ==
  /\ \A b \in ballots' :
       \/ b \in ballots
       \/ /\ b.voter = b.candidate
          /\ b.term > currentTerm[b.voter] /\ b.term = currentTerm'[b.voter]
       \/ \E r \in voteReqs :
            b = Ballot(r.to, r.term, r.from) /\ Grants(r) /\ UNCHANGED <<log, termLog, acks>>
  /\ \A r \in voteReqs' :
       \/ \E q \in voteReqs : SameVoteRequest(r, q)
       \/ \E n, p \in Server : r = VoteRequest(n, p) /\ UNCHANGED <<log, currentTerm, role>>

\* An AppendEntries request is one there was, or speaks of what its leader has
\* committed; a new success speaks of what its follower is recorded to hold.
Sends ==
  \A r \in appendReqs' :
    \/ \E q \in appendReqs : SameRequest(r, q)
    \/ \E n \in Server :
         role[n] = "LEADER" /\ r.term = currentTerm[n] /\ r.leaderCommit = commitIndex[n]
Confirms ==
  \A m \in appendReps' :
    \/ m \in appendReps
    \/ ~m.success
    \/ \A i \in 1 .. m.prevIndex + m.count : Ack(m.from, m.electionTerm, i) \in acks'

\* Node p does not become a leader, and as one counts nothing new.
CountsOn(p) ==
  role'[p] = "LEADER" =>
    role[p] = "LEADER" /\ currentTerm'[p] = currentTerm[p] /\ matchIndex'[p] = matchIndex[p]

\* Nothing is written; a follower takes the request r, alive or dying; a leader,
\* maybe a new one, writes an entry; a leader counts the reply m.
StepRests == UNCHANGED <<log, termLog, acks, commitIndex>> /\ \A p \in Server : CountsOn(p)

StepFollows(r) ==
  LET v == r.to
      l == Reconcile(log[v], r.entries)
  IN  /\ r \in appendReqs /\ PrevMatches(log[v], r.prevLogIndex, r.prevLogTerm)
      /\ currentTerm[v] <= r.term /\ currentTerm'[v] = r.term
      /\ log' = [log EXCEPT ![v] = l] /\ UNCHANGED termLog
      /\ acks' = acks \/ acks' = acks \cup Holding(v, r.term, r.prevLogIndex + Len(r.entries))
      /\ \E c \in {FollowerCommit(r, l, commitIndex[v]), Min({commitIndex[v], Len(l)})} :
           commitIndex' = [commitIndex EXCEPT ![v] = c]
      /\ role'[v] = "FOLLOWER" /\ \A p \in Server : CountsOn(p)

StepWrites(n, t, e) ==
  LET l == Extended(n, t, e)
  IN  /\ t >= currentTerm[n] /\ currentTerm'[n] = t /\ role'[n] # "CANDIDATE"
      /\ \/ t \in DOMAIN termLog /\ termLog[t] = log[n] /\ role[n] = "LEADER"
            /\ currentTerm[n] = t
         \/ /\ t \notin DOMAIN termLog /\ Reign(t, n) \in elected'
            /\ \/ Stands(n, t) /\ ballots' = ballots
               \/ t > currentTerm[n]
      /\ log' = [log EXCEPT ![n] = l] /\ LeaderWrites(n, t, l)
      /\ \/ commitIndex' = commitIndex
         \/ /\ role'[n] = "LEADER"
            /\ commitIndex' = [commitIndex EXCEPT ![n] =
                                 AdvancedCommit(n, l, matchIndex'[n], t, commitIndex[n])]
      /\ role'[n] = "LEADER" =>
           \/ role[n] = "LEADER" /\ currentTerm[n] = t /\ matchIndex'[n] = matchIndex[n]
           \/ \A p \in Server : matchIndex'[n][p] = 0
      /\ \A p \in Server \ {n} : CountsOn(p)

StepCounts(m) ==
  LET n == m.to
      match == [matchIndex[n] EXCEPT ![m.from] = NewMatch(m)]
  IN  /\ m \in appendReps /\ StillLeads(m) /\ m.success
      /\ UNCHANGED <<log, termLog, acks, role, currentTerm>>
      /\ matchIndex' = [matchIndex EXCEPT ![n] = match]
      /\ commitIndex' = [commitIndex EXCEPT ![n] =
                           AdvancedCommit(n, log[n], match, currentTerm[n], commitIndex[n])]

Shape ==
  \/ StepRests
  \/ \E r \in appendReqs : StepFollows(r)
  \/ \E n \in Server, t \in Nat, e \in Command : StepWrites(n, t, e)
  \/ \E m \in appendReps : StepCounts(m)
Shaped == TermsRise /\ VotesStep /\ Sends /\ Confirms /\ Shape

LEMMA VotesRest ==
  ASSUME UNCHANGED ballots, voteReqs' \subseteq voteReqs
  PROVE  VotesStep
  BY DEF VotesStep, SameVoteRequest

LEMMA VotesDisowned ==
  ASSUME TypeOK, NEW n, UNCHANGED ballots, voteReqs' \subseteq Disown(voteReqs, n)
  PROVE  VotesStep
<1>1. ASSUME NEW r \in Disown(voteReqs, n) PROVE \E q \in voteReqs : SameVoteRequest(r, q)
  <2>1. PICK q \in voteReqs : r = IF q.from = n THEN [q EXCEPT !.live = FALSE] ELSE q
    BY DEF Disown
  <2>2. q \in VoteReqType
    BY DEF TypeOK
  <2>3. SameVoteRequest(r, q)
    BY <2>1, <2>2 DEF SameVoteRequest, VoteReqType
  <2>. QED  BY <2>3
<1>. QED  BY <1>1 DEF VotesStep

LEMMA OwnVoteCast ==
  ASSUME NEW n, NEW t, t > currentTerm[n], currentTerm'[n] = t,
         ballots' = ballots \cup {[voter |-> n, term |-> t, candidate |-> n]}, UNCHANGED voteReqs
  PROVE  VotesStep
  BY DEF VotesStep, SameVoteRequest

LEMMA AppendsRest ==
  ASSUME RequestsOnlyEnd, appendReps' \subseteq appendReps
  PROVE  Sends /\ Confirms
  BY DEF RequestsOnlyEnd, Sends, Confirms

\* A node that wins, wins and dies, or takes a command as a leader.
LEMMA WriterMoves ==
  ASSUME TypeOK, NEW n \in Server, NEW t \in Nat, t >= currentTerm[n],
         currentTerm' = [currentTerm EXCEPT ![n] = t],
         NEW x \in {"FOLLOWER", "LEADER"}, role' = [role EXCEPT ![n] = x],
         \A p \in Server \ {n} : nextIndex'[p] = nextIndex[p] /\ matchIndex'[p] = matchIndex[p]
  PROVE  /\ TermsRise /\ \A p \in Server \ {n} : LeadsOn(p)
         /\ currentTerm'[n] = t /\ role'[n] = x /\ role'[n] # "CANDIDATE"
<1>1. /\ currentTerm \in [Server -> Nat] /\ role \in [Server -> Role]
  BY DEF TypeOK
<1>2. /\ currentTerm'[n] = t /\ role'[n] = x
      /\ \A p \in Server \ {n} : currentTerm'[p] = currentTerm[p] /\ role'[p] = role[p]
  BY <1>1
<1>. QED  BY <1>1, <1>2 DEF TermsRise, LeadsOn

LEMMA RestsShaped ==
  ASSUME TermsRise, VotesStep, Sends, Confirms, UNCHANGED <<log, termLog, acks, commitIndex>>,
         \A p \in Server : LeadsOn(p)
  PROVE  Shaped
  BY DEF Shaped, Shape, StepRests, LeadsOn, CountsOn

\* The winner of an election.
LEMMA WinnerShaped ==
  ASSUME TypeOK, TypeOK', LogInv, ElectionSafety', NEW n \in Server, NEW t \in Nat,
         \/ t > currentTerm[n]
         \/ Stands(n, t) /\ ballots' = ballots,
         NEW d, BecomeLeader(n, t, d), currentTerm' = [currentTerm EXCEPT ![n] = t],
         VotesStep, UNCHANGED appendMsgs
  PROVE  Shaped
<1>. DEFINE l == Extended(n, t, NoOp)
            match == [p \in Server |-> 0]
<1>1. /\ role' = [role EXCEPT ![n] = "LEADER"] /\ Reigns(n, t)
      /\ nextIndex' = [nextIndex EXCEPT ![n] = [p \in Server |-> LastIndex(l) + 1]]
      /\ matchIndex' = [matchIndex EXCEPT ![n] = match]
      /\ log' = [log EXCEPT ![n] = l]
      /\ commitIndex' = [commitIndex EXCEPT ![n] =
                           AdvancedCommit(n, l, match, t, commitIndex[n])]
  BY DEF BecomeLeader, CommitAsLeader
<1>. HIDE DEF l
<1>2. /\ nextIndex \in [Server -> [Server -> Nat]] /\ matchIndex \in [Server -> [Server -> Nat]]
      /\ currentTerm[n] \in Nat
  BY DEF TypeOK
<1>3. /\ matchIndex'[n] = match
      /\ \A p \in Server \ {n} : nextIndex'[p] = nextIndex[p] /\ matchIndex'[p] = matchIndex[p]
  BY <1>1, <1>2
<1>4. /\ t >= currentTerm[n]
      /\ t > currentTerm[n] \/ (t = currentTerm[n] /\ role[n] = "CANDIDATE")
  BY <1>2 DEF Stands
<1>5. /\ TermsRise /\ \A p \in Server \ {n} : LeadsOn(p)
      /\ currentTerm'[n] = t /\ role'[n] = "LEADER" /\ role'[n] # "CANDIDATE"
  BY <1>1, <1>3, <1>4, WriterMoves
<1>6. /\ Reign(t, n) \in elected' /\ elected \subseteq elected' /\ LeaderWrites(n, t, l)
  BY <1>1 DEF Reigns, Reign, l
<1>7. t \notin DOMAIN termLog
  BY <1>4, <1>6, FreshTerm DEF LogInv
<1>8. NoOp \in Command
  BY DEF Command
<1>9. Sends /\ Confirms
  BY RpcsRest, AppendsRest DEF appendMsgs
<1>10. \A p \in Server : matchIndex'[n][p] = 0
  BY <1>3
<1>11. StepWrites(n, t, NoOp)
  BY <1>1, <1>3, <1>4, <1>5, <1>6, <1>7, <1>10 DEF StepWrites, LeadsOn, CountsOn, l
<1>. QED  BY <1>5, <1>8, <1>9, <1>11 DEF Shaped, Shape

LEMMA ElectionShaped ==
  ASSUME TypeOK, TypeOK', LogInv, ElectionSafety', Election
  PROVE  Shaped
<1>. USE DEF nodeVars, electVars, logVars, leaderVars, voteMsgs, history, leaderHist
<1>1. ASSUME NEW n \in Server, ElectionTimeout(n) PROVE Shaped
  <2>1. /\ currentTerm' = [currentTerm EXCEPT ![n] = currentTerm[n] + 1]
        /\ role' = [role EXCEPT ![n] = "CANDIDATE"]
        /\ ballots' = ballots \cup {[voter |-> n, term |-> currentTerm[n] + 1, candidate |-> n]}
        /\ UNCHANGED <<log, termLog, acks, commitIndex, nextIndex, matchIndex, voteReqs, appendMsgs>>
    BY <1>1 DEF ElectionTimeout, TimesOut
  <2>. DEFINE t == currentTerm[n] + 1
  <2>2. t \in Nat /\ t > currentTerm[n] /\ t >= currentTerm[n]
    BY SMTT(30) DEF TypeOK
  <2>3. /\ currentTerm' = [currentTerm EXCEPT ![n] = t] /\ currentTerm'[n] = t
        /\ ballots' = ballots \cup {[voter |-> n, term |-> t, candidate |-> n]}
    BY <2>1 DEF TypeOK
  <2>. HIDE DEF t
  <2>4. TermsRise /\ \A p \in Server : LeadsOn(p)
    BY <2>1, <2>2, <2>3, MovesOn
  <2>5. VotesStep
    BY <2>1, <2>2, <2>3, OwnVoteCast
  <2>. QED  BY <2>1, <2>4, <2>5, RpcsRest, AppendsRest, RestsShaped DEF appendMsgs
<1>2. ASSUME NEW n \in Server, ElectSelf(n) PROVE Shaped
  <2>. DEFINE d == MetaWritten(disk[n], currentTerm[n] + 1, n, commitIndex[n])
              t == currentTerm[n] + 1
  <2>1. /\ currentTerm' = [currentTerm EXCEPT ![n] = t] /\ BecomeLeader(n, t, d)
        /\ ballots' = ballots \cup {[voter |-> n, term |-> t, candidate |-> n]}
        /\ UNCHANGED <<voteReqs, appendMsgs>>
    BY <1>2 DEF ElectSelf, TimesOut
  <2>2. t \in Nat /\ t > currentTerm[n] /\ currentTerm'[n] = t
    BY <2>1 DEF TypeOK
  <2>. HIDE DEF d, t
  <2>3. VotesStep
    BY <2>1, <2>2, OwnVoteCast
  <2>. QED  BY <2>1, <2>2, <2>3, WinnerShaped
<1>3. ASSUME UNCHANGED <<role, currentTerm, log, termLog, acks, commitIndex, nextIndex, matchIndex,
                         appendMsgs>>,
             VotesStep
      PROVE  Shaped
  BY <1>3, NobodyMoves, RpcsRest, AppendsRest, RestsShaped DEF appendMsgs
<1>4. ASSUME NEW n \in Server, BroadcastRequestVote(n) PROVE Shaped
  <2>1. VotesStep
    BY <1>4 DEF BroadcastRequestVote, VotesStep, SameVoteRequest, Peers
  <2>. QED  BY <1>3, <1>4, <2>1 DEF BroadcastRequestVote
<1>5. ASSUME NEW r \in voteReqs, RejectStaleVoteRequest(r) PROVE Shaped
  <2>1. VotesStep
    BY <1>5, VotesRest DEF RejectStaleVoteRequest
  <2>. QED  BY <1>3, <1>5, <2>1 DEF RejectStaleVoteRequest
<1>6. ASSUME NEW r \in voteReqs, HandleRequestVote(r) PROVE Shaped
  <2>. DEFINE v == r.to
              x == IF r.term > currentTerm[v] THEN "FOLLOWER" ELSE role[v]
  <2>1. v \in Server /\ r.term \in Nat /\ currentTerm[v] \in Nat
    BY DEF TypeOK, VoteReqType
  <2>2. /\ ~(r.term < currentTerm[v])
        /\ currentTerm' = [currentTerm EXCEPT ![v] = r.term]
        /\ role' = [role EXCEPT ![v] = x]
        /\ UNCHANGED <<log, termLog, acks, commitIndex, nextIndex, matchIndex, appendMsgs>>
    BY <1>6 DEF HandleRequestVote, AdoptTerm, Stale
  <2>3. /\ r.term >= currentTerm[v]
        /\ x = "FOLLOWER" \/ (x = role[v] /\ r.term = currentTerm[v])
    BY <2>1, <2>2
  <2>4. VotesStep
    <3>1. /\ ballots' = IF Grants(r)
                        THEN ballots \cup {[voter |-> r.to, term |-> r.term, candidate |-> r.from]}
                        ELSE ballots
          /\ voteReqs' = voteReqs \ {r} /\ UNCHANGED <<log, termLog, acks>>
      BY <1>6 DEF HandleRequestVote
    <3>. QED  BY <3>1 DEF VotesStep, SameVoteRequest, Ballot
  <2>. HIDE DEF v, x
  <2>5. TermsRise /\ \A p \in Server : LeadsOn(p)
    BY <2>1, <2>2, <2>3, MovesOn
  <2>. QED  BY <2>2, <2>4, <2>5, RpcsRest, AppendsRest, RestsShaped DEF appendMsgs
<1>7. ASSUME NEW m \in voteReps, VoteReplyHigherTerm(m) PROVE Shaped
  <2>1. m.to \in Server /\ m.term \in Nat /\ currentTerm[m.to] \in Nat
    BY DEF TypeOK, VoteRepType
  <2>2. /\ m.term > currentTerm[m.to]
        /\ currentTerm' = [currentTerm EXCEPT ![m.to] = m.term]
        /\ role' = [role EXCEPT ![m.to] = "FOLLOWER"]
        /\ UNCHANGED <<log, termLog, acks, commitIndex, nextIndex, matchIndex, appendMsgs,
                       ballots, voteReqs>>
    BY <1>7 DEF VoteReplyHigherTerm, StepDown
  <2>3. m.term >= currentTerm[m.to]
    BY <2>1, <2>2
  <2>4. TermsRise /\ \A p \in Server : LeadsOn(p)
    BY <2>1, <2>2, <2>3, MovesOn
  <2>. QED  BY <2>2, <2>4, VotesRest, RpcsRest, AppendsRest, RestsShaped DEF appendMsgs
<1>8. ASSUME NEW m \in voteReps, VoteReplyIgnored(m) \/ VoteReplyCounted(m) PROVE Shaped
  <2>1. VotesStep
    BY <1>8, VotesRest DEF VoteReplyIgnored, VoteReplyCounted
  <2>. QED  BY <1>3, <1>8, <2>1 DEF VoteReplyIgnored, VoteReplyCounted
<1>9. ASSUME NEW m \in voteReps, VoteReplyWins(m) PROVE Shaped
  <2>1. m.to \in Server /\ currentTerm[m.to] \in Nat
    BY DEF TypeOK, VoteRepType
  <2>2. /\ Stands(m.to, currentTerm[m.to]) /\ BecomeLeader(m.to, currentTerm[m.to], disk[m.to])
        /\ currentTerm' = currentTerm /\ UNCHANGED appendMsgs
        /\ ballots' = ballots /\ voteReqs' = voteReqs
    BY <1>9 DEF VoteReplyWins, Counts, ElectionOpen, Stands
  <2>3. currentTerm' = [currentTerm EXCEPT ![m.to] = currentTerm[m.to]]
    BY <2>2 DEF TypeOK
  <2>. QED  BY <2>1, <2>2, <2>3, VotesRest, WinnerShaped
<1>. QED  BY <1>1, <1>2, <1>4, <1>5, <1>6, <1>7, <1>8, <1>9 DEF Election

LEMMA Refused ==
  ASSUME NEW r \in appendReqs, NEW t, appendReqs' = appendReqs \ {r},
         appendReps' = appendReps \cup AppendReplies(r, t, FALSE)
  PROVE  Sends /\ Confirms
<1>1. \A m \in AppendReplies(r, t, FALSE) : ~m.success
  BY DEF AppendReplies
<1>. QED  BY <1>1 DEF Sends, Confirms, SameRequest

\* A follower holds what it has confirmed.
LEMMA Confirmed ==
  ASSUME NEW r \in appendReqs, NEW t, appendReqs' = appendReqs \ {r},
         appendReps' = appendReps \cup AppendReplies(r, t, TRUE),
         acks' = acks \cup Holding(r.to, r.term, r.prevLogIndex + Len(r.entries))
  PROVE  Sends /\ Confirms
<1>1. ASSUME NEW m \in AppendReplies(r, t, TRUE)
      PROVE  /\ m.from = r.to /\ m.electionTerm = r.term
             /\ m.prevIndex = r.prevLogIndex /\ m.count = Len(r.entries)
  BY DEF AppendReplies
<1>2. \A i \in 1 .. r.prevLogIndex + Len(r.entries) : Ack(r.to, r.term, i) \in acks'
  BY DEF Holding, Ack
<1>. QED  BY <1>1, <1>2 DEF Sends, Confirms, SameRequest

LEMMA AcceptShaped ==
  ASSUME TypeOK, TypeOK', LogInv, NEW r \in appendReqs, AcceptAppend(r)
  PROVE  Shaped
<1>. DEFINE v == r.to
            l == Reconcile(log[v], r.entries)
            c == FollowerCommit(r, l, commitIndex[v])
<1>1. /\ ~Stale(r) /\ PrevMatches(log[v], r.prevLogIndex, r.prevLogTerm)
      /\ Recognise(v, r.term, r.from)
      /\ log' = [log EXCEPT ![v] = l] /\ commitIndex' = [commitIndex EXCEPT ![v] = c]
      /\ appendReqs' = appendReqs \ {r}
      /\ appendReps' = appendReps \cup AppendReplies(r, r.term, TRUE)
      /\ acks' = acks \cup Holding(v, r.term, r.prevLogIndex + Len(r.entries))
      /\ UNCHANGED <<leaderVars, termLog, ballots, voteReqs>>
  BY DEF AcceptAppend, voteMsgs
<1>2. /\ v \in Server /\ r.term \in Nat /\ currentTerm[v] \in Nat
      /\ role \in [Server -> Role] /\ currentTerm \in [Server -> Nat]
  <2>1. v \in Server /\ r.term \in Nat
    BY LogTypes
  <2>. QED  BY <2>1 DEF TypeOK
<1>3. /\ currentTerm[v] <= r.term /\ currentTerm'[v] = r.term /\ role'[v] = "FOLLOWER"
  BY <1>1, <1>2 DEF Stale, Recognise
<1>4. TermsRise /\ \A p \in Server : LeadsOn(p)
  BY <1>1, RecogniseMoves
<1>5. Sends /\ Confirms
  BY <1>1, Confirmed
<1>6. VotesStep
  BY <1>1, VotesRest
<1>7. StepFollows(r)
  BY <1>1, <1>3, <1>4 DEF StepFollows, LeadsOn, CountsOn
<1>. QED  BY <1>4, <1>5, <1>6, <1>7 DEF Shaped, Shape

LEMMA ReplicationShaped ==
  ASSUME TypeOK, TypeOK', LogInv, Replication
  PROVE  Shaped
<1>. USE DEF nodeVars, logVars, history, leaderHist, voteMsgs
<1>1. ASSUME UNCHANGED <<role, currentTerm, log, termLog, acks, commitIndex, nextIndex, matchIndex,
                         ballots, voteReqs>>,
             Sends, Confirms
      PROVE  Shaped
  BY <1>1, NobodyMoves, VotesRest, RestsShaped
<1>2. ASSUME NEW n \in Server, NEW p \in Peers(n), SendAppendEntries(n, p) PROVE Shaped
  <2>. DEFINE q == AppendRequest(n, p)
  <2>1. /\ role[n] = "LEADER" /\ appendReqs' = appendReqs \cup {q} /\ UNCHANGED appendReps
        /\ UNCHANGED <<role, currentTerm, log, termLog, acks, commitIndex, nextIndex, matchIndex,
                       ballots, voteReqs>>
    BY <1>2 DEF SendAppendEntries, leaderVars
  <2>2. q.term = currentTerm[n] /\ q.leaderCommit = commitIndex[n]
    BY DEF AppendRequest
  <2>. HIDE DEF q
  <2>3. Sends /\ Confirms
    BY <2>1, <2>2 DEF Sends, Confirms, SameRequest
  <2>. QED  BY <1>1, <2>1, <2>3
<1>3. ASSUME NEW r \in appendReqs, RpcFails(r) PROVE Shaped
  <2>1. Sends /\ Confirms
    <3>1. /\ appendReqs' \subseteq appendReqs \cup {[r EXCEPT !.live = FALSE]}
          /\ appendReps' = appendReps
      BY <1>3 DEF RpcFails
    <3>2. SameRequest([r EXCEPT !.live = FALSE], r) /\ \A q \in appendReqs : SameRequest(q, q)
      BY Orphaned DEF SameRequest
    <3>. QED  BY <3>1, <3>2 DEF Sends, Confirms
  <2>. QED  BY <1>1, <1>3, <2>1 DEF RpcFails, leaderVars
<1>4. ASSUME NEW r \in appendReqs, RejectStaleAppend(r) PROVE Shaped
  <2>1. Sends /\ Confirms
    BY <1>4, Refused DEF RejectStaleAppend
  <2>. QED  BY <1>1, <1>4, <2>1 DEF RejectStaleAppend, leaderVars
<1>5. ASSUME NEW r \in appendReqs, RejectMismatch(r) PROVE Shaped
  <2>1. Sends /\ Confirms
    BY <1>5, Refused DEF RejectMismatch
  <2>2. /\ ~Stale(r) /\ Recognise(r.to, r.term, r.from) /\ UNCHANGED leaderVars
        /\ UNCHANGED <<log, termLog, acks, commitIndex, ballots, voteReqs>>
    BY <1>5 DEF RejectMismatch
  <2>3. TermsRise /\ \A p \in Server : LeadsOn(p)
    BY <2>2, RecogniseMoves
  <2>. QED  BY <2>1, <2>2, <2>3, VotesRest, RestsShaped
<1>6. ASSUME NEW m \in appendReps, LoseAppendReply(m) \/ AppendReplyIgnored(m) PROVE Shaped
  <2>1. appendReps' \subseteq appendReps /\ UNCHANGED appendReqs
    BY <1>6 DEF LoseAppendReply, AppendReplyIgnored, ReceiveAck
  <2>. QED  BY <1>1, <1>6, <2>1, ReceivedAck, AppendsRest
            DEF LoseAppendReply, AppendReplyIgnored, leaderVars
<1>7. ASSUME NEW m \in appendReps, AppendReplyHigherTerm(m) PROVE Shaped
  <2>1. m.to \in Server /\ m.term \in Nat
    BY LogTypes
  <2>2. /\ m.term > currentTerm[m.to]
        /\ currentTerm' = [currentTerm EXCEPT ![m.to] = m.term]
        /\ role' = [role EXCEPT ![m.to] = "FOLLOWER"]
        /\ UNCHANGED <<log, termLog, acks, commitIndex, nextIndex, matchIndex, appendReqs,
                       ballots, voteReqs>>
        /\ appendReps' \subseteq appendReps
    BY <1>7 DEF AppendReplyHigherTerm, StepDown, ReceiveAck, leaderVars
  <2>3. currentTerm[m.to] \in Nat
    BY <2>1 DEF TypeOK
  <2>4. m.term >= currentTerm[m.to]
    BY <2>1, <2>2, <2>3
  <2>5. TermsRise /\ \A p \in Server : LeadsOn(p)
    BY <2>1, <2>2, <2>4, MovesOn
  <2>. QED  BY <2>2, <2>5, ReceivedAck, AppendsRest, VotesRest, RestsShaped
<1>8. ASSUME NEW m \in appendReps, AppendReplySuccess(m) PROVE Shaped
  <2>. DEFINE n == m.to
              match == [matchIndex[n] EXCEPT ![m.from] = NewMatch(m)]
  <2>1. /\ StillLeads(m) /\ m.success /\ appendReps' \subseteq appendReps
        /\ UNCHANGED <<termLog, acks, role, currentTerm, appendReqs, ballots, voteReqs>>
        /\ log' = [log EXCEPT ![n] = log[n]]
        /\ matchIndex' = [matchIndex EXCEPT ![n] = match]
        /\ commitIndex' = [commitIndex EXCEPT ![n] =
                             AdvancedCommit(n, log[n], match, currentTerm[n], commitIndex[n])]
    BY <1>8 DEF AppendReplySuccess, CommitAsLeader, ReceiveAck
  <2>2. log' = log
    BY <2>1, LogTypes
  <2>3. StepCounts(m)
    BY <2>1, <2>2 DEF StepCounts
  <2>4. TermsRise
    BY <2>1 DEF TermsRise, TypeOK
  <2>. QED  BY <2>1, <2>3, <2>4, ReceivedAck, AppendsRest, VotesRest DEF Shaped, Shape
<1>9. ASSUME NEW m \in appendReps, AppendReplyFailure(m) PROVE Shaped
  <2>1. /\ UNCHANGED <<role, currentTerm, log, termLog, acks, commitIndex, matchIndex,
                       ballots, voteReqs, appendReqs>>
        /\ appendReps' \subseteq appendReps
    BY <1>9 DEF AppendReplyFailure, ReceiveAck
  <2>2. TermsRise /\ StepRests
    BY <2>1 DEF TermsRise, StepRests, CountsOn, TypeOK
  <2>. QED  BY <2>1, <2>2, ReceivedAck, AppendsRest, VotesRest DEF Shaped, Shape
<1>. QED  BY <1>2, <1>3, <1>4, <1>5, <1>6, <1>7, <1>8, <1>9, AcceptShaped DEF Replication

\* A leader takes a command, alive or dying.
LEMMA CommandShaped ==
  ASSUME TypeOK, TypeOK', LogInv, NEW n \in Server, NEW c \in Command, role[n] = "LEADER",
         log' = [log EXCEPT ![n] = Extended(n, currentTerm[n], c)],
         LeaderWrites(n, currentTerm[n], Extended(n, currentTerm[n], c)),
         UNCHANGED currentTerm,
         NEW x \in {"FOLLOWER", "LEADER"}, role' = [role EXCEPT ![n] = x],
         \A p \in Server \ {n} : nextIndex'[p] = nextIndex[p] /\ matchIndex'[p] = matchIndex[p],
         x = "LEADER" => matchIndex'[n] = matchIndex[n],
         \/ commitIndex' = commitIndex
         \/ /\ x = "LEADER"
            /\ commitIndex' = [commitIndex EXCEPT ![n] =
                 AdvancedCommit(n, Extended(n, currentTerm[n], c), matchIndex'[n], currentTerm[n],
                                commitIndex[n])],
         VotesStep, RequestsOnlyEnd, appendReps' \subseteq appendReps
  PROVE  Shaped
<1>. DEFINE t == currentTerm[n]
<1>1. /\ t \in Nat /\ t \in DOMAIN termLog /\ Reign(t, n) \in elected /\ termLog[t] = log[n]
  BY LeaderFacts
<1>2. currentTerm' = [currentTerm EXCEPT ![n] = t] /\ t >= currentTerm[n]
  BY <1>1 DEF TypeOK
<1>3. /\ TermsRise /\ \A p \in Server \ {n} : LeadsOn(p)
      /\ currentTerm'[n] = t /\ role'[n] = x /\ role'[n] # "CANDIDATE"
  BY <1>1, <1>2, WriterMoves
<1>4. StepWrites(n, t, c)
  BY <1>1, <1>2, <1>3 DEF StepWrites, LeadsOn, CountsOn
<1>. QED  BY <1>1, <1>3, <1>4, AppendsRest DEF Shaped, Shape

LEMMA ClientShaped ==
  ASSUME TypeOK, TypeOK', LogInv, Client
  PROVE  Shaped
<1>1. ASSUME NEW n \in Server, NEW v \in Value, Propose(n, v) PROVE Shaped
  <2>1. /\ role[n] = "LEADER" /\ log' = [log EXCEPT ![n] = Extended(n, currentTerm[n], v)]
        /\ LeaderWrites(n, currentTerm[n], Extended(n, currentTerm[n], v))
        /\ UNCHANGED currentTerm /\ UNCHANGED appendMsgs /\ UNCHANGED ballots
        /\ role' = role /\ nextIndex' = nextIndex /\ matchIndex' = matchIndex
        /\ voteReqs' = voteReqs
        /\ commitIndex' = [commitIndex EXCEPT ![n] =
             AdvancedCommit(n, Extended(n, currentTerm[n], v), matchIndex[n], currentTerm[n],
                            commitIndex[n])]
    BY <1>1 DEF Propose, CommitAsLeader, nodeVars, leaderVars, voteMsgs
  <2>2. v \in Command
    BY DEF Command
  <2>3. role' = [role EXCEPT ![n] = "LEADER"]
    BY <2>1 DEF TypeOK
  <2>4. RequestsOnlyEnd /\ appendReps' \subseteq appendReps /\ VotesStep
    BY <2>1, RpcsRest, VotesRest DEF appendMsgs
  <2>. QED  BY <2>1, <2>2, <2>3, <2>4, CommandShaped
<1>2. ASSUME NEW w \in waiting, ProposalOk(w) \/ ProposalFails(w) PROVE Shaped
  <2>1. UNCHANGED <<role, currentTerm, log, termLog, acks, commitIndex, nextIndex, matchIndex,
                    appendMsgs, ballots, voteReqs>>
    BY <1>2 DEF ProposalOk, ProposalFails, nodeVars, logVars, leaderVars, voteMsgs, history,
                leaderHist
  <2>. QED  BY <2>1, NobodyMoves, RpcsRest, AppendsRest, VotesRest, RestsShaped DEF appendMsgs
<1>. QED  BY <1>1, <1>2 DEF Client

\* What a node counts as committed is in its log.
CommitsWithin == \A n \in Server : commitIndex[n] <= Len(log[n])

LEMMA MinIsFirst ==
  ASSUME NEW a \in Nat, NEW b \in Nat, a <= b
  PROVE  Min({a, b}) = a
<1>1. {a, b} \in SUBSET Nat /\ {a, b} # {}
  OBVIOUS
<1>2. Min({a, b}) \in {a, b} /\ Min({a, b}) <= a
  BY <1>1, MinNat
<1>. QED  BY <1>2

\* A node comes back with the commit index it had, if its log still has it.
LEMMA CommitRecovered ==
  ASSUME TypeOK, NEW n \in Server, NEW d, Recover(n, d), d.commitIndex = commitIndex[n],
         d.log \in Seq(EntryType), commitIndex[n] <= Len(d.log)
  PROVE  commitIndex' = commitIndex
<1>1. commitIndex' = [commitIndex EXCEPT ![n] = Min({commitIndex[n], Len(d.log)})]
  BY DEF Recover
<1>2. commitIndex \in [Server -> Nat] /\ Len(d.log) \in Nat
  BY DEF TypeOK
<1>3. Min({commitIndex[n], Len(d.log)}) = commitIndex[n]
  BY <1>2, MinIsFirst
<1>. QED  BY <1>1, <1>2, <1>3

LEMMA RecoverShaped ==
  ASSUME TypeOK, TypeOK', CommitsWithin, NEW n \in Server, NEW d, Recover(n, d), NEW t \in Nat,
         d.currentTerm = t, t >= currentTerm[n], d.log = log[n], d.commitIndex = commitIndex[n],
         appendReqs' \subseteq Disown(appendReqs, n) \/ UNCHANGED appendReqs,
         UNCHANGED <<termLog, acks>>, VotesStep
  PROVE  Shaped
<1>1. /\ TermsRise /\ \A p \in Server : LeadsOn(p)
      /\ log' = [log EXCEPT ![n] = log[n]] /\ appendReps' \subseteq appendReps
  BY Recovered
<1>2. log' = log
  BY <1>1, LogTypes
<1>3. commitIndex' = commitIndex
  BY LogTypes, CommitRecovered DEF CommitsWithin
<1>4. RequestsOnlyEnd
  BY <1>1, Disowned
<1>. QED  BY <1>1, <1>2, <1>3, <1>4, AppendsRest, RestsShaped

LEMMA CrashShaped ==
  ASSUME TypeOK, TypeOK', LogInv, ElectionSafety', DurableState, CommitsWithin, ~MetaTearing,
         Failure
  PROVE  Shaped
<1>1. ASSUME NEW n \in Server
      PROVE  /\ disk[n] \in DiskType /\ currentTerm[n] \in Nat /\ currentTerm[n] >= currentTerm[n]
             /\ disk[n].currentTerm = currentTerm[n] /\ disk[n].log = log[n]
             /\ disk[n].commitIndex = commitIndex[n]
             /\ commitIndex[n] \in Nat /\ log[n] \in Seq(EntryType)
  <2>1. currentTerm[n] \in Nat /\ commitIndex[n] \in Nat /\ log[n] \in Seq(EntryType)
    BY DEF TypeOK
  <2>. QED  BY <2>1, DiskFields
<1>2. ASSUME NEW n \in Server, Crash(n) PROVE Shaped
  <2>1. /\ Recover(n, disk[n]) /\ appendReqs' \subseteq Disown(appendReqs, n)
        /\ UNCHANGED <<termLog, acks, ballots>> /\ voteReqs' = Disown(voteReqs, n)
    BY <1>2 DEF Crash, history, leaderHist
  <2>. QED  BY <1>1, <2>1, VotesDisowned, RecoverShaped
<1>3. ASSUME NEW n \in Server, CrashInUpdateMetaData(n) PROVE Shaped
  BY <1>3 DEF CrashInUpdateMetaData
<1>4. ASSUME NEW r \in voteReqs, CrashInRequestVote(r) PROVE Shaped
  <2>. DEFINE d == MetaWritten(disk[r.to], r.term, Nil, commitIndex[r.to])
  <2>1. r.to \in Server /\ r.term \in Nat
    BY DEF TypeOK, VoteReqType
  <2>2. d.currentTerm = r.term /\ d.log = log[r.to] /\ d.commitIndex = commitIndex[r.to]
    BY <1>1, <2>1 DEF MetaWritten
  <2>3. /\ r.term > currentTerm[r.to] /\ Recover(r.to, d)
        /\ appendReqs' \subseteq Disown(appendReqs, r.to) /\ UNCHANGED <<termLog, acks, ballots>>
        /\ voteReqs' \subseteq Disown(voteReqs, r.to)
    BY <1>4 DEF CrashInRequestVote, Disown, history, leaderHist
  <2>. HIDE DEF d
  <2>4. r.term >= currentTerm[r.to]
    BY <1>1, <2>1, <2>3
  <2>. QED  BY <2>1, <2>2, <2>3, <2>4, VotesDisowned, RecoverShaped
<1>5. ASSUME NEW r \in appendReqs, CrashInAppendEntries(r) PROVE Shaped
  <2>. DEFINE v == r.to
              d == TermWritten(v, r.term)
              l == Reconcile(log[v], r.entries)
              e == LogWritten(d, l)
  <2>1. v \in Server /\ r.term \in Nat /\ l \in Seq(EntryType)
    BY AcceptedType, RequestFacts
  <2>2. /\ ~Stale(r) /\ PrevMatches(log[v], r.prevLogIndex, r.prevLogTerm)
        /\ Recover(v, d) \/ Recover(v, e)
        /\ appendReqs' \subseteq Disown(appendReqs, v)
        /\ UNCHANGED <<termLog, acks, ballots>> /\ voteReqs' = Disown(voteReqs, v)
    BY <1>5 DEF CrashInAppendEntries, Disown, history, leaderHist
  <2>3. r.term >= currentTerm[v]
    BY <1>1, <2>1, <2>2 DEF Stale
  <2>4. /\ d \in DiskType /\ d.currentTerm = r.term /\ d.log = log[v]
        /\ d.commitIndex = commitIndex[v]
    <3>1. CASE r.term > currentTerm[v]
      <4>1. d = MetaWritten(disk[v], r.term, Nil, commitIndex[v])
        BY <3>1 DEF TermWritten
      <4>2. disk[v] \in DiskType /\ commitIndex[v] \in Nat /\ disk[v].log = log[v]
        BY <1>1, <2>1
      <4>. HIDE DEF v, d
      <4>3. d \in DiskType
        BY <2>1, <4>1, <4>2, MetaWrittenType
      <4>. QED  BY <4>1, <4>2, <4>3 DEF MetaWritten
    <3>2. CASE ~(r.term > currentTerm[v])
      <4>1. d = disk[v]
        BY <3>2 DEF TermWritten
      <4>2. r.term = currentTerm[v]
        BY <1>1, <2>1, <2>3, <3>2
      <4>. QED  BY <1>1, <2>1, <4>1, <4>2
    <3>. QED  BY <3>1, <3>2
  <2>5. VotesStep
    BY <2>2, VotesDisowned
  <2>. HIDE DEF v, d, l
  <2>6. e.currentTerm = r.term /\ e.log = l /\ e.commitIndex = commitIndex[v]
    BY <2>1, <2>4 DEF LogWritten, DiskType
  <2>. HIDE DEF e
  <2>7. CASE Recover(v, d)
    BY <2>1, <2>2, <2>3, <2>4, <2>5, <2>7, RecoverShaped
  <2>8. CASE Recover(v, e)
    <3>1. /\ TermsRise /\ \A p \in Server : LeadsOn(p)
          /\ currentTerm'[v] = r.term /\ role'[v] = "FOLLOWER"
          /\ log' = [log EXCEPT ![v] = l] /\ appendReps' \subseteq appendReps
      BY <2>1, <2>3, <2>6, <2>8, Recovered
    <3>2. RequestsOnlyEnd
      BY <2>2, <3>1, Disowned
    <3>3. currentTerm[v] <= r.term
      BY <1>1, <2>1, <2>3
    <3>4. commitIndex' = [commitIndex EXCEPT ![v] = Min({commitIndex[v], Len(l)})]
      BY <2>6, <2>8 DEF Recover
    <3>5. StepFollows(r)
      BY <2>2, <3>1, <3>3, <3>4 DEF StepFollows, LeadsOn, CountsOn, v, l
    <3>. QED  BY <2>5, <3>1, <3>2, <3>5, AppendsRest DEF Shaped, Shape
  <2>. QED  BY <2>2, <2>7, <2>8
<1>6. ASSUME NEW n \in Server, CrashInElectSelf(n) PROVE Shaped
  <2>. DEFINE t == currentTerm[n] + 1
              d == MetaWritten(disk[n], t, n, commitIndex[n])
              l == Extended(n, t, NoOp)
              e == LogWritten(d, l)
  <2>1. t \in Nat /\ t > currentTerm[n] /\ t >= currentTerm[n]
    BY <1>1
  <2>2. NoOp \in Command
    BY DEF Command
  <2>3. /\ \/ Recover(n, d) /\ UNCHANGED <<termLog, acks>>
           \/ Recover(n, e) /\ Reigns(n, t)
        /\ ballots' = ballots \cup {[voter |-> n, term |-> t, candidate |-> n]}
        /\ UNCHANGED <<voteReqs, appendReqs>>
    BY <1>6 DEF CrashInElectSelf, leaderHist
  <2>4. /\ d \in DiskType /\ d.currentTerm = t /\ d.log = log[n] /\ d.commitIndex = commitIndex[n]
    <3>1. disk[n] \in DiskType /\ commitIndex[n] \in Nat /\ disk[n].log = log[n]
      BY <1>1
    <3>2. d = MetaWritten(disk[n], t, n, commitIndex[n])
      OBVIOUS
    <3>. HIDE DEF d, t
    <3>3. d \in DiskType
      BY <2>1, <3>1, <3>2, MetaWrittenType
    <3>. QED  BY <3>1, <3>2, <3>3 DEF MetaWritten
  <2>. HIDE DEF t, d
  <2>5. l \in Seq(EntryType) /\ Len(l) = Len(log[n]) + 1
    BY <2>1, <2>2, ExtendedFacts
  <2>. HIDE DEF l
  <2>6. e.currentTerm = t /\ e.log = l /\ e.commitIndex = commitIndex[n]
    BY <2>4, <2>5 DEF LogWritten, DiskType
  <2>. HIDE DEF e
  <2>7. \A c : Recover(n, c) /\ c.currentTerm = t => VotesStep
    <3>1. ASSUME NEW c, Recover(n, c), c.currentTerm = t PROVE currentTerm'[n] = t
      BY <3>1 DEF Recover, TypeOK
    <3>. QED  BY <2>1, <2>3, <3>1, OwnVoteCast
  <2>8. CASE Recover(n, d) /\ UNCHANGED <<termLog, acks>>
    BY <2>1, <2>3, <2>4, <2>7, <2>8, RecoverShaped
  <2>9. CASE Recover(n, e) /\ Reigns(n, t)
    <3>1. /\ TermsRise /\ \A p \in Server : LeadsOn(p)
          /\ currentTerm'[n] = t /\ role'[n] = "FOLLOWER"
          /\ log' = [log EXCEPT ![n] = l] /\ appendReps' \subseteq appendReps
      BY <2>1, <2>6, <2>9, Recovered
    <3>2. RequestsOnlyEnd
      BY <2>3, <3>1, Disowned
    <3>3. /\ Reign(t, n) \in elected' /\ elected \subseteq elected' /\ LeaderWrites(n, t, l)
      BY <2>9 DEF Reigns, Reign, l
    <3>4. t \notin DOMAIN termLog
      BY <2>1, <3>3, FreshTerm DEF LogInv
    <3>5. commitIndex' = commitIndex
      <4>1. commitIndex[n] <= Len(l)
        BY <1>1, <2>5 DEF CommitsWithin
      <4>. QED  BY <2>5, <2>6, <2>9, <4>1, CommitRecovered
    <3>6. StepWrites(n, t, NoOp)
      BY <2>1, <3>1, <3>3, <3>4, <3>5 DEF StepWrites, LeadsOn, CountsOn, l
    <3>. QED  BY <2>1, <2>2, <2>6, <2>7, <2>9, <3>1, <3>2, <3>6, AppendsRest DEF Shaped, Shape
  <2>. QED  BY <2>3, <2>8, <2>9
<1>7. ASSUME NEW n \in Server, NEW v \in Value, CrashInPropose(n, v) PROVE Shaped
  <2>. DEFINE t == currentTerm[n]
              l == Extended(n, t, v)
              e == LogWritten(disk[n], l)
  <2>1. v \in Command
    BY DEF Command
  <2>2. /\ role[n] = "LEADER" /\ Recover(n, e) /\ LeaderWrites(n, t, l)
        /\ UNCHANGED <<appendReqs, ballots, voteReqs>>
    BY <1>7 DEF CrashInPropose
  <2>3. t \in Nat /\ l \in Seq(EntryType) /\ Len(l) = Len(log[n]) + 1
    BY <1>1, <2>1, ExtendedFacts
  <2>. HIDE DEF l
  <2>4. e.currentTerm = t /\ e.log = l /\ e.commitIndex = commitIndex[n]
    BY <1>1, <2>3 DEF LogWritten, DiskType
  <2>. HIDE DEF e
  <2>5. /\ currentTerm' = [currentTerm EXCEPT ![n] = t] /\ role'[n] = "FOLLOWER"
        /\ role' = [role EXCEPT ![n] = "FOLLOWER"]
        /\ log' = [log EXCEPT ![n] = l] /\ appendReps' \subseteq appendReps
        /\ \A p \in Server \ {n} : nextIndex'[p] = nextIndex[p] /\ matchIndex'[p] = matchIndex[p]
    BY <1>1, <2>2, <2>4, Recovered
  <2>6. currentTerm' = currentTerm
    BY <2>5 DEF TypeOK
  <2>7. RequestsOnlyEnd /\ VotesStep
    BY <2>2, <2>5, Disowned, VotesRest
  <2>8. commitIndex' = commitIndex
    <3>1. commitIndex[n] <= Len(l)
      BY <1>1, <2>3 DEF CommitsWithin
    <3>. QED  BY <2>2, <2>3, <2>4, <3>1, CommitRecovered
  <2>. QED  BY <2>1, <2>2, <2>5, <2>6, <2>7, <2>8, CommandShaped DEF l
<1>. QED  BY <1>2, <1>3, <1>4, <1>5, <1>6, <1>7 DEF Failure

LEMMA StepsShaped ==
  ASSUME TypeOK, TypeOK', LogInv, ElectionSafety', DurableState, CommitsWithin, ~MetaTearing, Next
  PROVE  Shaped
  BY ElectionShaped, ReplicationShaped, ClientShaped, CrashShaped DEF Next

-----------------------------------------------------------------------------
(* What a step does to logs and to their history *)

LEMMA LogInvAfter ==
  ASSUME LogInv'
  PROVE  /\ WellFormedLogs(termLog') /\ GenuineLogs(termLog')
         /\ \A n \in Server : Genuine(log'[n], termLog')
         /\ \A n \in Server : role'[n] = "LEADER" =>
              currentTerm'[n] \in DOMAIN termLog' /\ log'[n] = termLog'[currentTerm'[n]]
<1>1. /\ \A t \in DOMAIN termLog' : WellFormed(termLog'[t], t) /\ Genuine(termLog'[t], termLog')
      /\ \A n \in Server : Genuine(log'[n], termLog')
  BY DEF LogInv, TermLogs, ServerLogs
<1>2. /\ DOMAIN termLog' = {e.term : e \in elected'}
      /\ \A n \in Server : role'[n] = "LEADER" =>
           Reign(currentTerm'[n], n) \in elected' /\ log'[n] = termLog'[currentTerm'[n]]
  BY DEF LogInv, LeadersLog, Reigned
<1>3. ASSUME NEW n \in Server, role'[n] = "LEADER" PROVE currentTerm'[n] \in DOMAIN termLog'
  <2>1. Reign(currentTerm'[n], n) \in elected' /\ Reign(currentTerm'[n], n).term = currentTerm'[n]
    BY <1>2, <1>3 DEF Reign
  <2>. QED  BY <1>2, <2>1
<1>. QED  BY <1>1, <1>2, <1>3 DEF WellFormedLogs, GenuineLogs

LEMMA AppendAgrees ==
  ASSUME NEW l \in Seq(EntryType), NEW e \in EntryType
  PROVE  /\ Append(l, e) \in Seq(EntryType) /\ Len(Append(l, e)) = Len(l) + 1
         /\ Append(l, e)[Len(l) + 1] = e
         /\ AgreeUpTo(l, Append(l, e), Len(l))
  BY DEF AgreeUpTo

\* The log that StepWrites leaves, and its history.
LEMMA WrittenFacts ==
  ASSUME TypeOK, TypeOK', LogInv, NEW n \in Server, NEW t \in Nat, NEW e \in Command,
         StepWrites(n, t, e)
  PROVE  /\ AgreeUpTo(log[n], log'[n], Len(log[n])) /\ Len(log'[n]) = Len(log[n]) + 1
         /\ log'[n][Len(log[n]) + 1].term = t
         /\ \A p \in Server \ {n} : log'[p] = log[p]
         /\ DOMAIN termLog' = DOMAIN termLog \cup {t} /\ termLog'[t] = log'[n]
         /\ \A u \in DOMAIN termLog : u # t => termLog'[u] = termLog[u]
         /\ acks' = acks \cup Holding(n, t, Len(log'[n]))
<1>. DEFINE x == Entry(t, Len(log[n]) + 1, e)
            l == Extended(n, t, e)
<1>1. /\ log' = [log EXCEPT ![n] = l] /\ LeaderWrites(n, t, l)
  BY DEF StepWrites
<1>2. l = Append(log[n], x) /\ x \in EntryType /\ x.term = t
  BY ExtendedFacts DEF Entry
<1>. HIDE DEF l, x
<1>3. /\ l \in Seq(EntryType) /\ Len(l) = Len(log[n]) + 1 /\ l[Len(log[n]) + 1] = x
      /\ AgreeUpTo(log[n], l, Len(log[n]))
  BY <1>2, LogTypes, AppendAgrees
<1>4. log'[n] = l /\ \A p \in Server \ {n} : log'[p] = log[p]
  BY <1>1, LogTypes
<1>5. /\ DOMAIN termLog' = DOMAIN termLog \cup {t} /\ termLog'[t] = l
      /\ \A u \in DOMAIN termLog : u # t => termLog'[u] = termLog[u]
      /\ acks' = acks \cup Holding(n, t, Len(l))
  BY <1>1 DEF LeaderWrites
<1>. QED  BY <1>2, <1>3, <1>4, <1>5

LEMMA WriteExtends ==
  ASSUME TypeOK, TypeOK', LogInv, NEW n \in Server, NEW t \in Nat, NEW e \in Command,
         StepWrites(n, t, e)
  PROVE  /\ currentTerm'[n] = t
         /\ \A p \in Server : AgreeUpTo(log[p], log'[p], Len(log[p]))
<1>1. currentTerm'[n] = t
  BY DEF StepWrites
<1>2. /\ AgreeUpTo(log[n], log'[n], Len(log[n]))
      /\ \A p \in Server \ {n} : log'[p] = log[p]
  BY WrittenFacts
<1>3. \A p \in Server : AgreeUpTo(log[p], log[p], Len(log[p]))
  BY LogTypes DEF AgreeUpTo
<1>. QED  BY <1>1, <1>2, <1>3

LEMMA GrowsSame ==
  ASSUME NEW T, LogsType(T)
  PROVE  Grows(T, T)
  BY DEF LogsType, Grows, AgreeUpTo

\* Acknowledgements that are new are of the node's new term, and no candidate's.
LEMMA NewAcks ==
  ASSUME TypeOK, TypeOK', LogInv, Shaped
  PROVE  \A a \in acks' : a \in acks \/
           (a.term = currentTerm'[a.node] /\ a.term >= currentTerm[a.node])
<1>1. CASE StepRests \/ \E m \in appendReps : StepCounts(m)
  BY <1>1 DEF StepRests, StepCounts
<1>2. ASSUME NEW r \in appendReqs, StepFollows(r)
      PROVE  \A a \in acks' : a \in acks \/
               (a.term = currentTerm'[a.node] /\ a.term >= currentTerm[a.node])
  <2>1. /\ r.to \in Server /\ r.term \in Nat
    BY LogTypes
  <2>2. currentTerm[r.to] \in Nat
    BY <2>1 DEF TypeOK
  <2>3. r.term = currentTerm'[r.to] /\ r.term >= currentTerm[r.to]
    BY <1>2, <2>1, <2>2 DEF StepFollows
  <2>4. acks' = acks \/ acks' = acks \cup Holding(r.to, r.term, r.prevLogIndex + Len(r.entries))
    BY <1>2 DEF StepFollows
  <2>. QED  BY <2>3, <2>4 DEF Holding
<1>3. ASSUME NEW n \in Server, NEW t \in Nat, NEW e \in Command, StepWrites(n, t, e)
      PROVE  \A a \in acks' : a \in acks \/
               (a.term = currentTerm'[a.node] /\ a.term >= currentTerm[a.node])
  <2>1. t = currentTerm'[n] /\ t >= currentTerm[n]
    BY <1>3 DEF StepWrites
  <2>2. acks' = acks \cup Holding(n, t, Len(log'[n]))
    BY <1>3, WrittenFacts
  <2>. QED  BY <2>1, <2>2 DEF Holding
<1>. QED  BY <1>1, <1>2, <1>3 DEF Shaped, Shape

LEMMA LaterStep ==
  ASSUME TypeOK, TypeOK', LogInv, Shaped
  PROVE  Later
<1>1. acks \subseteq acks' /\ Grows(termLog, termLog')
  <2>1. CASE StepRests \/ \E m \in appendReps : StepCounts(m)
    BY <2>1, LogTypes, GrowsSame DEF StepRests, StepCounts
  <2>2. ASSUME NEW r \in appendReqs, StepFollows(r) PROVE acks \subseteq acks' /\ Grows(termLog, termLog')
    BY <2>2, LogTypes, GrowsSame DEF StepFollows
  <2>3. ASSUME NEW n \in Server, NEW t \in Nat, NEW e \in Command, StepWrites(n, t, e)
        PROVE  acks \subseteq acks' /\ Grows(termLog, termLog')
    <3>1. /\ AgreeUpTo(log[n], log'[n], Len(log[n]))
          /\ DOMAIN termLog' = DOMAIN termLog \cup {t} /\ termLog'[t] = log'[n]
          /\ \A u \in DOMAIN termLog : u # t => termLog'[u] = termLog[u]
          /\ acks' = acks \cup Holding(n, t, Len(log'[n]))
      BY <2>3, WrittenFacts, ZenonT(30)
    <3>2. t \in DOMAIN termLog => termLog[t] = log[n]
      BY <2>3 DEF StepWrites
    <3>3. \A u \in DOMAIN termLog : AgreeUpTo(termLog[u], termLog[u], Len(termLog[u]))
      BY LogTypes, GrowsSame DEF Grows
    <3>. QED  BY <3>1, <3>2, <3>3 DEF Grows
  <2>. QED  BY <2>1, <2>2, <2>3 DEF Shaped, Shape
<1>2. AcksGrow
  <2>1. ASSUME NEW v \in Server, NEW t \in Nat, NEW i \in Nat, Ack(v, t, i) \in acks'
        PROVE  Ack(v, t, i) \in acks \/ t >= currentTerm[v]
    <3>1. Ack(v, t, i).term = t /\ Ack(v, t, i).node = v
      BY DEF Ack
    <3>. QED  BY <2>1, <3>1, NewAcks
  <2>. QED  BY <1>1, <2>1 DEF AcksGrow
<1>. QED  BY <1>1, <1>2 DEF Later, Shaped

\* A write that brings k in agreement with m up to h, if it is one, keeps what l
\* had in common with m.
LEMMA KeepsAgreement ==
  ASSUME NEW l \in Seq(EntryType), NEW m \in Seq(EntryType), NEW k \in Seq(EntryType),
         NEW h \in Nat, AgreeUpTo(k, m, h), k = l \/ ~AgreeUpTo(l, m, h),
         NEW c \in Nat, AgreeUpTo(l, m, c)
  PROVE  AgreeUpTo(k, m, c) /\ AgreeUpTo(k, l, c)
<1>1. CASE k = l
  BY <1>1 DEF AgreeUpTo
<1>2. CASE k # l
  <2>1. ~(h <= c)
    BY <1>2, AgreeLess
  <2>2. AgreeUpTo(k, m, c)
    BY <2>1, AgreeLess
  <2>. QED  BY <2>2, AgreeFacts
<1>. QED  BY <1>1, <1>2

\* What a follower's log is after the request r.
LEMMA FollowFacts ==
  ASSUME TypeOK, LogInv, NEW r \in appendReqs, StepFollows(r)
  PROVE  LET v == r.to
             h == r.prevLogIndex + Len(r.entries)
             m == termLog[r.term]
         IN  /\ v \in Server /\ r.term \in Nat /\ r.term \in DOMAIN termLog
             /\ h \in Nat /\ h <= Len(m)
             /\ currentTerm[v] \in Nat /\ currentTerm[v] <= r.term /\ currentTerm'[v] = r.term
             /\ log[v] \in Seq(EntryType) /\ m \in Seq(EntryType) /\ log'[v] \in Seq(EntryType)
             /\ AgreeUpTo(log'[v], m, h)
             /\ log'[v] = log[v] \/ ~AgreeUpTo(log[v], m, h)
             /\ \A p \in Server \ {v} : log'[p] = log[p]
             /\ log'[v] = Reconcile(log[v], r.entries)
             /\ acks' = acks \/ acks' = acks \cup Holding(v, r.term, h)
<1>. DEFINE v == r.to
            h == r.prevLogIndex + Len(r.entries)
            m == termLog[r.term]
            k == Reconcile(log[v], r.entries)
<1>1. /\ v \in Server /\ r.term \in Nat /\ r.term \in DOMAIN termLog
      /\ r.prevLogIndex \in Nat /\ r.entries \in Seq(EntryType) /\ m \in Seq(EntryType)
      /\ Piece(r, m)
  BY RequestFacts
<1>2. /\ PrevMatches(log[v], r.prevLogIndex, r.prevLogTerm)
      /\ currentTerm[v] <= r.term /\ currentTerm'[v] = r.term
      /\ log' = [log EXCEPT ![v] = k]
      /\ acks' = acks \/ acks' = acks \cup Holding(v, r.term, h)
  BY DEF StepFollows
<1>3. currentTerm[v] \in Nat
  BY <1>1 DEF TypeOK
<1>4. log[v] \in Seq(EntryType) /\ Genuine(log[v], termLog)
  BY <1>1, LogTypes, LogInvFacts
<1>5. k \in Seq(EntryType) /\ AgreeUpTo(k, m, h) /\ (k = log[v] \/ ~AgreeUpTo(log[v], m, h))
  BY <1>1, <1>2, <1>4, LogTypes, LogInvFacts, Reconciled
<1>6. log'[v] = k /\ \A p \in Server \ {v} : log'[p] = log[p]
  BY <1>1, <1>2, LogTypes
<1>7. h \in Nat /\ h <= Len(m)
  BY <1>1, <1>5 DEF AgreeUpTo
<1>. HIDE DEF v, h, m, k
<1>8. log'[v] \in Seq(EntryType) /\ AgreeUpTo(log'[v], m, h)
      /\ (log'[v] = log[v] \/ ~AgreeUpTo(log[v], m, h)) /\ log'[v] = k
  BY <1>5, <1>6
<1>. QED  BY <1>1, <1>2, <1>3, <1>4, <1>6, <1>7, <1>8 DEF v, h, m, k

-----------------------------------------------------------------------------
(* What nodes hold *)

LEMMA AgreedHas ==
  ASSUME NEW l \in Seq(EntryType), NEW m \in Seq(EntryType), NEW k \in Nat, AgreeUpTo(l, m, k),
         NEW i \in 1..k
  PROVE  \A t : Has(m, i, t) <=> Has(l, i, t)
<1>1. i \in 1..Len(l) /\ i \in 1..Len(m) /\ l[i] = m[i]
  BY DEF AgreeUpTo
<1>. QED  BY <1>1 DEF Has

LEMMA HasAgrees ==
  ASSUME NEW T, LogsType(T), NEW l \in Seq(EntryType), NEW m \in Seq(EntryType),
         Genuine(l, T), Genuine(m, T), NEW i, NEW t, Has(l, i, t), Has(m, i, t)
  PROVE  AgreeUpTo(l, m, i) /\ i \in Nat
<1>1. i \in Nat /\ i \in 1..Len(l) /\ i \in 1..Len(m) /\ l[i].term = m[i].term
  BY DEF Has
<1>. QED  BY <1>1, SameTermAgree

LEMMA AckFields ==
  ASSUME TypeOK, NEW a \in acks
  PROVE  /\ a.node \in Server /\ a.term \in Nat /\ a.index \in Nat
         /\ a = Ack(a.node, a.term, a.index)
  BY DEF TypeOK, Ack

LEMMA NodeTypes ==
  ASSUME TypeOK, TypeOK', NEW n \in Server
  PROVE  /\ currentTerm[n] \in Nat /\ currentTerm'[n] \in Nat
         /\ commitIndex[n] \in Nat /\ commitIndex'[n] \in Nat
         /\ log[n] \in Seq(EntryType) /\ log'[n] \in Seq(EntryType)
  BY DEF TypeOK

\* What was held still is, if the log of the holder keeps it.
LEMMA KeptAck ==
  ASSUME TypeOK, TypeOK', Later, NEW a \in acks, Held(a),
         AgreeUpTo(log[a.node], termLog[a.term], a.index) /\ a.term = currentTerm'[a.node]
           => AgreeUpTo(log'[a.node], termLog[a.term], a.index),
         Has(termLog[a.term], a.index, a.term) /\ Has(log[a.node], a.index, a.term)
           => Has(log'[a.node], a.index, a.term) \/ Blocked(a.index, a.term)
  PROVE  Held(a)'
<1>. DEFINE n == a.node
            t == a.term
            i == a.index
<1>1. n \in Server /\ t \in Nat /\ i \in Nat
  BY AckFields
<1>2. /\ currentTerm[n] \in Nat /\ currentTerm'[n] \in Nat /\ currentTerm[n] <= currentTerm'[n]
      /\ log'[n] \in Seq(EntryType)
  BY <1>1, NodeTypes DEF Later, TermsRise
<1>3. /\ t \in DOMAIN termLog /\ i \in 1..Len(termLog[t]) /\ t <= currentTerm[n]
      /\ t = currentTerm[n] => AgreeUpTo(log[n], termLog[t], i)
      /\ Has(termLog[t], i, t) => Has(log[n], i, t) \/ Blocked(i, t)
  BY DEF Held
<1>4. /\ t \in DOMAIN termLog' /\ i \in 1..Len(termLog'[t])
      /\ \A u : Has(termLog[t], i, u) <=> Has(termLog'[t], i, u)
  BY <1>3, HasGrows DEF Later
<1>5. /\ termLog[t] \in Seq(EntryType) /\ termLog'[t] \in Seq(EntryType)
      /\ AgreeUpTo(termLog[t], termLog'[t], Len(termLog[t]))
  BY <1>3, <1>4, LogTypes, LogTypesAfter DEF LogsType, Later, Grows
<1>6. ASSUME t = currentTerm'[n] PROVE AgreeUpTo(log'[n], termLog'[t], i)
  <2>1. t = currentTerm[n]
    BY <1>1, <1>2, <1>3, <1>6
  <2>2. AgreeUpTo(log'[n], termLog[t], i)
    BY <1>3, <1>6, <2>1
  <2>3. AgreeUpTo(termLog[t], termLog'[t], i)
    BY <1>1, <1>3, <1>5, AgreeLess
  <2>. QED  BY <2>2, <2>3, AgreeFacts
<1>7. Has(termLog'[t], i, t) => Has(log'[n], i, t) \/ Blocked(i, t)'
  <2>1. Blocked(i, t) => Blocked(i, t)'
    BY <1>1, BlockedStays
  <2>. QED  BY <1>3, <1>4, <2>1
<1>8. t <= currentTerm'[n]
  BY <1>1, <1>2, <1>3
<1>. QED  BY <1>4, <1>6, <1>7, <1>8 DEF Held

LEMMA KeptAckExtends ==
  ASSUME TypeOK, TypeOK', Later, NEW a \in acks, Held(a),
         AgreeUpTo(log[a.node], log'[a.node], Len(log[a.node]))
  PROVE  Held(a)'
<1>. DEFINE n == a.node
            t == a.term
            i == a.index
<1>1. /\ n \in Server /\ t \in Nat /\ i \in Nat
      /\ log[n] \in Seq(EntryType) /\ log'[n] \in Seq(EntryType) /\ Len(log[n]) \in Nat
  BY AckFields, NodeTypes
<1>2. ASSUME AgreeUpTo(log[n], termLog[t], i) PROVE AgreeUpTo(log'[n], termLog[t], i)
  <2>1. i <= Len(log[n])
    BY <1>2 DEF AgreeUpTo
  <2>2. AgreeUpTo(log[n], log'[n], i)
    BY <1>1, <2>1, AgreeLess
  <2>. QED  BY <1>2, <2>2, AgreeFacts
<1>3. ASSUME Has(log[n], i, t) PROVE Has(log'[n], i, t)
  <2>1. i \in 1..Len(log[n])
    BY <1>3 DEF Has
  <2>. QED  BY <1>1, <1>3, <2>1, AgreedHas
<1>. QED  BY <1>2, <1>3, KeptAck

\* Every later leader has what is held, or it can no longer be chosen.
LEMMA LaterHas ==
  ASSUME TermsComplete, NEW t \in DOMAIN termLog, NEW u \in DOMAIN termLog, t <= u, t \in Nat, u \in Nat,
         NEW i, Has(termLog[t], i, t)
  PROVE  Has(termLog[u], i, t) \/ Blocked(i, t)
<1>1. CASE t = u
  BY <1>1
<1>2. CASE t # u
  <2>1. t < u /\ i \in 1..Len(termLog[t]) /\ termLog[t][i].term = t
    BY <1>2 DEF Has
  <2>. QED  BY <2>1 DEF TermsComplete
<1>. QED  BY <1>1, <1>2

\* A follower's log keeps what it held, because the leader has it too.
LEMMA KeptAckFollows ==
  ASSUME TypeOK, TypeOK', LogInv, Later, TermsComplete,
         NEW r \in appendReqs, StepFollows(r), NEW a \in acks, Held(a), a.node = r.to
  PROVE  Held(a)'
<1>. DEFINE v == r.to
            t == a.term
            i == a.index
            h == r.prevLogIndex + Len(r.entries)
            m == termLog[r.term]
<1>1. /\ v \in Server /\ r.term \in Nat /\ r.term \in DOMAIN termLog
      /\ h \in Nat /\ currentTerm[v] \in Nat /\ currentTerm[v] <= r.term /\ currentTerm'[v] = r.term
      /\ log[v] \in Seq(EntryType) /\ m \in Seq(EntryType) /\ log'[v] \in Seq(EntryType)
      /\ AgreeUpTo(log'[v], m, h)
      /\ log'[v] = log[v] \/ ~AgreeUpTo(log[v], m, h)
  BY FollowFacts
<1>. HIDE DEF h
<1>2. t \in Nat /\ i \in Nat /\ a.node = v
  BY AckFields
<1>3. t \in DOMAIN termLog /\ t <= currentTerm[v]
  BY <1>2 DEF Held
<1>4. ASSUME AgreeUpTo(log[v], termLog[t], i), t = currentTerm'[v]
      PROVE  AgreeUpTo(log'[v], termLog[t], i)
  <2>1. termLog[t] = m
    BY <1>1, <1>4
  <2>. HIDE DEF m
  <2>. QED  BY <1>1, <1>2, <1>4, <2>1, KeepsAgreement
<1>5. ASSUME Has(termLog[t], i, t), Has(log[v], i, t)
      PROVE  Has(log'[v], i, t) \/ Blocked(i, t)
  <2>1. t <= r.term
    BY <1>1, <1>2, <1>3
  <2>2. Has(m, i, t) \/ Blocked(i, t)
    BY <1>1, <1>2, <1>3, <1>5, <2>1, LaterHas
  <2>3. ASSUME Has(m, i, t) PROVE Has(log'[v], i, t)
    <3>1. Genuine(log[v], termLog) /\ Genuine(m, termLog) /\ LogsType(termLog)
      BY <1>1, LogInvFacts, LogTypes DEF GenuineLogs
    <3>2. AgreeUpTo(log[v], m, i)
      BY <1>1, <1>5, <2>3, <3>1, HasAgrees
    <3>3. AgreeUpTo(log'[v], log[v], i) /\ i \in 1..i
      <4>. HIDE DEF m
      <4>1. i \in 1..Len(log[v])
        BY <1>5 DEF Has
      <4>. QED  BY <1>1, <1>2, <3>2, <4>1, KeepsAgreement
    <3>. QED  BY <1>1, <1>2, <1>5, <3>3, AgreedHas
  <2>. QED  BY <2>2, <2>3
<1>. QED  BY <1>2, <1>4, <1>5, KeptAck

\* A node that has just written, or taken, an entry of its term holds it.
LEMMA FreshAck ==
  ASSUME TypeOK', NEW n \in Server, NEW t \in DOMAIN termLog', currentTerm'[n] = t,
         NEW k \in Nat, AgreeUpTo(log'[n], termLog'[t], k), NEW i \in 1..k
  PROVE  Held(Ack(n, t, i))'
<1>1. /\ log'[n] \in Seq(EntryType) /\ termLog'[t] \in Seq(EntryType) /\ t \in Nat
  BY LogTypesAfter DEF LogsType
<1>2. AgreeUpTo(log'[n], termLog'[t], i) /\ i \in 1..Len(termLog'[t])
  <2>1. i \in Nat /\ i <= k
    OBVIOUS
  <2>. QED  BY <1>1, <2>1, AgreeLess DEF AgreeUpTo
<1>3. Has(termLog'[t], i, t) => Has(log'[n], i, t)
  BY <1>1, AgreedHas
<1>4. Ack(n, t, i).node = n /\ Ack(n, t, i).term = t /\ Ack(n, t, i).index = i
  BY DEF Ack
<1>5. t <= currentTerm'[n]
  BY <1>1
<1>. QED  BY <1>2, <1>3, <1>4, <1>5 DEF Held

LEMMA HeldSame ==
  ASSUME TypeOK, TypeOK', LogInv, AcksHeld, Shaped, UNCHANGED <<log, acks>>
  PROVE  AcksHeld'
<1>1. ASSUME NEW a \in acks PROVE Held(a)'
  <2>1. a.node \in Server
    BY AckFields
  <2>2. AgreeUpTo(log[a.node], log'[a.node], Len(log[a.node]))
    BY <2>1, LogTypes DEF AgreeUpTo
  <2>. QED  BY <2>2, LaterStep, KeptAckExtends DEF AcksHeld
<1>. QED  BY <1>1 DEF AcksHeld

LEMMA HeldStep ==
  ASSUME TypeOK, TypeOK', LogInv, AcksHeld, TermsComplete, Shaped
  PROVE  AcksHeld'
<1>1. CASE StepRests \/ \E m \in appendReps : StepCounts(m)
  BY <1>1, HeldSame DEF StepRests, StepCounts
<1>2. ASSUME NEW r \in appendReqs, StepFollows(r) PROVE AcksHeld'
  <2>. DEFINE v == r.to
              h == r.prevLogIndex + Len(r.entries)
  <2>1. /\ v \in Server /\ r.term \in DOMAIN termLog /\ h \in Nat /\ currentTerm'[v] = r.term
        /\ AgreeUpTo(log'[v], termLog[r.term], h) /\ \A p \in Server \ {v} : log'[p] = log[p]
        /\ acks' = acks \/ acks' = acks \cup Holding(v, r.term, h)
    BY <1>2, FollowFacts
  <2>2. termLog' = termLog
    BY <1>2 DEF StepFollows
  <2>. HIDE DEF h
  <2>3. ASSUME NEW a \in acks PROVE Held(a)'
    <3>1. CASE a.node = v
      BY <1>2, <3>1, LaterStep, KeptAckFollows DEF AcksHeld
    <3>2. CASE a.node # v
      <4>1. a.node \in Server /\ log'[a.node] = log[a.node]
        BY <2>1, <3>2, AckFields
      <4>2. AgreeUpTo(log[a.node], log'[a.node], Len(log[a.node]))
        BY <4>1, LogTypes DEF AgreeUpTo
      <4>. QED  BY <4>2, LaterStep, KeptAckExtends DEF AcksHeld
    <3>. QED  BY <3>1, <3>2
  <2>4. ASSUME NEW a \in Holding(v, r.term, h) PROVE Held(a)'
    <3>1. PICK i \in 1..h : a = Ack(v, r.term, i)
      BY DEF Holding, Ack
    <3>. QED  BY <2>1, <2>2, <3>1, FreshAck
  <2>. QED  BY <2>1, <2>3, <2>4 DEF AcksHeld
<1>3. ASSUME NEW n \in Server, NEW t \in Nat, NEW e \in Command, StepWrites(n, t, e) PROVE AcksHeld'
  <2>1. /\ t \in DOMAIN termLog' /\ termLog'[t] = log'[n]
        /\ acks' = acks \cup Holding(n, t, Len(log'[n]))
    BY <1>3, WrittenFacts, ZenonT(30)
  <2>2. ASSUME NEW a \in acks PROVE Held(a)'
    <3>1. a.node \in Server
      BY AckFields
    <3>2. AgreeUpTo(log[a.node], log'[a.node], Len(log[a.node]))
      BY <1>3, <3>1, WriteExtends
    <3>3. Held(a)
      BY DEF AcksHeld
    <3>. QED  BY <3>1, <3>2, <3>3, LaterStep, KeptAckExtends
  <2>3. ASSUME NEW a \in Holding(n, t, Len(log'[n])) PROVE Held(a)'
    <3>1. PICK i \in 1..Len(log'[n]) : a = Ack(n, t, i)
      BY DEF Holding, Ack
    <3>2. Len(log'[n]) \in Nat /\ AgreeUpTo(log'[n], termLog'[t], Len(log'[n]))
      BY <2>1, LogTypesAfter DEF AgreeUpTo
    <3>. QED  BY <1>3, <2>1, <3>1, <3>2, WriteExtends, FreshAck
  <2>. QED  BY <2>1, <2>2, <2>3 DEF AcksHeld
<1>. QED  BY <1>1, <1>2, <1>3 DEF Shaped, Shape

\* What a leader may count, for its own log and for each peer.
MatchHeld(n) ==
  /\ \A i \in 1..Len(log[n]) : Ack(n, currentTerm[n], i) \in acks
  /\ \A p \in Server : \A i \in 1..matchIndex[n][p] : Ack(p, currentTerm[n], i) \in acks

LEMMA MatchKept ==
  ASSUME TypeOK, TypeOK', MatchesHeld, NEW n \in Server, CountsOn(n), log'[n] = log[n],
         acks \subseteq acks', role'[n] = "LEADER"
  PROVE  MatchHeld(n)'
<1>1. role[n] = "LEADER" /\ currentTerm'[n] = currentTerm[n] /\ matchIndex'[n] = matchIndex[n]
  BY DEF CountsOn
<1>2. /\ \A i \in 1..Len(log[n]) : Ack(n, currentTerm[n], i) \in acks
      /\ \A p \in Server : \A i \in 1..matchIndex[n][p] : Ack(p, currentTerm[n], i) \in acks
  BY <1>1 DEF MatchesHeld
<1>. QED  BY <1>1, <1>2 DEF MatchHeld

LEMMA MatchesStep ==
  ASSUME TypeOK, TypeOK', LogInv, MatchesHeld, Shaped
  PROVE  MatchesHeld'
<1>1. acks \subseteq acks'
  BY LaterStep DEF Later, AcksGrow
<1>2. ASSUME NEW n \in Server, role'[n] = "LEADER" PROVE MatchHeld(n)'
  <2>1. CASE StepRests
    BY <1>1, <1>2, <2>1, MatchKept DEF StepRests
  <2>2. ASSUME NEW r \in appendReqs, StepFollows(r) PROVE MatchHeld(n)'
    <3>1. n # r.to /\ CountsOn(n)
      BY <1>2, <2>2 DEF StepFollows
    <3>2. log'[n] = log[n]
      BY <2>2, <3>1, FollowFacts
    <3>. QED  BY <1>1, <1>2, <3>1, <3>2, MatchKept
  <2>3. ASSUME NEW v \in Server, NEW t \in Nat, NEW e \in Command, StepWrites(v, t, e)
        PROVE  MatchHeld(n)'
    <3>1. CASE n # v
      <4>1. CountsOn(n) /\ log'[n] = log[n]
        <5>1. CountsOn(n)
          BY <2>3, <3>1 DEF StepWrites
        <5>2. log'[n] = log[n]
          BY <2>3, <3>1, WrittenFacts
        <5>. QED  BY <5>1, <5>2
      <4>. QED  BY <1>1, <1>2, <4>1, MatchKept
    <3>2. CASE n = v
      <4>1. /\ currentTerm'[n] = t
            /\ \/ role[n] = "LEADER" /\ currentTerm[n] = t /\ matchIndex'[n] = matchIndex[n]
               \/ \A p \in Server : matchIndex'[n][p] = 0
        BY <1>2, <2>3, <3>2 DEF StepWrites
      <4>2. acks' = acks \cup Holding(n, t, Len(log'[n]))
        BY <2>3, <3>2, WrittenFacts
      <4>3. \A i \in 1..Len(log'[n]) : Ack(n, t, i) \in acks'
        BY <4>2 DEF Holding, Ack
      <4>4. \A p \in Server : \A i \in 1..matchIndex'[n][p] : Ack(p, t, i) \in acks'
        <5>1. CASE role[n] = "LEADER" /\ currentTerm[n] = t /\ matchIndex'[n] = matchIndex[n]
          BY <1>1, <5>1 DEF MatchesHeld
        <5>2. CASE \A p \in Server : matchIndex'[n][p] = 0
          BY <5>2
        <5>. QED  BY <4>1, <5>1, <5>2
      <4>. QED  BY <4>1, <4>3, <4>4 DEF MatchHeld
    <3>. QED  BY <3>1, <3>2
  <2>4. ASSUME NEW m \in appendReps, StepCounts(m) PROVE MatchHeld(n)'
    <3>. DEFINE v == m.to
                p == m.from
                match == [matchIndex[v] EXCEPT ![p] = NewMatch(m)]
    <3>1. /\ StillLeads(m) /\ m.success
          /\ log' = log /\ role' = role /\ currentTerm' = currentTerm /\ acks' = acks
          /\ matchIndex' = [matchIndex EXCEPT ![v] = match]
      BY <2>4 DEF StepCounts
    <3>2. /\ v \in Server /\ p \in Server
          /\ NewMatch(m) \in {m.prevIndex + m.count, matchIndex[v][p]}
      BY <3>1, CountedMatch
    <3>3. matchIndex \in [Server -> [Server -> Nat]]
      BY DEF TypeOK
    <3>4. CASE n # v
      <4>1. CountsOn(n)
        BY <3>1, <3>3, <3>4, <1>2 DEF CountsOn
      <4>. QED  BY <1>1, <1>2, <3>1, <4>1, MatchKept
    <3>5. CASE n = v
      <4>1. /\ currentTerm[n] = m.electionTerm /\ role[n] = "LEADER"
            /\ matchIndex'[n][p] = NewMatch(m)
            /\ \A q \in Server \ {p} : matchIndex'[n][q] = matchIndex[n][q]
        BY <3>1, <3>2, <3>3, <3>5 DEF StillLeads
      <4>2. /\ \A i \in 1..Len(log[n]) : Ack(n, currentTerm[n], i) \in acks
            /\ \A q \in Server : \A i \in 1..matchIndex[n][q] : Ack(q, currentTerm[n], i) \in acks
            /\ \A i \in 1 .. m.prevIndex + m.count : Ack(p, currentTerm[n], i) \in acks
        BY <3>1, <4>1 DEF MatchesHeld
      <4>3. \A i \in 1..NewMatch(m) : Ack(p, currentTerm[n], i) \in acks
        <5>1. CASE NewMatch(m) = m.prevIndex + m.count
          BY <4>2, <5>1
        <5>2. CASE NewMatch(m) = matchIndex[n][p]
          BY <3>2, <4>2, <5>2
        <5>. QED  BY <3>2, <3>5, <5>1, <5>2
      <4>4. \A q \in Server : \A i \in 1..matchIndex'[n][q] : Ack(q, currentTerm[n], i) \in acks
        BY <4>1, <4>2, <4>3
      <4>. QED  BY <3>1, <4>2, <4>4 DEF MatchHeld
    <3>. QED  BY <3>4, <3>5
  <2>. QED  BY <2>1, <2>2, <2>3, <2>4 DEF Shaped, Shape
<1>3. ASSUME NEW m \in appendReps', m.success
      PROVE  \A i \in 1 .. m.prevIndex + m.count : Ack(m.from, m.electionTerm, i) \in acks'
  <2>1. CASE m \in appendReps
    BY <1>1, <1>3, <2>1 DEF MatchesHeld
  <2>. QED  BY <1>3, <2>1 DEF Shaped, Confirms
<1>. QED  BY <1>2, <1>3 DEF MatchesHeld, MatchHeld

-----------------------------------------------------------------------------
(* Candidates and their voters *)

LEMMA CandidateRests ==
  ASSUME TypeOK, TypeOK', LogInv, Shaped, NEW n \in Server, role'[n] = "CANDIDATE"
  PROVE  log'[n] = log[n]
<1>1. CASE StepRests \/ \E m \in appendReps : StepCounts(m)
  BY <1>1 DEF StepRests, StepCounts
<1>2. ASSUME NEW r \in appendReqs, StepFollows(r) PROVE log'[n] = log[n]
  <2>1. n # r.to
    BY <1>2 DEF StepFollows
  <2>. QED  BY <1>2, <2>1, FollowFacts
<1>3. ASSUME NEW v \in Server, NEW t \in Nat, NEW e \in Command, StepWrites(v, t, e)
      PROVE  log'[n] = log[n]
  <2>1. n # v
    BY <1>3 DEF StepWrites
  <2>. QED  BY <1>3, <2>1, WrittenFacts
<1>. QED  BY <1>1, <1>2, <1>3 DEF Shaped, Shape

\* A candidacy in a term already reached is no new one.
LEMMA StoodBefore ==
  ASSUME TypeOK, TypeOK', TermsRise, NEW n \in Server, NEW t \in Nat, Stands(n, t)', t <= currentTerm[n]
  PROVE  Stands(n, t)
<1>1. /\ currentTerm[n] \in Nat /\ currentTerm'[n] \in Nat /\ currentTerm'[n] >= currentTerm[n]
      /\ role'[n] = "CANDIDATE" => role[n] = "CANDIDATE" \/ currentTerm'[n] > currentTerm[n]
  BY NodeTypes DEF TermsRise
<1>2. role'[n] = "CANDIDATE" /\ currentTerm'[n] = t
  BY DEF Stands
<1>. QED  BY <1>1, <1>2 DEF Stands

LEMMA VoteRequestFields ==
  ASSUME TypeOK, ElectionRpcsPast, NEW r \in voteReqs
  PROVE  /\ r.from \in Server /\ r.to \in Server /\ r.term \in Nat
         /\ r.lastLogIndex \in Nat /\ r.lastLogTerm \in Nat
         /\ r.term <= currentTerm[r.from]
<1>1. r \in VoteReqType
  BY DEF TypeOK
<1>2. r.term <= currentTerm[r.from]
  BY DEF ElectionRpcsPast, Past
<1>. QED  BY <1>1, <1>2 DEF VoteReqType

LEMMA BallotFields ==
  ASSUME TypeOK, NEW b \in ballots
  PROVE  b.voter \in Server /\ b.term \in Nat /\ b.candidate \in Server
  BY DEF TypeOK

LEMMA BallotFieldsAfter ==
  ASSUME TypeOK', NEW b \in ballots'
  PROVE  b.voter \in Server /\ b.term \in Nat /\ b.candidate \in Server
  BY DEF TypeOK

LEMMA RequestsStep ==
  ASSUME TypeOK, TypeOK', LogInv, ElectionRpcsPast, RequestsOfCandidates, Shaped
  PROVE  RequestsOfCandidates'
<1>0. TermsRise /\ VotesStep
  BY DEF Shaped
<1>1. ASSUME NEW r \in voteReqs', Stands(r.from, r.term)'
      PROVE  r.lastLogIndex = LastIndex(log'[r.from]) /\ r.lastLogTerm = LastTerm(log'[r.from])
  <2>1. ASSUME NEW q \in voteReqs, SameVoteRequest(r, q)
        PROVE  r.lastLogIndex = LastIndex(log'[r.from]) /\ r.lastLogTerm = LastTerm(log'[r.from])
    <3>1. /\ q.from = r.from /\ q.term = r.term /\ q.lastLogIndex = r.lastLogIndex
          /\ q.lastLogTerm = r.lastLogTerm
      BY <2>1 DEF SameVoteRequest
    <3>2. q.from \in Server /\ q.term \in Nat /\ q.term <= currentTerm[q.from]
      BY VoteRequestFields
    <3>3. Stands(q.from, q.term)
      BY <1>0, <1>1, <3>1, <3>2, StoodBefore DEF Stands
    <3>4. log'[q.from] = log[q.from]
      BY <1>1, <3>1, <3>2, CandidateRests DEF Stands
    <3>. QED  BY <3>1, <3>3, <3>4 DEF RequestsOfCandidates
  <2>2. ASSUME NEW n \in Server, NEW p \in Server, r = VoteRequest(n, p), UNCHANGED log
        PROVE  r.lastLogIndex = LastIndex(log'[r.from]) /\ r.lastLogTerm = LastTerm(log'[r.from])
    BY <2>2 DEF VoteRequest
  <2>. QED  BY <1>0, <2>1, <2>2 DEF VotesStep
<1>2. ASSUME NEW b \in ballots' PROVE b.term <= currentTerm'[b.candidate]
  <2>1. b.voter \in Server /\ b.term \in Nat /\ b.candidate \in Server
    BY BallotFieldsAfter
  <2>2. /\ currentTerm[b.candidate] \in Nat /\ currentTerm'[b.candidate] \in Nat
        /\ currentTerm'[b.candidate] >= currentTerm[b.candidate]
    BY <1>0, <2>1, NodeTypes DEF TermsRise
  <2>3. CASE b \in ballots
    <3>1. b.term <= currentTerm[b.candidate]
      BY <2>3 DEF RequestsOfCandidates
    <3>. QED  BY <2>1, <2>2, <3>1
  <2>4. CASE b.voter = b.candidate /\ b.term = currentTerm'[b.voter]
    BY <2>1, <2>2, <2>4
  <2>5. ASSUME NEW r \in voteReqs, b = Ballot(r.to, r.term, r.from)
        PROVE  b.term <= currentTerm'[b.candidate]
    <3>1. b.term = r.term /\ b.candidate = r.from
      BY <2>5 DEF Ballot
    <3>2. b.term <= currentTerm[b.candidate]
      BY <3>1, VoteRequestFields
    <3>. QED  BY <2>1, <2>2, <3>2
  <2>. QED  BY <1>0, <2>3, <2>4, <2>5 DEF VotesStep
<1>. QED  BY <1>1, <1>2 DEF RequestsOfCandidates

\* The election restriction: a log up to date with k has the entry of k that
\* every later leader has, or that can no longer be chosen.
LEMMA UpToDateHas ==
  ASSUME NEW T, LogsType(T), WellFormedLogs(T),
         NEW l \in Seq(EntryType), NEW k \in Seq(EntryType), Genuine(l, T), Genuine(k, T),
         NEW i \in Nat, NEW t \in Nat, Has(k, i, t),
         \A u \in DOMAIN T : u > t => Has(T[u], i, t),
         LogUpToDate(LastTerm(l), LastIndex(l), k)
  PROVE  Has(l, i, t)
<1>1. /\ Len(l) \in Nat /\ Len(k) \in Nat /\ i \in 1..Len(k) /\ k[i].term = t
      /\ \A j \in 1..Len(l) : l[j].term \in Nat
      /\ \A j \in 1..Len(k) : k[j].term \in Nat
  <2>1. \A s \in Seq(EntryType) : \A j \in 1..Len(s) : s[j] \in EntryType
    OBVIOUS
  <2>. QED  BY <2>1, EntryHasFields DEF Has
<1>2. LastIndex(l) = Len(l) /\ LastIndex(k) = Len(k) /\ k[i].term <= k[Len(k)].term
  BY <1>1, GenuineOrdered
<1>3. k # <<>> /\ Len(k) \in 1..Len(k) /\ LastTerm(k) = k[Len(k)].term
  BY <1>1 DEF LastTerm
<1>4. l # <<>>
  <2>1. CASE l = <<>>
    <3>1. LastTerm(l) = 0 /\ Len(l) = 0
      BY <2>1 DEF LastTerm
    <3>. QED  BY <1>1, <1>2, <1>3, <3>1 DEF LogUpToDate
  <2>. QED  BY <2>1
<1>. DEFINE j == Len(l)
            x == l[j].term
<1>5. j \in 1..Len(l) /\ x \in Nat /\ LastTerm(l) = x
  BY <1>1, <1>4 DEF LastTerm
<1>6. x > LastTerm(k) \/ (x = LastTerm(k) /\ j >= Len(k))
  BY <1>2, <1>5 DEF LogUpToDate
<1>7. x \in DOMAIN T /\ AgreeUpTo(l, T[x], j) /\ T[x] \in Seq(EntryType)
  BY <1>5 DEF Genuine, LogsType
<1>. HIDE DEF j, x
<1>8. CASE x = LastTerm(k) /\ j >= Len(k)
  <2>1. AgreeUpTo(k, T[x], Len(k))
    BY <1>3, <1>8 DEF Genuine
  <2>2. i \in 1..j /\ l[i] = T[x][i] /\ k[i] = T[x][i]
    BY <1>1, <1>5, <1>7, <1>8, <2>1 DEF AgreeUpTo
  <2>. QED  BY <1>1, <1>5, <2>2 DEF Has, j
<1>9. CASE x > LastTerm(k)
  <2>1. x > t
    BY <1>1, <1>2, <1>3, <1>5, <1>9
  <2>2. i \in 1..Len(T[x]) /\ T[x][i].term = t
    BY <1>7, <2>1 DEF Has
  <2>3. j \in 1..Len(T[x]) /\ T[x][j].term = x
    <3>1. j \in 1..j /\ j <= Len(T[x])
      BY <1>5, <1>7 DEF AgreeUpTo
    <3>2. T[x][j] = l[j]
      BY <1>5, <1>7, <3>1 DEF AgreeUpTo
    <3>. QED  BY <1>5, <1>7, <3>1, <3>2 DEF x
  <2>4. WellFormed(T[x], x)
    BY <1>7 DEF WellFormedLogs
  <2>5. ~(j <= i)
    <3>1. j <= i => x <= t
      BY <2>2, <2>3, <2>4 DEF WellFormed
    <3>. QED  BY <1>5, <2>1, <3>1
  <2>6. i \in 1..j /\ l[i] = T[x][i]
    BY <1>1, <1>5, <1>7, <2>5 DEF AgreeUpTo
  <2>. QED  BY <1>5, <2>2, <2>6 DEF Has, j
<1>. QED  BY <1>6, <1>8, <1>9

\* A voter remembers its vote, so it takes no entry of an earlier term after it.
LEMMA VotersStep ==
  ASSUME TypeOK, TypeOK', LogInv, ElectionRpcsPast, BallotsRemembered', AcksHeld,
         RequestsOfCandidates, VotersComplete, TermsComplete, Shaped
  PROVE  VotersComplete'
<1>0. TermsRise /\ VotesStep /\ Later
  BY LaterStep DEF Shaped
<1>. SUFFICES ASSUME NEW b \in ballots', NEW a \in acks', Stands(b.candidate, b.term)',
                     a.node = b.voter, a.term < b.term, Has(termLog'[a.term], a.index, a.term)
              PROVE  Has(log'[b.candidate], a.index, a.term) \/ Blocked(a.index, a.term)'
  BY DEF VotersComplete
<1>. DEFINE n == b.candidate
            u == b.term
            v == b.voter
            t == a.term
            i == a.index
<1>1. /\ v \in Server /\ u \in Nat /\ n \in Server
      /\ currentTerm[v] \in Nat /\ currentTerm'[v] \in Nat /\ currentTerm'[v] >= currentTerm[v]
  BY <1>0, BallotFieldsAfter, NodeTypes DEF TermsRise
<1>2. a \in acks
  <2>1. u <= currentTerm'[v]
    BY DEF BallotsRemembered
  <2>2. a \in acks \/ t = currentTerm'[v]
    BY NewAcks
  <2>. QED  BY <1>1, <2>1, <2>2
<1>3. /\ t \in Nat /\ i \in Nat /\ a.node = v
      /\ t \in DOMAIN termLog /\ i \in 1..Len(termLog[t])
      /\ Has(termLog[t], i, t) => Has(log[v], i, t) \/ Blocked(i, t)
  BY <1>2, AckFields DEF AcksHeld, Held
<1>4. Has(termLog[t], i, t)
  BY <1>0, <1>3, HasGrows DEF Later
<1>5. log'[n] = log[n]
  BY <1>1, CandidateRests DEF Stands
<1>6. Blocked(i, t) => Blocked(i, t)'
  BY <1>0, <1>3, BlockedStays
<1>7. ASSUME Has(log[n], i, t) \/ Blocked(i, t)
      PROVE  Has(log'[n], i, t) \/ Blocked(i, t)'
  BY <1>5, <1>6, <1>7
<1>8. CASE b \in ballots
  <2>1. u <= currentTerm[n]
    BY <1>8 DEF RequestsOfCandidates
  <2>2. Stands(n, u)
    BY <1>0, <1>1, <2>1, StoodBefore
  <2>. QED  BY <1>2, <1>4, <1>7, <1>8, <2>2 DEF VotersComplete
<1>9. CASE v = n
  BY <1>3, <1>4, <1>7, <1>9
<1>10. ASSUME NEW r \in voteReqs, b = Ballot(r.to, r.term, r.from), Grants(r)
       PROVE  Has(log'[n], i, t) \/ Blocked(i, t)'
  <2>1. v = r.to /\ u = r.term /\ n = r.from
    BY <1>10 DEF Ballot
  <2>2. Stands(n, u)
    <3>1. u <= currentTerm[n]
      BY <2>1, VoteRequestFields
    <3>. QED  BY <1>0, <1>1, <3>1, StoodBefore
  <2>3. LogUpToDate(LastTerm(log[n]), LastIndex(log[n]), log[v])
    BY <1>10, <2>1, <2>2 DEF RequestsOfCandidates, Grants
  <2>4. CASE Blocked(i, t)
    BY <1>7, <2>4
  <2>5. CASE ~Blocked(i, t)
    <3>1. Has(log[v], i, t)
      BY <1>3, <1>4, <2>5
    <3>2. \A w \in DOMAIN termLog : w > t => Has(termLog[w], i, t)
      <4>1. \A w \in DOMAIN termLog : w \in Nat
        BY LogTypes DEF LogsType
      <4>. QED  BY <1>3, <1>4, <2>5, <4>1, LaterHas
    <3>3. /\ log[n] \in Seq(EntryType) /\ log[v] \in Seq(EntryType) /\ LogsType(termLog)
          /\ WellFormedLogs(termLog) /\ Genuine(log[n], termLog) /\ Genuine(log[v], termLog)
      BY <1>1, LogTypes, LogInvFacts
    <3>. HIDE DEF n, v, t, i
    <3>4. Has(log[n], i, t)
      BY <1>3, <2>3, <3>1, <3>2, <3>3, UpToDateHas
    <3>. QED  BY <1>7, <3>4
  <2>. QED  BY <2>4, <2>5
<1>. QED  BY <1>0, <1>8, <1>9, <1>10 DEF VotesStep

-----------------------------------------------------------------------------
(* What later leaders have *)

\* An entry of term t that nobody has yet cannot be chosen once a later term
\* has had its election.
LEMMA LateEntryBlocked ==
  ASSUME TypeOK, TypeOK', LogInv, Later, BallotsRemembered, ElectedByMajority,
         NEW t \in Nat, NEW u \in DOMAIN termLog, t < u, NEW i \in Nat,
         \A v \in Server : Ack(v, t, i) \notin acks
  PROVE  Blocked(i, t)'
<1>1. PICK e \in elected : e.term = u
  BY DEF LogInv, Reigned
<1>2. PICK Q \in SUBSET Server :
        Cardinality(Q) >= Majority /\ \A v \in Q : Ballot(v, e.term, e.leader) \in ballots
  BY DEF ElectedByMajority
<1>3. u \in Nat
  BY LogTypes DEF LogsType
<1>4. ASSUME NEW v \in Q PROVE currentTerm'[v] > t /\ Ack(v, t, i) \notin acks'
  <2>1. Ballot(v, u, e.leader) \in ballots /\ Ballot(v, u, e.leader).voter = v
        /\ Ballot(v, u, e.leader).term = u
    BY <1>1, <1>2 DEF Ballot
  <2>2. u <= currentTerm[v]
    BY <2>1 DEF BallotsRemembered
  <2>3. /\ v \in Server /\ currentTerm[v] \in Nat /\ currentTerm'[v] \in Nat
        /\ currentTerm'[v] >= currentTerm[v]
    BY NodeTypes DEF Later, TermsRise
  <2>4. currentTerm[v] > t /\ currentTerm'[v] > t
    BY <1>3, <2>2, <2>3
  <2>5. Ack(v, t, i) \notin acks'
    BY <2>3, <2>4 DEF Later, AcksGrow
  <2>. QED  BY <2>4, <2>5
<1>. QED  BY <1>2, <1>4 DEF Blocked, Quorums

\* A new leader has what its voters held, or they will never hold it.
LEMMA WinnerComplete ==
  ASSUME TypeOK, TypeOK', LogInv, Later, ElectionRpcsPast, BallotsRemembered', ElectedByMajority',
         VotesStep, AcksHeld, RequestsOfCandidates, VotersComplete,
         NEW n \in Server, NEW u \in Nat, Reign(u, n) \in elected',
         (Stands(n, u) /\ ballots' = ballots) \/ u > currentTerm[n],
         NEW t \in DOMAIN termLog, t < u, NEW i \in Nat, Has(termLog[t], i, t),
         \A v \in Server : Ack(v, t, i) \in acks' => Ack(v, t, i) \in acks
  PROVE  Has(log[n], i, t) \/ Blocked(i, t)'
<1>1. PICK Q \in SUBSET Server :
        Cardinality(Q) >= Majority /\ \A v \in Q : Ballot(v, u, n) \in ballots'
  BY DEF ElectedByMajority, Reign
<1>2. t \in Nat /\ (Blocked(i, t) => Blocked(i, t)')
  BY LogTypes, BlockedStays DEF LogsType
<1>3. CASE \E v \in Q : Ack(v, t, i) \in acks'
  <2>1. PICK v \in Q : Ack(v, t, i) \in acks'
    BY <1>3
  <2>. DEFINE a == Ack(v, t, i)
              b == Ballot(v, u, n)
  <2>2. a \in acks /\ a.node = v /\ a.term = t /\ a.index = i
        /\ b \in ballots' /\ b.voter = v /\ b.term = u /\ b.candidate = n
    BY <1>1, <2>1 DEF Ack, Ballot
  <2>3. CASE Stands(n, u) /\ ballots' = ballots
    BY <1>2, <2>2, <2>3 DEF VotersComplete
  <2>4. CASE u > currentTerm[n]
    <3>1. currentTerm[n] \in Nat
      BY NodeTypes
    <3>2. b \notin ballots
      BY <2>2, <2>4, <3>1 DEF RequestsOfCandidates
    <3>3. ASSUME NEW r \in voteReqs, b = Ballot(r.to, r.term, r.from) PROVE FALSE
      <4>1. u = r.term /\ n = r.from
        BY <3>3 DEF Ballot
      <4>. QED  BY <2>4, <3>1, <4>1, VoteRequestFields
    <3>4. v = n
      BY <2>2, <3>2, <3>3 DEF VotesStep
    <3>5. Held(a)
      BY <2>2 DEF AcksHeld
    <3>6. Has(log[v], i, t) \/ Blocked(i, t)
      BY <2>2, <3>5 DEF Held
    <3>. QED  BY <1>2, <3>4, <3>6
  <2>. QED  BY <2>3, <2>4
<1>4. CASE ~\E v \in Q : Ack(v, t, i) \in acks'
  <2>1. ASSUME NEW v \in Q PROVE currentTerm'[v] > t
    <3>1. Ballot(v, u, n) \in ballots' /\ Ballot(v, u, n).voter = v /\ Ballot(v, u, n).term = u
      BY <1>1 DEF Ballot
    <3>2. u <= currentTerm'[v]
      BY <3>1 DEF BallotsRemembered
    <3>3. currentTerm'[v] \in Nat
      BY NodeTypes
    <3>. QED  BY <1>2, <3>2, <3>3
  <2>. QED  BY <1>1, <1>4, <2>1 DEF Blocked, Quorums
<1>. QED  BY <1>3, <1>4

LEMMA TermsSame ==
  ASSUME TypeOK, TypeOK', LogInv, Later, TermsComplete,
         NEW t \in DOMAIN termLog, NEW u \in DOMAIN termLog, t < u,
         NEW i \in 1..Len(termLog[t]), termLog'[t][i].term = t
  PROVE  Has(termLog'[u], i, t) \/ Blocked(i, t)'
<1>1. /\ t \in Nat /\ u \in Nat /\ i \in Nat
  BY LogTypes DEF LogsType
<1>2. termLog'[t][i] = termLog[t][i]
  BY HasGrows DEF Later
<1>3. Has(termLog[u], i, t) \/ Blocked(i, t)
  BY <1>2 DEF TermsComplete
<1>4. Has(termLog[u], i, t) => Has(termLog'[u], i, t)
  <2>1. ASSUME Has(termLog[u], i, t) PROVE Has(termLog'[u], i, t)
    <3>1. i \in 1..Len(termLog[u])
      BY <2>1 DEF Has
    <3>. QED  BY <2>1, <3>1, HasGrows DEF Later
  <2>. QED  BY <2>1
<1>5. Blocked(i, t) => Blocked(i, t)'
  BY <1>1, BlockedStays
<1>. QED  BY <1>3, <1>4, <1>5

LEMMA TermsStep ==
  ASSUME TypeOK, TypeOK', LogInv, ElectionInv, ElectionInv', AcksHeld, RequestsOfCandidates,
         VotersComplete, TermsComplete, Shaped
  PROVE  TermsComplete'
<1>0. Later /\ VotesStep
  BY LaterStep DEF Shaped
<1>. SUFFICES ASSUME NEW t \in DOMAIN termLog', NEW u \in DOMAIN termLog', t < u,
                     NEW i \in 1..Len(termLog'[t]), termLog'[t][i].term = t
              PROVE  Has(termLog'[u], i, t) \/ Blocked(i, t)'
  BY DEF TermsComplete
<1>1. CASE termLog' = termLog
  BY <1>0, <1>1, TermsSame
<1>2. ASSUME NEW n \in Server, NEW s \in Nat, NEW e \in Command, StepWrites(n, s, e)
      PROVE  Has(termLog'[u], i, t) \/ Blocked(i, t)'
  <2>1. /\ AgreeUpTo(log[n], log'[n], Len(log[n])) /\ Len(log'[n]) = Len(log[n]) + 1
        /\ DOMAIN termLog' = DOMAIN termLog \cup {s} /\ termLog'[s] = log'[n]
        /\ \A w \in DOMAIN termLog : w # s => termLog'[w] = termLog[w]
        /\ acks' = acks \cup Holding(n, s, Len(log'[n]))
    BY <1>2, WrittenFacts
  <2>2. /\ s \in DOMAIN termLog => termLog[s] = log[n]
        /\ s \notin DOMAIN termLog =>
             /\ Reign(s, n) \in elected'
             /\ (Stands(n, s) /\ ballots' = ballots) \/ s > currentTerm[n]
    BY <1>2 DEF StepWrites
  <2>3. /\ log[n] \in Seq(EntryType) /\ log'[n] \in Seq(EntryType) /\ Genuine(log[n], termLog)
        /\ t \in Nat /\ u \in Nat /\ i \in Nat
    BY LogTypes, LogTypesAfter, LogInvFacts DEF LogsType
  <2>4. CASE t = s
    <3>1. u \in DOMAIN termLog
      BY <2>1, <2>3, <2>4
    <3>2. CASE i \in 1..Len(log[n])
      <4>1. log'[n][i] = log[n][i]
        BY <2>1, <3>2 DEF AgreeUpTo
      <4>2. t \in DOMAIN termLog
        BY <2>1, <2>4, <3>2, <4>1, <2>3 DEF Genuine
      <4>3. i \in 1..Len(termLog[t])
        BY <2>2, <2>4, <3>2, <4>2
      <4>. QED  BY <1>0, <3>1, <4>2, <4>3, TermsSame
    <3>3. CASE i \notin 1..Len(log[n])
      <4>1. ASSUME NEW v \in Server, Ack(v, t, i) \in acks PROVE FALSE
        <5>1. Held(Ack(v, t, i)) /\ Ack(v, t, i).term = t /\ Ack(v, t, i).index = i
          BY <4>1 DEF AcksHeld, Ack
        <5>2. t \in DOMAIN termLog /\ i \in 1..Len(termLog[t])
          BY <5>1 DEF Held
        <5>. QED  BY <2>2, <2>4, <3>3, <5>2
      <4>. QED  BY <1>0, <2>3, <3>1, <4>1, LateEntryBlocked DEF ElectionInv
    <3>. QED  BY <3>2, <3>3
  <2>5. CASE t # s /\ u \in DOMAIN termLog
    BY <1>0, <2>1, <2>5, TermsSame
  <2>6. CASE t # s /\ u \notin DOMAIN termLog
    <3>1. u = s /\ t \in DOMAIN termLog /\ termLog'[t] = termLog[t]
      BY <2>1, <2>6
    <3>2. Has(termLog[t], i, t)
      BY <3>1 DEF Has
    <3>3. \A v \in Server : Ack(v, t, i) \in acks' => Ack(v, t, i) \in acks
      BY <2>1, <2>6 DEF Ack, Holding
    <3>4. Reign(u, n) \in elected' /\ ((Stands(n, u) /\ ballots' = ballots) \/ u > currentTerm[n])
      BY <2>2, <2>6, <3>1
    <3>5. Has(log[n], i, t) \/ Blocked(i, t)'
      BY <1>0, <2>3, <3>1, <3>2, <3>3, <3>4, WinnerComplete DEF ElectionInv
    <3>6. Has(log[n], i, t) => Has(log'[n], i, t)
      BY <2>1 DEF Has, AgreeUpTo
    <3>. QED  BY <2>1, <3>1, <3>5, <3>6
  <2>. QED  BY <2>4, <2>5, <2>6
<1>. QED  BY <1>1, <1>2 DEF Shaped, Shape, StepRests, StepFollows, StepCounts

-----------------------------------------------------------------------------
(* What is committed *)

LEMMA CommitsAreWithin ==
  ASSUME TypeOK, CommitsSettled
  PROVE  CommitsWithin
<1>1. ASSUME NEW n \in Server PROVE commitIndex[n] <= Len(log[n])
  <2>1. Settled(log[n], commitIndex[n], currentTerm[n], termLog, acks) /\ Len(log[n]) \in Nat
    BY LogTypes DEF CommitsSettled
  <2>. QED  BY <2>1 DEF Settled, AgreeUpTo
<1>. QED  BY <1>1 DEF CommitsWithin

\* What was settled by a term, the leaders from that term on have.
LEMMA SettledLater ==
  ASSUME TypeOK, LogInv, TermsComplete, NEW l \in Seq(EntryType), NEW c \in Nat, NEW t \in Nat,
         Settled(l, c, t, termLog, acks), NEW u \in DOMAIN termLog, t <= u
  PROVE  AgreeUpTo(l, termLog[u], c)
<1>1. /\ u \in Nat /\ termLog[u] \in Seq(EntryType)
  BY LogTypes DEF LogsType
<1>2. CASE c = 0
  BY <1>1, <1>2 DEF AgreeUpTo
<1>3. CASE c # 0
  <2>1. PICK w \in DOMAIN termLog : \E k \in 1..Len(termLog[w]) :
          w <= t /\ c <= k /\ termLog[w][k].term = w /\ Chosen(k, w, acks)
          /\ AgreeUpTo(l, termLog[w], c)
    BY <1>3 DEF Settled
  <2>2. PICK k \in 1..Len(termLog[w]) :
          w <= t /\ c <= k /\ termLog[w][k].term = w /\ Chosen(k, w, acks)
          /\ AgreeUpTo(l, termLog[w], c)
    BY <2>1
  <2>3. w \in Nat /\ termLog[w] \in Seq(EntryType) /\ w <= u /\ Has(termLog[w], k, w)
    BY <1>1, <2>2, LogTypes DEF LogsType, Has
  <2>4. Has(termLog[u], k, w)
    BY <1>1, <2>2, <2>3, LaterHas, ChosenNotBlocked
  <2>5. AgreeUpTo(termLog[w], termLog[u], k)
    BY <1>1, <2>3, <2>4, LogTypes, LogInvFacts, HasAgrees DEF GenuineLogs
  <2>6. AgreeUpTo(termLog[w], termLog[u], c)
    BY <1>1, <2>2, <2>3, <2>5, AgreeLess
  <2>. QED  BY <2>2, <2>6, AgreeFacts
<1>. QED  BY <1>2, <1>3

\* What a follower has committed survives the request it takes.
LEMMA FollowKeepsCommitted ==
  ASSUME TypeOK, TypeOK', LogInv, TermsComplete, CommitsSettled,
         NEW r \in appendReqs, StepFollows(r)
  PROVE  AgreeUpTo(log'[r.to], log[r.to], commitIndex[r.to])
<1>. DEFINE v == r.to
            h == r.prevLogIndex + Len(r.entries)
            m == termLog[r.term]
<1>1. /\ v \in Server /\ r.term \in Nat /\ r.term \in DOMAIN termLog /\ h \in Nat
      /\ currentTerm[v] \in Nat /\ currentTerm[v] <= r.term
      /\ log[v] \in Seq(EntryType) /\ m \in Seq(EntryType) /\ log'[v] \in Seq(EntryType)
      /\ AgreeUpTo(log'[v], m, h)
      /\ log'[v] = log[v] \/ ~AgreeUpTo(log[v], m, h)
  BY FollowFacts
<1>2. commitIndex[v] \in Nat
  BY <1>1, NodeTypes
<1>3. AgreeUpTo(log[v], m, commitIndex[v])
  BY <1>1, <1>2, SettledLater DEF CommitsSettled
<1>. HIDE DEF h, m
<1>. QED  BY <1>1, <1>2, <1>3, KeepsAgreement

\* The commit index of a leader: as it was, or that of an entry a majority holds.
LEMMA AdvanceFacts ==
  ASSUME NEW n \in Server, NEW l \in Seq(EntryType), NEW match, NEW t, NEW c \in Nat
  PROVE  LET d == AdvancedCommit(n, l, match, t, c)
         IN  /\ d \in Nat /\ c <= d
             /\ d = c \/ /\ d \in 1..Len(l) /\ l[d].term = t
                         /\ Agreeing(n, match, d) \in Quorums
<1>. DEFINE C == Committable(n, l, match, t, c)
            d == AdvancedCommit(n, l, match, t, c)
<1>1. CASE C = {}
  BY <1>1 DEF AdvancedCommit
<1>2. CASE C # {}
  <2>1. Len(l) \in Nat /\ C \in SUBSET Nat /\ \A i \in C : i <= Len(l) /\ i > c
    BY DEF Committable
  <2>2. d = Max(C)
    BY <1>2 DEF AdvancedCommit
  <2>3. Max(C) \in C
    <3>. HIDE DEF C
    <3>. QED  BY <1>2, <2>1, MaxNat
  <2>4. d \in c + 1 .. Len(l) /\ TermAt(l, d) = t /\ Cardinality(Agreeing(n, match, d)) >= Majority
    BY <2>2, <2>3 DEF Committable
  <2>. HIDE DEF d
  <2>5. d \in 1..Len(l) /\ d \in Nat /\ c <= d
    BY <2>1, <2>4
  <2>6. l[d].term = t
    BY <2>4, <2>5 DEF TermAt
  <2>7. Agreeing(n, match, d) \in Quorums
    BY <2>4 DEF Quorums, Agreeing, Peers
  <2>. QED  BY <2>5, <2>6, <2>7 DEF d
<1>. QED  BY <1>1, <1>2

\* A node's commit index does not go back, nothing below it is rewritten, and
\* what it counts now is settled.
NodeCommits(n) ==
  /\ commitIndex[n] <= commitIndex'[n] /\ AgreeUpTo(log'[n], log[n], commitIndex[n])
  /\ Settled(log'[n], commitIndex'[n], currentTerm'[n], termLog', acks')

LEMMA StaysSettled ==
  ASSUME TypeOK, TypeOK', Later, CommitsSettled, NEW n \in Server,
         AgreeUpTo(log'[n], log[n], commitIndex[n])
  PROVE  Settled(log'[n], commitIndex[n], currentTerm'[n], termLog', acks')
<1>1. /\ LogsType(termLog) /\ LogsType(termLog') /\ Grows(termLog, termLog') /\ acks \subseteq acks'
  BY LogTypes, LogTypesAfter DEF Later, AcksGrow
<1>2. /\ log[n] \in Seq(EntryType) /\ log'[n] \in Seq(EntryType) /\ commitIndex[n] \in Nat
      /\ currentTerm[n] \in Nat /\ currentTerm'[n] \in Nat /\ currentTerm[n] <= currentTerm'[n]
  BY NodeTypes DEF Later, TermsRise
<1>3. Settled(log[n], commitIndex[n], currentTerm[n], termLog, acks)
  BY DEF CommitsSettled
<1>. QED  BY <1>1, <1>2, <1>3, SettledStays

LEMMA PrefixStays ==
  ASSUME TypeOK, TypeOK', CommitsWithin, NEW n \in Server,
         AgreeUpTo(log[n], log'[n], Len(log[n]))
  PROVE  AgreeUpTo(log'[n], log[n], commitIndex[n])
<1>1. log[n] \in Seq(EntryType) /\ log'[n] \in Seq(EntryType) /\ commitIndex[n] \in Nat
      /\ commitIndex[n] <= Len(log[n]) /\ Len(log[n]) \in Nat
  BY NodeTypes DEF CommitsWithin
<1>2. AgreeUpTo(log[n], log'[n], commitIndex[n])
  BY <1>1, AgreeLess
<1>. QED  BY <1>2, AgreeFacts

LEMMA NodeRests ==
  ASSUME TypeOK, TypeOK', Later, CommitsSettled, NEW n \in Server,
         AgreeUpTo(log[n], log'[n], Len(log[n])), commitIndex'[n] = commitIndex[n]
  PROVE  NodeCommits(n)
<1>1. AgreeUpTo(log'[n], log[n], commitIndex[n])
  BY CommitsAreWithin, PrefixStays
<1>2. Settled(log'[n], commitIndex[n], currentTerm'[n], termLog', acks')
  BY <1>1, StaysSettled
<1>3. commitIndex[n] <= commitIndex'[n]
  BY NodeTypes
<1>. QED  BY <1>1, <1>2, <1>3 DEF NodeCommits

\* What advanceCommit counts is chosen.
LEMMA NodeAdvances ==
  ASSUME TypeOK, TypeOK', Later, LogInv', MatchesHeld', CommitsSettled, NEW n \in Server,
         AgreeUpTo(log[n], log'[n], Len(log[n])), role'[n] = "LEADER",
         commitIndex'[n] = AdvancedCommit(n, log'[n], matchIndex'[n], currentTerm'[n],
                                          commitIndex[n])
  PROVE  NodeCommits(n)
<1>. DEFINE l == log'[n]
            t == currentTerm'[n]
            match == matchIndex'[n]
            d == commitIndex'[n]
<1>1. /\ l \in Seq(EntryType) /\ t \in Nat /\ commitIndex[n] \in Nat /\ d \in Nat
      /\ match \in [Server -> Nat]
  BY NodeTypes DEF TypeOK
<1>2. t \in DOMAIN termLog' /\ l = termLog'[t]
  BY LogInvAfter
<1>3. /\ \A i \in 1..Len(l) : Ack(n, t, i) \in acks'
      /\ \A p \in Server : \A i \in 1..match[p] : Ack(p, t, i) \in acks'
  BY DEF MatchesHeld
<1>4. d = AdvancedCommit(n, l, match, t, commitIndex[n])
  OBVIOUS
<1>. HIDE DEF l, t, match, d
<1>5. /\ commitIndex[n] <= d
      /\ d = commitIndex[n] \/ (d \in 1..Len(l) /\ l[d].term = t /\ Agreeing(n, match, d) \in Quorums)
  BY <1>1, <1>4, AdvanceFacts
<1>6. CASE d = commitIndex[n]
  BY <1>6, NodeRests DEF d
<1>7. CASE d \in 1..Len(l) /\ l[d].term = t /\ Agreeing(n, match, d) \in Quorums
  <2>1. ASSUME NEW v \in Agreeing(n, match, d) PROVE Ack(v, t, d) \in acks'
    <3>1. CASE v = n
      BY <1>3, <1>7, <3>1
    <3>2. CASE v # n
      <4>1. v \in Server /\ match[v] >= d
        BY <3>2 DEF Agreeing, Peers
      <4>2. d \in 1..match[v]
        BY <1>1, <1>7, <4>1
      <4>. QED  BY <1>3, <4>1, <4>2
    <3>. QED  BY <3>1, <3>2
  <2>2. Chosen(d, t, acks')
    BY <1>7, <2>1 DEF Chosen
  <2>3. AgreeUpTo(l, l, d) /\ d <= d /\ t <= t
    BY <1>1, <1>7 DEF AgreeUpTo
  <2>4. Settled(l, d, t, termLog', acks')
    BY <1>2, <1>7, <2>2, <2>3 DEF Settled
  <2>5. AgreeUpTo(log'[n], log[n], commitIndex[n])
    BY CommitsAreWithin, PrefixStays
  <2>. QED  BY <1>5, <2>4, <2>5 DEF NodeCommits, l, d, t
<1>. QED  BY <1>5, <1>6, <1>7

LEMMA FollowerCommitFacts ==
  ASSUME NEW r, NEW l, NEW c \in Nat, r.leaderCommit \in Nat,
         r.prevLogIndex + Len(r.entries) \in Nat, LastIndex(l) \in Nat
  PROVE  LET d == FollowerCommit(r, l, c)
         IN  /\ d \in Nat /\ c <= d
             /\ d = c \/ (d <= r.leaderCommit /\ d <= r.prevLogIndex + Len(r.entries))
<1>. DEFINE S == {r.leaderCommit, r.prevLogIndex + Len(r.entries), LastIndex(l)}
            new == Min(S)
<1>1. S \in SUBSET Nat /\ S # {}
  OBVIOUS
<1>2. new \in S /\ \A x \in S : new <= x
  BY <1>1, MinNat
<1>3. new \in Nat /\ new <= r.leaderCommit /\ new <= r.prevLogIndex + Len(r.entries)
  BY <1>1, <1>2
<1>. HIDE DEF S, new
<1>4. {new, c} \in SUBSET Nat /\ {new, c} # {} /\ new + c \in Nat /\ \A x \in {new, c} : x <= new + c
  BY <1>3
<1>5. Max({new, c}) \in {new, c} /\ c <= Max({new, c})
  BY <1>4, MaxNat
<1>6. FollowerCommit(r, l, c) = Max({new, c})
  BY DEF FollowerCommit, S, new
<1>. QED  BY <1>3, <1>5, <1>6

\* What a follower counts its leader has counted, and the request vouches for it.
LEMMA NodeFollows ==
  ASSUME TypeOK, TypeOK', LogInv, LogInv', Later, TermsComplete, CommitsSettled,
         NEW r \in appendReqs, StepFollows(r)
  PROVE  NodeCommits(r.to)
<1>. DEFINE v == r.to
            h == r.prevLogIndex + Len(r.entries)
            m == termLog[r.term]
            k == log'[v]
            c == commitIndex[v]
            d == commitIndex'[v]
<1>1. /\ v \in Server /\ r.term \in Nat /\ r.term \in DOMAIN termLog /\ h \in Nat
      /\ currentTerm'[v] = r.term /\ m \in Seq(EntryType) /\ k \in Seq(EntryType)
      /\ AgreeUpTo(k, m, h) /\ k = Reconcile(log[v], r.entries)
  BY FollowFacts
<1>2. c \in Nat /\ d \in Nat /\ r.leaderCommit \in Nat
  BY <1>1, NodeTypes, LogTypes
<1>3. AgreeUpTo(k, log[v], c) /\ c <= Len(k)
  BY FollowKeepsCommitted DEF AgreeUpTo
<1>4. Settled(k, c, currentTerm'[v], termLog', acks')
  BY <1>1, <1>3, StaysSettled
<1>5. d \in {FollowerCommit(r, k, c), Min({c, Len(k)})}
  <2>1. commitIndex \in [Server -> Nat]
    BY DEF TypeOK
  <2>. QED  BY <1>1, <2>1 DEF StepFollows
<1>6. Min({c, Len(k)}) = c
  BY <1>1, <1>2, <1>3, MinIsFirst
<1>7. LastIndex(k) \in Nat
  BY <1>1, LogTypesAfter, LogInvAfter, GenuineOrdered
<1>8. c <= d /\ (d = c \/ (d <= r.leaderCommit /\ d <= h))
  <2>1. d = FollowerCommit(r, k, c) \/ d = c
    BY <1>5, <1>6
  <2>. HIDE DEF k, c, d
  <2>2. LET e == FollowerCommit(r, k, c)
        IN  /\ e \in Nat /\ c <= e
            /\ e = c \/ (e <= r.leaderCommit /\ e <= h)
    BY <1>1, <1>2, <1>7, FollowerCommitFacts
  <2>. QED  BY <1>2, <2>1, <2>2
<1>9. CASE d = c
  BY <1>3, <1>4, <1>8, <1>9 DEF NodeCommits
<1>10. CASE d <= r.leaderCommit /\ d <= h
  <2>1. Settled(m, r.leaderCommit, r.term, termLog, acks)
    BY DEF CommitsSettled
  <2>2. AgreeUpTo(k, m, d)
    <3>. HIDE DEF k, m, h, d
    <3>. QED  BY <1>1, <1>2, <1>10, AgreeLess
  <2>3. /\ LogsType(termLog) /\ LogsType(termLog') /\ Grows(termLog, termLog') /\ acks \subseteq acks'
        /\ r.term <= r.term
    BY <1>1, LogTypes, LogTypesAfter DEF Later, AcksGrow
  <2>. HIDE DEF k, m, h, d
  <2>4. Settled(k, d, r.term, termLog', acks')
    BY <1>1, <1>2, <1>10, <2>1, <2>2, <2>3, SettledStays
  <2>. QED  BY <1>1, <1>3, <1>8, <2>4 DEF NodeCommits, k, d
<1>. QED  BY <1>8, <1>9, <1>10

LEMMA AllCommit ==
  ASSUME TypeOK, TypeOK', LogInv, LogInv', MatchesHeld', TermsComplete, CommitsSettled, Shaped
  PROVE  \A n \in Server : NodeCommits(n)
<1>. SUFFICES ASSUME NEW n \in Server PROVE NodeCommits(n)
  OBVIOUS
<1>0. Later
  BY LaterStep
<1>1. ASSUME log'[n] = log[n] PROVE AgreeUpTo(log[n], log'[n], Len(log[n]))
  BY <1>1, LogTypes DEF AgreeUpTo
<1>2. CASE StepRests
  BY <1>0, <1>1, <1>2, NodeRests DEF StepRests
<1>3. ASSUME NEW r \in appendReqs, StepFollows(r) PROVE NodeCommits(n)
  <2>1. CASE n = r.to
    BY <1>0, <1>3, <2>1, NodeFollows
  <2>2. CASE n # r.to
    <3>1. log'[n] = log[n]
      BY <1>3, <2>2, FollowFacts
    <3>2. commitIndex'[n] = commitIndex[n]
      <4>1. commitIndex \in [Server -> Nat]
        BY DEF TypeOK
      <4>. QED  BY <1>3, <2>2, <4>1 DEF StepFollows
    <3>. QED  BY <1>0, <1>1, <3>1, <3>2, NodeRests
  <2>. QED  BY <2>1, <2>2
<1>4. ASSUME NEW v \in Server, NEW t \in Nat, NEW e \in Command, StepWrites(v, t, e)
      PROVE  NodeCommits(n)
  <2>1. AgreeUpTo(log[n], log'[n], Len(log[n])) /\ currentTerm'[v] = t
    BY <1>4, WriteExtends
  <2>. DEFINE l == Extended(v, t, e)
              d == AdvancedCommit(v, l, matchIndex'[v], t, commitIndex[v])
  <2>2. commitIndex \in [Server -> Nat] /\ log'[v] = l
    BY <1>4, LogTypes DEF StepWrites, TypeOK
  <2>3. \/ commitIndex' = commitIndex
        \/ role'[v] = "LEADER" /\ commitIndex' = [commitIndex EXCEPT ![v] = d]
    BY <1>4 DEF StepWrites
  <2>. HIDE DEF l
  <2>4. CASE commitIndex'[n] = commitIndex[n]
    BY <1>0, <2>1, <2>4, NodeRests
  <2>5. CASE n = v /\ role'[v] = "LEADER" /\ commitIndex'[v] = d
    BY <1>0, <2>1, <2>2, <2>5, NodeAdvances
  <2>. HIDE DEF d
  <2>6. commitIndex'[n] = commitIndex[n] \/ (n = v /\ role'[v] = "LEADER" /\ commitIndex'[v] = d)
    BY <2>2, <2>3
  <2>. QED  BY <2>4, <2>5, <2>6
<1>5. ASSUME NEW m \in appendReps, StepCounts(m) PROVE NodeCommits(n)
  <2>. DEFINE v == m.to
              match == [matchIndex[v] EXCEPT ![m.from] = NewMatch(m)]
              d == AdvancedCommit(v, log[v], match, currentTerm[v], commitIndex[v])
  <2>1. /\ StillLeads(m) /\ log' = log /\ role' = role /\ currentTerm' = currentTerm
        /\ matchIndex' = [matchIndex EXCEPT ![v] = match]
        /\ commitIndex' = [commitIndex EXCEPT ![v] = d]
    BY <1>5 DEF StepCounts
  <2>2. v \in Server /\ role'[v] = "LEADER"
    BY <2>1, LogTypes DEF StillLeads
  <2>. HIDE DEF match
  <2>3. matchIndex'[v] = match
    <3>1. matchIndex \in [Server -> [Server -> Nat]]
      BY DEF TypeOK
    <3>. QED  BY <2>1, <2>2, <3>1
  <2>4. CASE n = v
    <3>1. commitIndex'[v] = d
      BY <2>1, <2>2 DEF TypeOK
    <3>2. commitIndex'[n] = AdvancedCommit(n, log'[n], matchIndex'[n], currentTerm'[n],
                                           commitIndex[n])
      BY <2>1, <2>3, <2>4, <3>1
    <3>. QED  BY <1>0, <1>1, <2>1, <2>2, <2>4, <3>2, NodeAdvances
  <2>5. CASE n # v
    <3>1. commitIndex'[n] = commitIndex[n]
      <4>. HIDE DEF d
      <4>. QED  BY <2>1, <2>5 DEF TypeOK
    <3>. QED  BY <1>0, <1>1, <2>1, <3>1, NodeRests
  <2>. QED  BY <2>4, <2>5
<1>. QED  BY <1>2, <1>3, <1>4, <1>5 DEF Shaped, Shape

LEMMA TermLogSettled ==
  ASSUME TypeOK, TypeOK', Later, NEW t \in DOMAIN termLog, NEW c \in Nat,
         Settled(termLog[t], c, t, termLog, acks)
  PROVE  Settled(termLog'[t], c, t, termLog', acks')
<1>1. /\ LogsType(termLog) /\ LogsType(termLog') /\ Grows(termLog, termLog') /\ acks \subseteq acks'
  BY LogTypes, LogTypesAfter DEF Later, AcksGrow
<1>2. /\ t \in Nat /\ termLog[t] \in Seq(EntryType) /\ termLog'[t] \in Seq(EntryType)
      /\ AgreeUpTo(termLog[t], termLog'[t], Len(termLog[t])) /\ Len(termLog[t]) \in Nat
  BY <1>1 DEF LogsType, Grows
<1>3. c > 0 => AgreeUpTo(termLog'[t], termLog[t], c)
  <2>1. ASSUME c > 0 PROVE AgreeUpTo(termLog'[t], termLog[t], c)
    <3>1. c <= Len(termLog[t])
      BY <2>1 DEF Settled, AgreeUpTo
    <3>2. AgreeUpTo(termLog[t], termLog'[t], c)
      BY <1>2, <3>1, AgreeLess
    <3>. QED  BY <3>2, AgreeFacts
  <2>. QED  BY <2>1
<1>4. c <= c /\ t <= t
  BY <1>2
<1>. QED  BY <1>1, <1>2, <1>3, <1>4, SettledStays

LEMMA CommitsStep ==
  ASSUME TypeOK, TypeOK', LogInv, LogInv', MatchesHeld', TermsComplete, CommitsSettled, Shaped
  PROVE  CommitsSettled'
<1>0. Later
  BY LaterStep
<1>1. ASSUME NEW n \in Server
      PROVE  Settled(log'[n], commitIndex'[n], currentTerm'[n], termLog', acks')
  BY AllCommit DEF NodeCommits
<1>2. ASSUME NEW r \in appendReqs'
      PROVE  Settled(termLog'[r.term], r.leaderCommit, r.term, termLog', acks')
  <2>1. ASSUME NEW q \in appendReqs, SameRequest(r, q)
        PROVE  Settled(termLog'[r.term], r.leaderCommit, r.term, termLog', acks')
    <3>1. r.term = q.term /\ r.leaderCommit = q.leaderCommit
      BY <2>1 DEF SameRequest
    <3>2. q.term \in DOMAIN termLog /\ q.leaderCommit \in Nat
      BY RequestFacts, LogTypes
    <3>3. Settled(termLog[q.term], q.leaderCommit, q.term, termLog, acks)
      BY DEF CommitsSettled
    <3>. QED  BY <1>0, <3>1, <3>2, <3>3, TermLogSettled
  <2>2. ASSUME NEW n \in Server, role[n] = "LEADER", r.term = currentTerm[n],
               r.leaderCommit = commitIndex[n]
        PROVE  Settled(termLog'[r.term], r.leaderCommit, r.term, termLog', acks')
    <3>1. r.term \in DOMAIN termLog /\ log[n] = termLog[r.term] /\ commitIndex[n] \in Nat
      BY <2>2, LeaderFacts, NodeTypes
    <3>2. Settled(termLog[r.term], commitIndex[n], r.term, termLog, acks)
      BY <2>2, <3>1 DEF CommitsSettled
    <3>. QED  BY <1>0, <2>2, <3>1, <3>2, TermLogSettled
  <2>. QED  BY <2>1, <2>2 DEF Shaped, Sends
<1>. QED  BY <1>1, <1>2 DEF CommitsSettled

LEMMA CommitInvStep ==
  ASSUME TypeOK, TypeOK', DurableState, ElectionInv, ElectionInv', ElectionSafety', LogInv, LogInv',
         CommitInv, ~MetaTearing, Next
  PROVE  CommitInv' /\ \A n \in Server : NodeCommits(n)
<1>1. Shaped
  BY CommitsAreWithin, StepsShaped DEF CommitInv
<1>2. AcksHeld'
  BY <1>1, HeldStep DEF CommitInv
<1>3. MatchesHeld'
  BY <1>1, MatchesStep DEF CommitInv
<1>4. RequestsOfCandidates'
  BY <1>1, RequestsStep DEF CommitInv, ElectionInv
<1>5. VotersComplete'
  BY <1>1, VotersStep DEF CommitInv, ElectionInv
<1>6. TermsComplete'
  BY <1>1, TermsStep DEF CommitInv
<1>7. CommitsSettled' /\ \A n \in Server : NodeCommits(n)
  BY <1>1, <1>3, CommitsStep, AllCommit DEF CommitInv
<1>. QED  BY <1>2, <1>3, <1>4, <1>5, <1>6, <1>7 DEF CommitInv

LEMMA CommitInit == Init => CommitInv
<1>1. ASSUME Init
      PROVE  /\ acks = {} /\ DOMAIN termLog = {} /\ appendReqs = {} /\ appendReps = {}
             /\ voteReqs = {} /\ ballots = {}
             /\ \A p \in Server : role[p] = "FOLLOWER" /\ commitIndex[p] = 0
  BY <1>1 DEF Init
<1>. QED  BY <1>1 DEF CommitInv, AcksHeld, MatchesHeld, RequestsOfCandidates, VotersComplete,
              TermsComplete, CommitsSettled, Settled

LEMMA CommitInvRests ==
  ASSUME CommitInv, UNCHANGED vars
  PROVE  CommitInv'
<1>1. UNCHANGED <<role, currentTerm, log, commitIndex, matchIndex, appendReqs, appendReps,
                  voteReqs, ballots, termLog, acks>>
  BY DEF vars, nodeVars, logVars, leaderVars, voteMsgs, appendMsgs, history, leaderHist
<1>. QED  BY <1>1 DEF CommitInv, AcksHeld, Held, MatchesHeld, RequestsOfCandidates, Stands,
              VotersComplete, TermsComplete, CommitsSettled, Blocked

-----------------------------------------------------------------------------
(* Theorems *)

\* What a majority holds for a leader every later leader has, because a voter
\* knows it and votes for no log without it; what some later leader lacks no
\* majority will ever hold: the promise behind handleRequestVote's comparison of
\* logs and advanceCommit's count of entries of the current term.
THEOREM CommitInvariant == ~MetaTearing => (Spec => []CommitInv)
<1>. SUFFICES ASSUME ~MetaTearing PROVE Spec => []CommitInv
  OBVIOUS
<1>1. /\ TypeOK /\ TypeOK' /\ DurableState /\ ElectionInv /\ ElectionInv' /\ ElectionSafety'
      /\ LogInv /\ LogInv' /\ CommitInv /\ [Next]_vars
      => CommitInv'
  BY CommitInvStep, CommitInvRests
<1>. QED  BY <1>1, CommitInit, TypeCorrect, Durable, AtMostOneLeader, ElectionInvariant,
             LogInvariant, PTL DEF Spec
=============================================================================
