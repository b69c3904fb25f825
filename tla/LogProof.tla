------------------------------- MODULE LogProof -------------------------------
(***************************************************************************)
(* Logs that agree on a term at an index agree up to it, for every set of  *)
(* servers and every bound, on the assumption that metadata.bin is never   *)
(* found truncated.  The inductive invariant is LogInv: every log is made  *)
(* of what leaders have written, and a term has one leader.                *)
(***************************************************************************)
EXTENDS RaftInv, RaftProof

-----------------------------------------------------------------------------
(* Logs that agree *)

LEMMA AgreeFacts ==
  /\ \A l, m, k : AgreeUpTo(l, m, k) => AgreeUpTo(m, l, k)
  /\ \A l, m, o, k : AgreeUpTo(l, m, k) /\ AgreeUpTo(m, o, k) => AgreeUpTo(l, o, k)
  BY DEF AgreeUpTo

LEMMA AgreeLess ==
  ASSUME NEW l \in Seq(EntryType), NEW m \in Seq(EntryType), NEW k \in Nat, NEW j \in Nat,
         AgreeUpTo(l, m, k), j <= k
  PROVE  AgreeUpTo(l, m, j)
  BY DEF AgreeUpTo

LEMMA PrefixFacts ==
  ASSUME NEW l \in Seq(EntryType), NEW k \in Nat, k <= Len(l)
  PROVE  /\ SubSeq(l, 1, k) \in Seq(EntryType) /\ Len(SubSeq(l, 1, k)) = k
         /\ \A i \in 1..k : SubSeq(l, 1, k)[i] = l[i]
  OBVIOUS

LEMMA AgreeAll ==
  ASSUME NEW l \in Seq(EntryType)
  PROVE  \A k \in 0..Len(l) : AgreeUpTo(l, l, k)
  BY DEF AgreeUpTo

\* What leaders have written: a log for each of their terms, which only grows.
LogsType(T) == DOMAIN T \subseteq Nat /\ T \in [DOMAIN T -> Seq(EntryType)]
Grows(T, U) ==
  /\ DOMAIN T \subseteq DOMAIN U
  /\ \A t \in DOMAIN T : AgreeUpTo(T[t], U[t], Len(T[t]))

LEMMA SameTermAgree ==
  ASSUME NEW T, LogsType(T), NEW l \in Seq(EntryType), NEW m \in Seq(EntryType),
         Genuine(l, T), Genuine(m, T),
         NEW i \in Nat, i \in 1..Len(l), i \in 1..Len(m), l[i].term = m[i].term
  PROVE  AgreeUpTo(l, m, i)
  BY DEF Genuine, AgreeUpTo

LEMMA GenuineGrows ==
  ASSUME NEW T, NEW U, LogsType(T), LogsType(U), Grows(T, U), NEW l \in Seq(EntryType),
         Genuine(l, T)
  PROVE  Genuine(l, U)
<1>1. ASSUME NEW i \in 1..Len(l) PROVE l[i].term \in DOMAIN U /\ AgreeUpTo(l, U[l[i].term], i)
  <2>. DEFINE t == l[i].term
  <2>1. t \in DOMAIN T /\ AgreeUpTo(l, T[t], i)
    BY DEF Genuine
  <2>2. t \in DOMAIN U /\ AgreeUpTo(T[t], U[t], Len(T[t]))
    BY <2>1 DEF Grows
  <2>3. T[t] \in Seq(EntryType) /\ U[t] \in Seq(EntryType)
    BY <2>1, <2>2 DEF LogsType
  <2>. HIDE DEF t
  <2>4. AgreeUpTo(T[t], U[t], i)
    BY <2>1, <2>2, <2>3 DEF AgreeUpTo
  <2>5. AgreeUpTo(l, U[t], i)
    BY <2>1, <2>4, AgreeFacts
  <2>. QED  BY <2>2, <2>5 DEF t
<1>. QED  BY <1>1 DEF Genuine

LEMMA GenuinePrefix ==
  ASSUME NEW T, LogsType(T), NEW l \in Seq(EntryType), NEW m \in Seq(EntryType),
         Genuine(m, T), AgreeUpTo(l, m, Len(l))
  PROVE  Genuine(l, T)
<1>1. ASSUME NEW i \in 1..Len(l) PROVE l[i].term \in DOMAIN T /\ AgreeUpTo(l, T[l[i].term], i)
  <2>1. l[i] = m[i] /\ i \in 1..Len(m) /\ AgreeUpTo(l, m, i)
    BY DEF AgreeUpTo
  <2>2. m[i].term \in DOMAIN T /\ AgreeUpTo(m, T[m[i].term], i)
    BY <2>1 DEF Genuine
  <2>. QED  BY <2>1, <2>2, AgreeFacts
<1>. QED  BY <1>1 DEF Genuine

\* Indices and terms of a genuine log are those of the leaders' logs.
WellFormedLogs(T) == \A t \in DOMAIN T : WellFormed(T[t], t)

LEMMA GenuineOrdered ==
  ASSUME NEW T, LogsType(T), WellFormedLogs(T), NEW l \in Seq(EntryType), Genuine(l, T)
  PROVE  /\ \A i \in 1..Len(l) : l[i].index = i
         /\ \A i, j \in 1..Len(l) : i <= j => l[i].term <= l[j].term
         /\ LastIndex(l) = Len(l)
<1>1. ASSUME NEW j \in 1..Len(l)
      PROVE  l[j].index = j /\ \A i \in 1..j : l[i].term <= l[j].term
  <2>. DEFINE m == T[l[j].term]
  <2>1. WellFormed(m, l[j].term) /\ AgreeUpTo(l, m, j)
    BY DEF Genuine, WellFormedLogs
  <2>2. m \in Seq(EntryType)
    BY DEF Genuine, LogsType
  <2>. HIDE DEF m
  <2>. QED  BY <2>1, <2>2 DEF WellFormed, AgreeUpTo
<1>2. \A i, j \in 1..Len(l) : i <= j => l[i].term <= l[j].term
  BY <1>1
<1>3. LastIndex(l) = Len(l)
  <2>1. l # <<>> => Len(l) \in 1..Len(l)
    OBVIOUS
  <2>. QED  BY <1>1, <2>1 DEF LastIndex
<1>. QED  BY <1>1, <1>2, <1>3

\* A request is the part es of the leader's log m after prev, and l agrees with
\* m up to prev: the loop leaves l alone, having all of es, or leaves what m has
\* up to the end of es.
LEMMA ReconcileAgrees ==
  ASSUME NEW l \in Seq(EntryType), NEW m \in Seq(EntryType), NEW es \in Seq(EntryType),
         NEW prev \in Nat, prev + Len(es) <= Len(m),
         \A i \in 1..Len(m) : m[i].index = i,
         \A k \in 1..Len(es) : es[k] = m[prev + k],
         \A i \in 1..Len(l) : i <= Len(m) /\ l[i].term = m[i].term => AgreeUpTo(l, m, i),
         AgreeUpTo(l, m, prev)
  PROVE  LET h == prev + Len(es)
             r == Reconcile(l, es)
         IN  /\ AgreeUpTo(r, m, h)
             /\ r = l \/ (Len(r) = h /\ ~AgreeUpTo(l, m, h))
<1>. DEFINE h == prev + Len(es)
            r == Reconcile(l, es)
            D == Differing(l, es)
<1>1. /\ Len(l) \in Nat /\ Len(m) \in Nat /\ Len(es) \in Nat /\ h \in Nat /\ h <= Len(m)
      /\ prev <= Len(l)
  BY DEF AgreeUpTo
<1>2. \A k \in 1..Len(es) : es[k].index = prev + k /\ es[k].term = m[prev + k].term
  BY <1>1
<1>3. D = {k \in 1..Len(es) : prev + k > Len(l) \/ l[prev + k].term # es[k].term}
  BY <1>2 DEF Differing
<1>4. ASSUME NEW k \in Nat, k <= Len(es), \A j \in 1..k : j \notin D
      PROVE  AgreeUpTo(l, m, prev + k)
  <2>1. CASE k = 0
    BY <2>1
  <2>2. CASE k # 0
    <3>1. k \in 1..Len(es) /\ k \notin D
      BY <1>4, <2>2
    <3>2. prev + k \in 1..Len(l) /\ l[prev + k].term = m[prev + k].term
      BY <1>1, <1>2, <1>3, <3>1
    <3>. QED  BY <1>1, <3>1, <3>2
  <2>. QED  BY <2>1, <2>2
<1>5. CASE D = {}
  <2>1. r = l
    BY <1>5 DEF Reconcile
  <2>2. AgreeUpTo(l, m, h)
    BY <1>1, <1>4, <1>5
  <2>. QED  BY <2>1, <2>2
<1>6. CASE D # {}
  <2>1. D \in SUBSET Nat
    BY <1>3
  <2>2. Min(D) \in D /\ \A x \in D : Min(D) <= x
    BY <1>6, <2>1, MinNat
  <2>3. PICK k \in 1..Len(es) : k = Min(D)
    BY <1>3, <2>2
  <2>4. k \in D /\ \A j \in 1 .. k - 1 : j \notin D
    BY <2>2, <2>3
  <2>5. r = Before(l, prev + k) \o SubSeq(es, k, Len(es))
    BY <1>2, <1>6, <2>3 DEF Reconcile
  <2>. HIDE DEF D
  <2>6. AgreeUpTo(l, m, prev + (k - 1)) /\ prev + k - 1 <= Len(l)
    <3>1. AgreeUpTo(l, m, prev + (k - 1))
      BY <1>4, <2>3, <2>4
    <3>. QED  BY <1>1, <3>1 DEF AgreeUpTo
  <2>. DEFINE b == Before(l, prev + k)
              e == SubSeq(es, k, Len(es))
              q == prev + k - 1
  <2>7. q \in Nat /\ q - prev = k - 1 /\ prev <= q /\ q <= h /\ q <= Len(l)
    BY <1>1, <2>3, <2>6
  <2>8. b \in Seq(EntryType) /\ Len(b) = q /\ \A i \in 1..q : b[i] = m[i]
    <3>1. \A i \in 1..q : l[i] = m[i]
      BY <1>1, <2>6 DEF AgreeUpTo
    <3>2. b = IF prev + k > Len(l) THEN l ELSE SubSeq(l, 1, q)
      BY DEF Before
    <3>3. CASE prev + k > Len(l)
      <4>1. Len(l) = q
        BY <1>1, <2>3, <2>7, <3>3 DEF q
      <4>. QED  BY <3>1, <3>2, <3>3, <4>1
    <3>4. CASE ~(prev + k > Len(l))
      <4>. HIDE DEF q
      <4>1. b = SubSeq(l, 1, q)
        BY <3>2, <3>4
      <4>2. q \in Nat /\ q <= Len(l) /\ l \in Seq(EntryType)
        BY <2>7
      <4>3. SubSeq(l, 1, q) \in Seq(EntryType) /\ Len(SubSeq(l, 1, q)) = q
            /\ \A i \in 1..q : SubSeq(l, 1, q)[i] = l[i]
        BY <4>2, PrefixFacts
      <4>. HIDE DEF b
      <4>. QED  BY <3>1, <4>1, <4>3
    <3>. QED  BY <3>3, <3>4
  <2>9. /\ e \in Seq(EntryType) /\ Len(e) = h - q
        /\ \A i \in 1..Len(e) : e[i] = es[q - prev + i]
    BY <1>1, <2>3
  <2>. HIDE DEF b, e, q, h
  <2>10. Len(b \o e) = h /\ \A i \in 1..h : (b \o e)[i] = m[i]
    <3>1. /\ Len(b \o e) = h
          /\ \A i \in 1..h : (b \o e)[i] = IF i <= q THEN b[i] ELSE e[i - q]
      <4>1. Len(b) + Len(e) = h
        BY <1>1, <2>7, <2>8, <2>9
      <4>2. /\ Len(b \o e) = Len(b) + Len(e)
            /\ \A i \in 1 .. Len(b) + Len(e) :
                 (b \o e)[i] = IF i <= Len(b) THEN b[i] ELSE e[i - Len(b)]
        BY <2>8, <2>9, ConcatProperties
      <4>. QED  BY <2>8, <4>1, <4>2
    <3>2. ASSUME NEW i \in 1..h, i <= q PROVE (b \o e)[i] = m[i]
      BY <2>7, <2>8, <3>1, <3>2
    <3>3. ASSUME NEW i \in 1..h, i > q PROVE (b \o e)[i] = m[i]
      <4>1. i - q \in 1..Len(e) /\ q - prev + (i - q) = i - prev
        BY <1>1, <2>7, <2>9, <3>3
      <4>2. (b \o e)[i] = e[i - q]
        BY <2>7, <3>1, <3>3
      <4>3. e[i - q] = es[i - prev]
        BY <2>9, <4>1
      <4>4. i - prev \in 1..Len(es) /\ prev + (i - prev) = i
        BY <1>1, <2>7, <3>3 DEF h
      <4>. QED  BY <4>2, <4>3, <4>4
    <3>4. \A i \in 1..h : i <= q \/ i > q
      BY <1>1, <2>7
    <3>5. \A i \in 1..h : (b \o e)[i] = m[i]
      BY <3>2, <3>3, <3>4
    <3>. QED  BY <3>1, <3>5
  <2>11. ~AgreeUpTo(l, m, h)
    <3>1. prev + k > Len(l) \/ l[prev + k].term # m[prev + k].term
      BY <1>2, <1>3, <2>3, <2>4 DEF D
    <3>2. prev + k \in 1..h
      BY <1>1, <2>3 DEF h
    <3>. QED  BY <1>1, <2>3, <3>1, <3>2 DEF AgreeUpTo
  <2>12. r = b \o e
    BY <2>5 DEF b, e
  <2>. HIDE DEF r
  <2>13. AgreeUpTo(r, m, h)
    BY <1>1, <2>10, <2>12 DEF AgreeUpTo
  <2>. QED  BY <2>10, <2>11, <2>12, <2>13 DEF h, r
<1>. QED  BY <1>5, <1>6

\* The leader of term t, which has k, writes e: its first entry of the term or a
\* later one.
GenuineLogs(T) == \A t \in DOMAIN T : Genuine(T[t], T)

Written(T, k, t, e) == [u \in DOMAIN T \cup {t} |-> IF u = t THEN Append(k, e) ELSE T[u]]

LEMMA EntryWritten ==
  ASSUME NEW T, LogsType(T), WellFormedLogs(T), GenuineLogs(T),
         NEW k \in Seq(EntryType), Genuine(k, T), NEW t \in Nat,
         \A i \in 1..Len(k) : k[i].term <= t, t \in DOMAIN T => T[t] = k,
         NEW e \in EntryType, e.term = t, e.index = Len(k) + 1
  PROVE  LET U == Written(T, k, t, e)
         IN  /\ LogsType(U) /\ Grows(T, U) /\ WellFormedLogs(U) /\ GenuineLogs(U)
             /\ t \in DOMAIN U /\ U[t] = Append(k, e)
<1>. DEFINE U == Written(T, k, t, e)
            l == Append(k, e)
<1>1. /\ l \in Seq(EntryType) /\ Len(l) = Len(k) + 1 /\ l[Len(k) + 1] = e
      /\ \A i \in 1..Len(k) : l[i] = k[i]
      /\ Len(k) \in Nat
  OBVIOUS
<1>2. /\ DOMAIN U = DOMAIN T \cup {t} /\ U[t] = l
      /\ \A u \in DOMAIN T : u # t => U[u] = T[u]
      /\ U = [u \in DOMAIN U |-> U[u]]
  BY DEF Written
<1>. HIDE DEF l, U
<1>3. LogsType(U)
  <2>1. \A u \in DOMAIN U : U[u] \in Seq(EntryType)
    BY <1>1, <1>2 DEF LogsType
  <2>. QED  BY <1>2, <2>1 DEF LogsType
<1>4. AgreeUpTo(k, l, Len(k))
  BY <1>1 DEF AgreeUpTo
<1>5. Grows(T, U)
  <2>1. ASSUME NEW u \in DOMAIN T PROVE AgreeUpTo(T[u], U[u], Len(T[u]))
    <3>1. CASE u = t
      BY <1>2, <1>4, <3>1
    <3>2. CASE u # t
      <4>1. U[u] = T[u] /\ T[u] \in Seq(EntryType)
        BY <1>2, <3>2 DEF LogsType
      <4>. QED  BY <4>1 DEF AgreeUpTo
    <3>. QED  BY <3>1, <3>2
  <2>. QED  BY <1>2, <2>1 DEF Grows
<1>6. WellFormedLogs(U)
  <2>1. WellFormed(l, t)
    <3>1. /\ \A i \in 1..Len(k) : k[i].index = i
          /\ \A i, j \in 1..Len(k) : i <= j => k[i].term <= k[j].term
      BY GenuineOrdered
    <3>2. Has(l, Len(l), t)
      BY <1>1 DEF Has
    <3>3. ASSUME NEW i \in 1..Len(l) PROVE l[i].index = i
      BY <1>1, <3>1
    <3>4. ASSUME NEW i \in 1..Len(l), NEW j \in 1..Len(l), i <= j
          PROVE  l[i].term <= l[j].term
      <4>1. CASE j = Len(k) + 1
        BY <1>1, <4>1
      <4>2. CASE j # Len(k) + 1
        <5>1. i \in 1..Len(k) /\ j \in 1..Len(k)
          BY <1>1, <3>4, <4>2
        <5>. QED  BY <1>1, <3>1, <3>4, <5>1
      <4>. QED  BY <4>1, <4>2
    <3>. QED  BY <3>2, <3>3, <3>4 DEF WellFormed
  <2>. QED  BY <1>2, <2>1 DEF WellFormedLogs
<1>7. Genuine(l, U)
  <2>1. Genuine(k, U)
    BY <1>3, <1>5, GenuineGrows
  <2>2. ASSUME NEW i \in 1..Len(l) PROVE l[i].term \in DOMAIN U /\ AgreeUpTo(l, U[l[i].term], i)
    <3>1. CASE i = Len(k) + 1
      <4>1. l[i].term = t /\ i \in 0..Len(l)
        BY <1>1, <3>1
      <4>2. AgreeUpTo(l, l, i)
        BY <1>1, <4>1, AgreeAll
      <4>. QED  BY <1>2, <4>1, <4>2
    <3>2. CASE i # Len(k) + 1
      <4>1. i \in 1..Len(k) /\ l[i] = k[i] /\ AgreeUpTo(l, k, i)
        BY <1>1, <3>2 DEF AgreeUpTo
      <4>2. k[i].term \in DOMAIN U /\ AgreeUpTo(k, U[k[i].term], i)
        BY <2>1, <4>1 DEF Genuine
      <4>. QED  BY <4>1, <4>2, AgreeFacts
    <3>. QED  BY <3>1, <3>2
  <2>. QED  BY <2>2 DEF Genuine
<1>8. GenuineLogs(U)
  <2>1. ASSUME NEW u \in DOMAIN T, u # t PROVE Genuine(U[u], U)
    <3>1. U[u] = T[u] /\ T[u] \in Seq(EntryType) /\ Genuine(T[u], T)
      BY <1>2, <2>1 DEF LogsType, GenuineLogs
    <3>. QED  BY <1>3, <1>5, <3>1, GenuineGrows
  <2>. QED  BY <1>2, <1>7, <2>1 DEF GenuineLogs
<1>. QED  BY <1>2, <1>3, <1>5, <1>6, <1>8 DEF l, U

-----------------------------------------------------------------------------
(* The shapes a step can have *)

\* Terms do not go back, and a candidacy comes with a new term.
TermsRise ==
  \A p \in Server :
    /\ currentTerm'[p] >= currentTerm[p]
    /\ role'[p] = "CANDIDATE" => role[p] = "CANDIDATE" \/ currentTerm'[p] > currentTerm[p]

\* Node p does not become a leader, and as one it looks no further.
LeadsOn(p) ==
  role'[p] = "LEADER" =>
    /\ role[p] = "LEADER" /\ currentTerm'[p] = currentTerm[p]
    /\ nextIndex'[p] = nextIndex[p] /\ matchIndex'[p] = matchIndex[p]

\* A request may lose its owner, or be gone; a reply may be gone, or answer a
\* request.
SameRequest(r, q) ==
  /\ r.from = q.from /\ r.to = q.to /\ r.term = q.term /\ r.prevLogIndex = q.prevLogIndex
  /\ r.prevLogTerm = q.prevLogTerm /\ r.entries = q.entries /\ r.leaderCommit = q.leaderCommit
RequestsOnlyEnd == \A r \in appendReqs' : \E q \in appendReqs : SameRequest(r, q)
EchoOf(m, r) ==
  /\ m.from = r.to /\ m.to = r.from /\ m.electionTerm = r.term
  /\ m.prevIndex = r.prevLogIndex /\ m.count = Len(r.entries)
RepliesOnlyEcho ==
  \A m \in appendReps' : m \in appendReps \/ \E r \in appendReqs : EchoOf(m, r)

LEMMA LogTypes ==
  ASSUME TypeOK
  PROVE  /\ LogsType(termLog) /\ \A n \in Server : log[n] \in Seq(EntryType)
         /\ log \in [Server -> Seq(EntryType)]
         /\ \A r \in appendReqs :
              /\ r.from \in Server /\ r.to \in Server /\ r.term \in Nat /\ r.prevLogIndex \in Nat
              /\ r.prevLogTerm \in Nat /\ r.entries \in Seq(EntryType) /\ r.leaderCommit \in Nat
         /\ \A m \in appendReps :
              /\ m.from \in Server /\ m.to \in Server /\ m.electionTerm \in Nat
              /\ m.prevIndex \in Nat /\ m.count \in Nat /\ m.term \in Nat
  BY DEF TypeOK, LogsType, AppendReqType, AppendRepType

LEMMA LogTypesAfter ==
  ASSUME TypeOK'
  PROVE  /\ LogsType(termLog') /\ \A n \in Server : log'[n] \in Seq(EntryType)
         /\ \A n \in Server : currentTerm'[n] \in Nat
  BY DEF TypeOK, LogsType

LEMMA PieceGrows ==
  ASSUME NEW l \in Seq(EntryType), NEW m \in Seq(EntryType), AgreeUpTo(l, m, Len(l)),
         NEW r, r.prevLogIndex \in Nat, r.entries \in Seq(EntryType), Piece(r, l)
  PROVE  Piece(r, m)
<1>1. Len(r.entries) \in Nat
  OBVIOUS
<1>2. Len(l) \in Nat /\ Len(m) \in Nat /\ Len(l) <= Len(m) /\ \A j \in 1..Len(l) : l[j] = m[j]
  BY DEF AgreeUpTo
<1>3. r.prevLogIndex + Len(r.entries) \in 1..Len(l)
  BY DEF Piece, Has
<1>4. /\ r.prevLogIndex > 0 => r.prevLogIndex \in 1..Len(l)
      /\ \A k \in 1..Len(r.entries) : r.prevLogIndex + k \in 1..Len(l)
  BY <1>1, <1>2, <1>3
<1>5. Has(m, r.prevLogIndex + Len(r.entries), r.term)
  BY <1>2, <1>3 DEF Piece, Has
<1>. QED  BY <1>2, <1>4, <1>5 DEF Piece

\* Requests and replies are about the logs of leaders, which only grow.
LEMMA MessagesKept ==
  ASSUME TypeOK, LogsType(termLog'), Reigned, RequestsArePieces, RepliesAreEchoes,
         Grows(termLog, termLog'), elected \subseteq elected', RequestsOnlyEnd, RepliesOnlyEcho
  PROVE  RequestsArePieces' /\ RepliesAreEchoes'
<1>1. ASSUME NEW t \in Nat, NEW n, Reign(t, n) \in elected
      PROVE  /\ t \in DOMAIN termLog /\ termLog[t] \in Seq(EntryType)
             /\ termLog'[t] \in Seq(EntryType)
             /\ AgreeUpTo(termLog[t], termLog'[t], Len(termLog[t]))
             /\ Reign(t, n) \in elected'
  <2>1. t \in DOMAIN termLog
    BY <1>1 DEF Reigned, Reign
  <2>. QED  BY <1>1, <2>1, LogTypes DEF Grows, LogsType
<1>2. ASSUME NEW q \in appendReqs
      PROVE  /\ q.from # q.to /\ Reign(q.term, q.from) \in elected' /\ Piece(q, termLog'[q.term])
             /\ Has(termLog'[q.term], q.prevLogIndex + Len(q.entries), q.term)
  <2>1. /\ q.from # q.to /\ Reign(q.term, q.from) \in elected /\ Piece(q, termLog[q.term])
    BY DEF RequestsArePieces
  <2>2. Piece(q, termLog'[q.term])
    BY <1>1, <2>1, LogTypes, PieceGrows
  <2>. QED  BY <1>1, <2>1, <2>2, LogTypes DEF Piece
<1>3. ASSUME NEW r \in appendReqs'
      PROVE  r.from # r.to /\ Reign(r.term, r.from) \in elected' /\ Piece(r, termLog'[r.term])
  <2>1. PICK q \in appendReqs : SameRequest(r, q)
    BY DEF RequestsOnlyEnd
  <2>. QED  BY <1>2, <2>1 DEF SameRequest, Piece
<1>4. ASSUME NEW m \in appendReps'
      PROVE  /\ m.from # m.to /\ Reign(m.electionTerm, m.to) \in elected'
             /\ Has(termLog'[m.electionTerm], m.prevIndex + m.count, m.electionTerm)
  <2>1. CASE m \in appendReps
    <3>1. /\ m.from # m.to /\ Reign(m.electionTerm, m.to) \in elected
          /\ Has(termLog[m.electionTerm], m.prevIndex + m.count, m.electionTerm)
      BY <2>1 DEF RepliesAreEchoes
    <3>2. m.electionTerm \in Nat /\ m.prevIndex + m.count \in Nat
      BY <2>1, LogTypes
    <3>. QED  BY <1>1, <3>1, <3>2 DEF Has, AgreeUpTo
  <2>2. CASE \E r \in appendReqs : EchoOf(m, r)
    BY <1>2, <2>2 DEF EchoOf
  <2>. QED  BY <2>1, <2>2 DEF RepliesOnlyEcho
<1>. QED  BY <1>3, <1>4 DEF RequestsArePieces, RepliesAreEchoes

LEMMA ReignedKept ==
  ASSUME TypeOK, TypeOK', Reigned, TermsRise, UNCHANGED <<termLog, elected>>
  PROVE  Reigned'
<1>1. \A p \in Server : currentTerm[p] \in Nat /\ currentTerm'[p] \in Nat
  BY DEF TypeOK
<1>2. \A e \in elected : e.leader \in Server /\ e.term \in Nat
  BY DEF TypeOK
<1>. QED  BY <1>1, <1>2 DEF Reigned, TermsRise

\* A step that writes nothing.
LEMMA CalmStep ==
  ASSUME TypeOK, TypeOK', LogInv, UNCHANGED <<log, termLog, elected>>, TermsRise,
         \A p \in Server : LeadsOn(p), RequestsOnlyEnd, RepliesOnlyEcho
  PROVE  LogInv'
<1>1. TermLogs'
  BY DEF LogInv, TermLogs
<1>2. ServerLogs'
  <2>1. ASSUME NEW n \in Server, NEW i \in 1..Len(log[n]) PROVE log[n][i].term <= currentTerm'[n]
    <3>1. log[n][i].term \in Nat /\ currentTerm[n] \in Nat /\ currentTerm'[n] \in Nat
      <4>1. log[n] \in Seq(EntryType) /\ currentTerm[n] \in Nat /\ currentTerm'[n] \in Nat
        BY DEF TypeOK
      <4>2. log[n][i] \in EntryType
        BY <4>1
      <4>. QED  BY <4>1, <4>2 DEF EntryType
    <3>2. log[n][i].term <= currentTerm[n] /\ currentTerm[n] <= currentTerm'[n]
      BY <3>1 DEF LogInv, ServerLogs, TermsRise
    <3>. QED  BY <3>1, <3>2
  <2>. QED  BY <2>1 DEF LogInv, ServerLogs
<1>3. Reigned'
  BY ReignedKept DEF LogInv
<1>4. LeadersLog'
  BY DEF LogInv, LeadersLog, LeadsOn
<1>5. RequestsArePieces' /\ RepliesAreEchoes'
  <2>1. LogsType(termLog') /\ Grows(termLog, termLog') /\ elected \subseteq elected'
    BY LogTypes DEF Grows, LogsType, AgreeUpTo
  <2>. QED  BY <2>1, MessagesKept DEF LogInv
<1>6. NextWithinLog'
  BY DEF LogInv, NextWithinLog, LeadsOn
<1>. QED  BY <1>1, <1>2, <1>3, <1>4, <1>5, <1>6 DEF LogInv

\* What handleAppendEntries makes of a log, given a piece of a leader's log.
LEMMA Reconciled ==
  ASSUME NEW T, LogsType(T), WellFormedLogs(T), GenuineLogs(T),
         NEW l \in Seq(EntryType), Genuine(l, T),
         NEW r, r.prevLogIndex \in Nat, r.entries \in Seq(EntryType), r.term \in DOMAIN T,
         Piece(r, T[r.term]), PrevMatches(l, r.prevLogIndex, r.prevLogTerm)
  PROVE  LET m == T[r.term]
             h == r.prevLogIndex + Len(r.entries)
             k == Reconcile(l, r.entries)
         IN  /\ k \in Seq(EntryType) /\ Genuine(k, T) /\ AgreeUpTo(k, m, h)
             /\ k = l \/ (Len(k) = h /\ ~AgreeUpTo(l, m, h))
             /\ k = l \/ \A i \in 1..Len(k) : k[i].term <= r.term
<1>. DEFINE m == T[r.term]
            prev == r.prevLogIndex
            es == r.entries
            h == prev + Len(es)
            k == Reconcile(l, es)
<1>1. m \in Seq(EntryType) /\ WellFormed(m, r.term) /\ Genuine(m, T)
  BY DEF LogsType, WellFormedLogs, GenuineLogs
<1>2. /\ Len(m) \in Nat /\ h \in 1..Len(m) /\ Len(es) \in Nat
      /\ prev > 0 => r.prevLogTerm = m[prev].term
      /\ \A j \in 1..Len(es) : es[j] = m[prev + j]
  BY <1>1 DEF Piece, Has
<1>. HIDE DEF m
<1>3. \A i \in 1..Len(l) : i <= Len(m) /\ l[i].term = m[i].term => AgreeUpTo(l, m, i)
  BY <1>1, <1>2, SameTermAgree
<1>4. AgreeUpTo(l, m, prev)
  <2>1. CASE prev = 0
    BY <1>1, <1>2, <2>1 DEF AgreeUpTo
  <2>2. CASE prev # 0
    <3>1. prev \in 1..Len(l) /\ l[prev].term = m[prev].term
      BY <1>2, <2>2 DEF PrevMatches, TermAt
    <3>. QED  BY <1>2, <1>3, <3>1
  <2>. QED  BY <2>1, <2>2
<1>5. \A i \in 1..Len(m) : m[i].index = i
  BY <1>1 DEF WellFormed
<1>6. prev + Len(es) <= Len(m)
  BY <1>2
<1>7. AgreeUpTo(k, m, h) /\ (k = l \/ (Len(k) = h /\ ~AgreeUpTo(l, m, h)))
  BY <1>1, <1>2, <1>3, <1>4, <1>5, <1>6, ReconcileAgrees
<1>8. k \in Seq(EntryType)
  BY ReconcileType, EntryHasFields
<1>. HIDE DEF k
<1>9. Genuine(k, T) /\ (k = l \/ \A i \in 1..Len(k) : k[i].term <= r.term)
  <2>1. CASE k = l
    BY <2>1
  <2>2. CASE Len(k) = h
    <3>1. Genuine(k, T)
      BY <1>1, <1>7, <1>8, <2>2, GenuinePrefix
    <3>2. ASSUME NEW i \in 1..Len(k) PROVE k[i].term <= r.term
      <4>1. i \in 1..Len(m) /\ Len(m) \in 1..Len(m) /\ i <= Len(m) /\ k[i] = m[i]
        BY <1>2, <1>7, <2>2 DEF AgreeUpTo
      <4>2. m[i].term <= m[Len(m)].term /\ m[Len(m)].term = r.term
        BY <1>1, <4>1 DEF WellFormed, Has
      <4>. QED  BY <4>1, <4>2
    <3>. QED  BY <3>1, <3>2
  <2>. QED  BY <1>7, <2>1, <2>2
<1>. QED  BY <1>7, <1>8, <1>9 DEF m, k

\* The request r as a node can rely on it.
LEMMA RequestFacts ==
  ASSUME TypeOK, LogInv, NEW r \in appendReqs
  PROVE  /\ r.from \in Server /\ r.to \in Server /\ r.from # r.to /\ r.term \in Nat
         /\ r.prevLogIndex \in Nat /\ r.entries \in Seq(EntryType)
         /\ Reign(r.term, r.from) \in elected /\ r.term \in DOMAIN termLog
         /\ termLog[r.term] \in Seq(EntryType)
         /\ Piece(r, termLog[r.term])
<1>1. /\ r.from # r.to /\ Reign(r.term, r.from) \in elected /\ Piece(r, termLog[r.term])
  BY DEF LogInv, RequestsArePieces
<1>2. r.term \in DOMAIN termLog
  BY <1>1 DEF LogInv, Reigned, Reign
<1>. QED  BY <1>1, <1>2, LogTypes DEF LogsType

LEMMA LogInvFacts ==
  ASSUME LogInv
  PROVE  /\ WellFormedLogs(termLog) /\ GenuineLogs(termLog)
         /\ \A n \in Server : Genuine(log[n], termLog)
  BY DEF LogInv, TermLogs, ServerLogs, WellFormedLogs, GenuineLogs

\* A follower takes what a leader sent it.
LEMMA FollowStep ==
  ASSUME TypeOK, TypeOK', LogInv, NEW r \in appendReqs,
         PrevMatches(log[r.to], r.prevLogIndex, r.prevLogTerm),
         log' = [log EXCEPT ![r.to] = Reconcile(log[r.to], r.entries)],
         role'[r.to] # "LEADER", currentTerm'[r.to] >= r.term,
         UNCHANGED <<termLog, elected>>, TermsRise,
         \A p \in Server : LeadsOn(p), RequestsOnlyEnd, RepliesOnlyEcho
  PROVE  LogInv'
<1>. DEFINE v == r.to
            k == Reconcile(log[v], r.entries)
<1>1. v \in Server /\ r.term \in Nat
  BY RequestFacts
<1>2. /\ k \in Seq(EntryType) /\ Genuine(k, termLog)
      /\ k = log[v] \/ \A i \in 1..Len(k) : k[i].term <= r.term
  BY RequestFacts, LogInvFacts, LogTypes, Reconciled
<1>3. log'[v] = k /\ \A p \in Server \ {v} : log'[p] = log[p]
  BY <1>1, LogTypes
<1>. HIDE DEF v, k
<1>4. TermLogs'
  BY DEF LogInv, TermLogs
<1>5. ASSUME NEW p \in Server, NEW l \in Seq(EntryType), NEW i \in 1..Len(l)
      PROVE  /\ l[i].term <= currentTerm[p] => l[i].term <= currentTerm'[p]
             /\ p = v /\ l[i].term <= r.term => l[i].term <= currentTerm'[p]
  <2>1. currentTerm[p] \in Nat /\ currentTerm'[p] \in Nat /\ l[i].term \in Nat
    BY EntryHasFields, SMTT(30) DEF TypeOK
  <2>. QED  BY <1>1, <2>1 DEF TermsRise, v
<1>6. ServerLogs'
  <2>1. ASSUME NEW p \in Server
        PROVE  /\ Genuine(log'[p], termLog)
               /\ \A i \in 1..Len(log'[p]) : log'[p][i].term <= currentTerm'[p]
    <3>1. CASE p # v \/ k = log[v]
      <4>1. log'[p] = log[p] /\ log[p] \in Seq(EntryType)
        BY <1>3, <3>1, LogTypes
      <4>2. Genuine(log[p], termLog) /\ \A i \in 1..Len(log[p]) : log[p][i].term <= currentTerm[p]
        BY DEF LogInv, ServerLogs
      <4>. QED  BY <1>5, <4>1, <4>2
    <3>2. CASE p = v /\ \A i \in 1..Len(k) : k[i].term <= r.term
      BY <1>2, <1>3, <1>5, <3>2
    <3>. QED  BY <1>2, <3>1, <3>2
  <2>. QED  BY <2>1 DEF ServerLogs
<1>7. Reigned'
  BY ReignedKept DEF LogInv
<1>8. LeadersLog' /\ NextWithinLog'
  BY <1>3 DEF LogInv, LeadersLog, NextWithinLog, LeadsOn, v
<1>9. RequestsArePieces' /\ RepliesAreEchoes'
  <2>1. LogsType(termLog') /\ Grows(termLog, termLog') /\ elected \subseteq elected'
    BY LogTypes DEF Grows, LogsType, AgreeUpTo
  <2>. QED  BY <2>1, MessagesKept DEF LogInv
<1>. QED  BY <1>4, <1>6, <1>7, <1>8, <1>9 DEF LogInv

\* What the leader of a term writes: one entry more, at the end of its log.
LEMMA ExtendedFacts ==
  ASSUME TypeOK, LogInv, NEW n \in Server, NEW t \in Nat, NEW c \in Command
  PROVE  /\ Extended(n, t, c) \in Seq(EntryType)
         /\ Extended(n, t, c) = Append(log[n], Entry(t, Len(log[n]) + 1, c))
         /\ Entry(t, Len(log[n]) + 1, c) \in EntryType
         /\ Len(Extended(n, t, c)) = Len(log[n]) + 1
         /\ LastIndex(Extended(n, t, c)) = Len(log[n]) + 1
<1>1. log[n] \in Seq(EntryType) /\ LastIndex(log[n]) = Len(log[n])
  BY LogTypes, LogInvFacts, GenuineOrdered
<1>2. Entry(t, Len(log[n]) + 1, c) \in EntryType
  BY <1>1 DEF Entry, EntryType
<1>. DEFINE e == Entry(t, Len(log[n]) + 1, c)
            l == Append(log[n], e)
<1>3. Extended(n, t, c) = l
  BY <1>1 DEF Extended
<1>4. e.index = Len(log[n]) + 1 /\ e \in EntryType
  BY <1>2 DEF Entry
<1>. HIDE DEF e
<1>5. l \in Seq(EntryType) /\ Len(l) = Len(log[n]) + 1 /\ l[Len(l)] = e /\ l # <<>>
  BY <1>1, <1>4
<1>. HIDE DEF l
<1>6. LastIndex(l) = Len(log[n]) + 1
  BY <1>4, <1>5 DEF LastIndex
<1>. QED  BY <1>2, <1>3, <1>5, <1>6 DEF e, l

WithinLog(p) ==
  role[p] = "LEADER" => \A q \in Server :
    /\ nextIndex[p][q] \in 1 .. Len(log[p]) + 1
    /\ matchIndex[p][q] = 0 \/ Has(log[p], matchIndex[p][q], currentTerm[p])

LEMMA WriteStep ==
  ASSUME TypeOK, TypeOK', LogInv, ElectionSafety',
         NEW n \in Server, NEW t \in Nat, NEW c \in Command,
         t \in DOMAIN termLog => termLog[t] = log[n], t >= currentTerm[n],
         log' = [log EXCEPT ![n] = Extended(n, t, c)],
         LeaderWrites(n, t, Extended(n, t, c)),
         currentTerm'[n] = t, Reign(t, n) \in elected', elected \subseteq elected',
         Reigned', WithinLog(n)', TermsRise,
         \A p \in Server \ {n} : LeadsOn(p), RequestsOnlyEnd, RepliesOnlyEcho
  PROVE  LogInv'
<1>. DEFINE l == Extended(n, t, c)
            e == Entry(t, Len(log[n]) + 1, c)
            U == termLog'
<1>1. /\ l = Append(log[n], e) /\ e \in EntryType /\ log[n] \in Seq(EntryType)
      /\ Len(l) = Len(log[n]) + 1 /\ l \in Seq(EntryType)
  BY ExtendedFacts, LogTypes
<1>2. e.term = t /\ e.index = Len(log[n]) + 1
  BY DEF Entry
<1>3. U = [u \in DOMAIN termLog \cup {t} |-> IF u = t THEN l ELSE termLog[u]]
  BY DEF LeaderWrites
<1>4. \A p \in Server, i \in Nat : i \in 1..Len(log[p]) => log[p][i].term <= currentTerm[p]
  BY DEF LogInv, ServerLogs
<1>. HIDE DEF e, l
<1>5. \A i \in 1..Len(log[n]) : log[n][i].term <= t
  <2>1. ASSUME NEW i \in 1..Len(log[n]) PROVE log[n][i].term <= t
    <3>1. currentTerm[n] \in Nat
      BY DEF TypeOK
    <3>2. log[n][i].term \in Nat
      BY <1>1, EntryHasFields
    <3>. QED  BY <1>4, <3>1, <3>2
  <2>. QED  BY <2>1
<1>6. /\ LogsType(U) /\ Grows(termLog, U) /\ WellFormedLogs(U) /\ GenuineLogs(U)
      /\ t \in DOMAIN U /\ U[t] = l
  <2>1. /\ LogsType(termLog) /\ WellFormedLogs(termLog) /\ GenuineLogs(termLog)
        /\ Genuine(log[n], termLog)
    BY LogTypes, LogInvFacts
  <2>. HIDE DEF U
  <2>2. U = Written(termLog, log[n], t, e)
    BY <1>1, <1>3 DEF Written
  <2>3. /\ LogsType(U) /\ Grows(termLog, U) /\ WellFormedLogs(U) /\ GenuineLogs(U)
        /\ t \in DOMAIN U /\ U[t] = Append(log[n], e)
    BY <1>1, <1>2, <1>5, <2>1, <2>2, EntryWritten
  <2>. QED  BY <1>1, <2>3
<1>7. log'[n] = l /\ \A p \in Server \ {n} : log'[p] = log[p]
  BY LogTypes DEF l
<1>8. TermLogs'
  BY <1>6 DEF TermLogs, WellFormedLogs, GenuineLogs
<1>9. ServerLogs'
  <2>1. Genuine(l, U)
    BY <1>6 DEF GenuineLogs
  <2>2. ASSUME NEW i \in 1..Len(l) PROVE l[i].term <= t
    <3>1. CASE i = Len(log[n]) + 1
      BY <1>1, <1>2, <3>1
    <3>2. CASE i # Len(log[n]) + 1
      <4>1. i \in 1..Len(log[n]) /\ l[i] = log[n][i]
        BY <1>1, <3>2
      <4>. QED  BY <1>5, <4>1
    <3>. QED  BY <3>1, <3>2
  <2>3. ASSUME NEW p \in Server \ {n}
        PROVE  /\ Genuine(log[p], U)
               /\ \A i \in 1..Len(log[p]) : log[p][i].term <= currentTerm'[p]
    <3>1. log[p] \in Seq(EntryType) /\ currentTerm[p] \in Nat /\ currentTerm'[p] \in Nat
      BY DEF TypeOK
    <3>2. Genuine(log[p], U)
      BY <1>6, <3>1, LogTypes, LogInvFacts, GenuineGrows
    <3>3. ASSUME NEW i \in 1..Len(log[p]) PROVE log[p][i].term <= currentTerm'[p]
      <4>1. log[p][i].term \in Nat
        BY <3>1, EntryHasFields
      <4>2. log[p][i].term <= currentTerm[p] /\ currentTerm[p] <= currentTerm'[p]
        BY <1>4, <3>1 DEF TermsRise
      <4>. QED  BY <3>1, <4>1, <4>2
    <3>. QED  BY <3>2, <3>3
  <2>. QED  BY <1>7, <2>1, <2>2, <2>3 DEF ServerLogs
<1>10. LeadersLog'
  <2>1. ASSUME NEW p \in Server \ {n}, role'[p] = "LEADER"
        PROVE  Reign(currentTerm'[p], p) \in elected' /\ log'[p] = U[currentTerm'[p]]
    <3>1. /\ currentTerm'[p] = currentTerm[p] /\ Reign(currentTerm[p], p) \in elected
          /\ log[p] = termLog[currentTerm[p]]
      BY <2>1 DEF LeadsOn, LogInv, LeadersLog
    <3>2. currentTerm[p] # t
      BY <3>1 DEF ElectionSafety, Reign
    <3>3. currentTerm[p] \in DOMAIN termLog
      BY <3>1 DEF LogInv, Reigned, Reign
    <3>. QED  BY <1>3, <1>7, <3>1, <3>2, <3>3
  <2>. QED  BY <1>6, <1>7, <2>1 DEF LeadersLog
<1>11. RequestsArePieces' /\ RepliesAreEchoes'
  BY <1>6, MessagesKept DEF LogInv
<1>12. NextWithinLog'
  <2>1. ASSUME NEW p \in Server \ {n} PROVE WithinLog(p)'
    BY <1>7 DEF LogInv, NextWithinLog, WithinLog, LeadsOn
  <2>. QED  BY <2>1 DEF NextWithinLog, WithinLog
<1>. QED  BY <1>8, <1>9, <1>10, <1>11, <1>12 DEF LogInv

-----------------------------------------------------------------------------
(* Elections *)

LEMMA RpcsRest ==
  ASSUME UNCHANGED appendMsgs
  PROVE  RequestsOnlyEnd /\ RepliesOnlyEcho
  BY DEF appendMsgs, RequestsOnlyEnd, RepliesOnlyEcho, SameRequest

\* One node goes on to term t in role x; nobody becomes a leader.
LEMMA MovesOn ==
  ASSUME TypeOK, TypeOK', NEW n \in Server, NEW t \in Nat, t >= currentTerm[n], NEW x,
         currentTerm' = [currentTerm EXCEPT ![n] = t], role' = [role EXCEPT ![n] = x],
         \/ x = "FOLLOWER"
         \/ x = role[n] /\ t = currentTerm[n]
         \/ x = "CANDIDATE" /\ t > currentTerm[n],
         \A p \in Server : role'[p] = "LEADER" =>
           nextIndex'[p] = nextIndex[p] /\ matchIndex'[p] = matchIndex[p]
  PROVE  TermsRise /\ \A p \in Server : LeadsOn(p)
<1>1. /\ currentTerm'[n] = t /\ role'[n] = x
      /\ \A p \in Server \ {n} : currentTerm'[p] = currentTerm[p] /\ role'[p] = role[p]
      /\ \A p \in Server : currentTerm[p] \in Nat
  BY DEF TypeOK
<1>. QED  BY <1>1 DEF TermsRise, LeadsOn

LEMMA NobodyMoves ==
  ASSUME TypeOK, UNCHANGED <<role, currentTerm, nextIndex, matchIndex>>
  PROVE  TermsRise /\ \A p \in Server : LeadsOn(p)
  BY DEF TypeOK, TermsRise, LeadsOn

\* A term has one leader, so what its winner writes begins a log of its own.
LEMMA FreshTerm ==
  ASSUME TypeOK, Reigned, ElectionSafety', NEW n \in Server, NEW t \in Nat,
         Reign(t, n) \in elected', elected \subseteq elected',
         t > currentTerm[n] \/ (t = currentTerm[n] /\ role[n] = "CANDIDATE")
  PROVE  t \notin DOMAIN termLog
<1>1. ASSUME NEW e \in elected, e.term = t PROVE FALSE
  <2>1. e.leader = n
    BY <1>1 DEF ElectionSafety, Reign
  <2>2. currentTerm[n] \in Nat
    BY DEF TypeOK
  <2>. QED  BY <1>1, <2>1, <2>2 DEF Reigned
<1>. QED  BY <1>1 DEF Reigned

LEMMA ReignedMore ==
  ASSUME TypeOK, TypeOK', Reigned, TermsRise, NEW n \in Server, NEW t \in Nat,
         DOMAIN termLog' = DOMAIN termLog \cup {t}, elected' = elected \cup {Reign(t, n)},
         currentTerm'[n] = t, role'[n] # "CANDIDATE"
  PROVE  Reigned'
<1>1. \A p \in Server : currentTerm[p] \in Nat /\ currentTerm'[p] \in Nat
  BY DEF TypeOK
<1>2. \A e \in elected : e.leader \in Server /\ e.term \in Nat
  BY DEF TypeOK
<1>3. DOMAIN termLog' = {e.term : e \in elected'}
  <2>1. DOMAIN termLog = {e.term : e \in elected} /\ Reign(t, n).term = t
    BY DEF Reigned, Reign
  <2>. QED  BY <2>1, Zenon
<1>4. ASSUME NEW e \in elected'
      PROVE  /\ e.term <= currentTerm'[e.leader]
             /\ e.term = currentTerm'[e.leader] => role'[e.leader] # "CANDIDATE"
  <2>1. CASE e \in elected
    BY <1>1, <1>2, <2>1 DEF Reigned, TermsRise
  <2>2. CASE e = Reign(t, n)
    BY <2>2 DEF Reign
  <2>. QED  BY <2>1, <2>2
<1>. QED  BY <1>3, <1>4 DEF Reigned

\* The winner of an election writes its NOOP, alive or dying.
LEMMA ReignStep ==
  ASSUME TypeOK, TypeOK', LogInv, ElectionSafety', NEW n \in Server, NEW t \in Nat,
         t > currentTerm[n] \/ (t = currentTerm[n] /\ role[n] = "CANDIDATE"),
         Reigns(n, t), log' = [log EXCEPT ![n] = Extended(n, t, NoOp)],
         currentTerm' = [currentTerm EXCEPT ![n] = t],
         \/ role' = [role EXCEPT ![n] = "FOLLOWER"]
         \/ /\ role' = [role EXCEPT ![n] = "LEADER"]
            /\ \A p \in Server :
                 nextIndex'[n][p] = Len(log[n]) + 2 /\ matchIndex'[n][p] = 0,
         \A p \in Server \ {n} : nextIndex'[p] = nextIndex[p] /\ matchIndex'[p] = matchIndex[p],
         RequestsOnlyEnd, RepliesOnlyEcho
  PROVE  LogInv'
<1>1. NoOp \in Command
  BY DEF Command
<1>2. /\ elected' = elected \cup {Reign(t, n)}
      /\ LeaderWrites(n, t, Extended(n, t, NoOp))
  BY DEF Reigns, Reign
<1>3. /\ currentTerm \in [Server -> Nat] /\ role \in [Server -> Role]
  BY DEF TypeOK
<1>4. /\ currentTerm'[n] = t /\ role'[n] \in {"FOLLOWER", "LEADER"}
      /\ \A p \in Server \ {n} : currentTerm'[p] = currentTerm[p] /\ role'[p] = role[p]
  BY <1>3
<1>5. TermsRise /\ \A p \in Server \ {n} : LeadsOn(p)
  BY <1>3, <1>4 DEF TermsRise, LeadsOn
<1>6. t \notin DOMAIN termLog
  BY <1>2, FreshTerm DEF LogInv
<1>7. Reigned'
  <2>1. DOMAIN termLog' = DOMAIN termLog \cup {t}
    BY <1>2 DEF LeaderWrites
  <2>2. role'[n] # "CANDIDATE"
    BY <1>4
  <2>. QED  BY <1>2, <1>4, <1>5, <2>1, <2>2, ReignedMore DEF LogInv
<1>8. WithinLog(n)'
  <2>1. SUFFICES ASSUME role'[n] = "LEADER", NEW p \in Server
                 PROVE  nextIndex'[n][p] \in 1 .. Len(log'[n]) + 1 /\ matchIndex'[n][p] = 0
    BY DEF WithinLog
  <2>2. nextIndex'[n][p] = Len(log[n]) + 2 /\ matchIndex'[n][p] = 0
    BY <1>3, <2>1
  <2>3. Len(log'[n]) = Len(log[n]) + 1 /\ Len(log[n]) \in Nat
    BY <1>1, ExtendedFacts, LogTypes
  <2>. QED  BY <2>2, <2>3
<1>9. t >= currentTerm[n]
  BY <1>3
<1>. QED  BY <1>1, <1>2, <1>4, <1>5, <1>6, <1>7, <1>8, <1>9, WriteStep

LEMMA CrownedStep ==
  ASSUME TypeOK, TypeOK', LogInv, ElectionSafety', NEW n \in Server, NEW t \in Nat,
         t > currentTerm[n] \/ (t = currentTerm[n] /\ role[n] = "CANDIDATE"),
         NEW d, BecomeLeader(n, t, d), currentTerm' = [currentTerm EXCEPT ![n] = t],
         UNCHANGED appendMsgs
  PROVE  LogInv'
<1>1. NoOp \in Command
  BY DEF Command
<1>2. /\ Reigns(n, t) /\ log' = [log EXCEPT ![n] = Extended(n, t, NoOp)]
      /\ role' = [role EXCEPT ![n] = "LEADER"]
      /\ nextIndex' = [nextIndex EXCEPT ![n] =
                         [p \in Server |-> LastIndex(Extended(n, t, NoOp)) + 1]]
      /\ matchIndex' = [matchIndex EXCEPT ![n] = [p \in Server |-> 0]]
  BY DEF BecomeLeader, CommitAsLeader
<1>3. /\ nextIndex \in [Server -> [Server -> Nat]] /\ matchIndex \in [Server -> [Server -> Nat]]
  BY DEF TypeOK
<1>4. LastIndex(Extended(n, t, NoOp)) + 1 = Len(log[n]) + 2
  BY <1>1, ExtendedFacts, LogTypes
<1>5. /\ \A p \in Server : nextIndex'[n][p] = Len(log[n]) + 2 /\ matchIndex'[n][p] = 0
      /\ \A p \in Server \ {n} : nextIndex'[p] = nextIndex[p] /\ matchIndex'[p] = matchIndex[p]
  BY <1>2, <1>3, <1>4
<1>. QED  BY <1>2, <1>5, RpcsRest, ReignStep

LEMMA ElectionLogStep ==
  ASSUME TypeOK, TypeOK', LogInv, ElectionSafety', Election
  PROVE  LogInv'
<1>. USE DEF nodeVars, electVars, logVars, leaderVars, voteMsgs, history, leaderHist
<1>1. ASSUME NEW n \in Server, ElectionTimeout(n) PROVE LogInv'
  <2>1. /\ currentTerm' = [currentTerm EXCEPT ![n] = currentTerm[n] + 1]
        /\ role' = [role EXCEPT ![n] = "CANDIDATE"]
        /\ UNCHANGED <<log, termLog, elected, nextIndex, matchIndex, appendMsgs>>
    BY <1>1 DEF ElectionTimeout, TimesOut
  <2>. DEFINE t == currentTerm[n] + 1
  <2>2. t \in Nat /\ t > currentTerm[n] /\ t >= currentTerm[n]
    BY SMTT(30) DEF TypeOK
  <2>3. currentTerm' = [currentTerm EXCEPT ![n] = t]
    BY <2>1
  <2>. HIDE DEF t
  <2>4. TermsRise /\ \A p \in Server : LeadsOn(p)
    BY <2>1, <2>2, <2>3, MovesOn
  <2>. QED  BY <2>1, <2>4, RpcsRest, CalmStep
<1>2. ASSUME NEW n \in Server, ElectSelf(n) PROVE LogInv'
  <2>. DEFINE d == MetaWritten(disk[n], currentTerm[n] + 1, n, commitIndex[n])
  <2>1. /\ currentTerm' = [currentTerm EXCEPT ![n] = currentTerm[n] + 1]
        /\ BecomeLeader(n, currentTerm[n] + 1, d)
        /\ UNCHANGED appendMsgs
    BY <1>2 DEF ElectSelf, TimesOut
  <2>. HIDE DEF d
  <2>2. currentTerm[n] + 1 \in Nat /\ currentTerm[n] + 1 > currentTerm[n]
    BY SMTT(30) DEF TypeOK
  <2>. QED  BY <2>1, <2>2, CrownedStep
<1>3. ASSUME UNCHANGED <<role, currentTerm, log, termLog, elected, nextIndex, matchIndex,
                         appendMsgs>>
      PROVE  LogInv'
  BY <1>3, NobodyMoves, RpcsRest, CalmStep
<1>4. ASSUME NEW n \in Server, BroadcastRequestVote(n) PROVE LogInv'
  BY <1>3, <1>4 DEF BroadcastRequestVote
<1>5. ASSUME NEW r \in voteReqs, RejectStaleVoteRequest(r) PROVE LogInv'
  BY <1>3, <1>5 DEF RejectStaleVoteRequest
<1>6. ASSUME NEW r \in voteReqs, HandleRequestVote(r) PROVE LogInv'
  <2>. DEFINE v == r.to
              x == IF r.term > currentTerm[v] THEN "FOLLOWER" ELSE role[v]
  <2>1. v \in Server /\ r.term \in Nat /\ currentTerm[v] \in Nat
    BY DEF TypeOK, VoteReqType
  <2>2. /\ ~(r.term < currentTerm[v])
        /\ currentTerm' = [currentTerm EXCEPT ![v] = r.term]
        /\ role' = [role EXCEPT ![v] = x]
        /\ UNCHANGED <<log, termLog, elected, nextIndex, matchIndex, appendMsgs>>
    BY <1>6 DEF HandleRequestVote, AdoptTerm, Stale
  <2>3. /\ r.term >= currentTerm[v]
        /\ x = "FOLLOWER" \/ (x = role[v] /\ r.term = currentTerm[v])
    BY <2>1, <2>2
  <2>. HIDE DEF v, x
  <2>. QED  BY <2>1, <2>2, <2>3, MovesOn, RpcsRest, CalmStep
<1>7. ASSUME NEW m \in voteReps, VoteReplyHigherTerm(m) PROVE LogInv'
  <2>1. m.to \in Server /\ m.term \in Nat /\ currentTerm[m.to] \in Nat
    BY DEF TypeOK, VoteRepType
  <2>2. /\ m.term > currentTerm[m.to]
        /\ currentTerm' = [currentTerm EXCEPT ![m.to] = m.term]
        /\ role' = [role EXCEPT ![m.to] = "FOLLOWER"]
        /\ UNCHANGED <<log, termLog, elected, nextIndex, matchIndex, appendMsgs>>
    BY <1>7 DEF VoteReplyHigherTerm, StepDown
  <2>3. m.term >= currentTerm[m.to]
    BY <2>1, <2>2
  <2>. QED  BY <2>1, <2>2, <2>3, MovesOn, RpcsRest, CalmStep
<1>8. ASSUME NEW m \in voteReps, VoteReplyIgnored(m) \/ VoteReplyCounted(m) PROVE LogInv'
  BY <1>3, <1>8 DEF VoteReplyIgnored, VoteReplyCounted
<1>9. ASSUME NEW m \in voteReps, VoteReplyWins(m) PROVE LogInv'
  <2>1. m.to \in Server /\ currentTerm[m.to] \in Nat
    BY DEF TypeOK, VoteRepType
  <2>2. /\ role[m.to] = "CANDIDATE" /\ BecomeLeader(m.to, currentTerm[m.to], disk[m.to])
        /\ currentTerm' = currentTerm /\ UNCHANGED appendReqs /\ UNCHANGED appendReps
    BY <1>9 DEF VoteReplyWins, Counts, ElectionOpen, appendMsgs
  <2>3. currentTerm' = [currentTerm EXCEPT ![m.to] = currentTerm[m.to]]
    BY <2>2 DEF TypeOK
  <2>. QED  BY <2>1, <2>2, <2>3, CrownedStep DEF appendMsgs
<1>. QED  BY <1>1, <1>2, <1>4, <1>5, <1>6, <1>7, <1>8, <1>9 DEF Election

-----------------------------------------------------------------------------
(* Replication *)

\* A leader sends what its log has from nextIndex on.
LEMMA SentPiece ==
  ASSUME TypeOK, LogInv, NEW n \in Server, NEW p \in Peers(n), role[n] = "LEADER"
  PROVE  LET r == AppendRequest(n, p)
         IN  /\ r.from = n /\ r.to = p /\ n # p /\ r.term = currentTerm[n]
             /\ r.leaderCommit = commitIndex[n]
             /\ Reign(r.term, n) \in elected /\ Piece(r, termLog[r.term])
             /\ r.prevLogIndex + 1 = nextIndex[n][p]
<1>. DEFINE l == log[n]
            t == currentTerm[n]
            next == nextIndex[n][p]
            r == AppendRequest(n, p)
<1>1. p \in Server /\ n # p /\ l \in Seq(EntryType) /\ next \in Nat /\ t \in Nat
  BY DEF Peers, TypeOK
<1>2. Reign(t, n) \in elected /\ l = termLog[t] /\ next \in 1 .. Len(l) + 1
  BY <1>1 DEF LogInv, LeadersLog, NextWithinLog
<1>3. Has(l, Len(l), t)
  <2>1. t \in DOMAIN termLog
    BY <1>2 DEF LogInv, Reigned, Reign
  <2>. QED  BY <1>2, <2>1 DEF LogInv, TermLogs, WellFormed
<1>4. Max({next, 1}) = next
  <2>1. Max({next, 1}) \in {next, 1} /\ \A x \in {next, 1} : x <= Max({next, 1})
    <3>1. {next, 1} \in SUBSET Nat /\ {next, 1} # {} /\ next \in Nat /\ \A x \in {next, 1} : x <= next
      BY <1>1, <1>2
    <3>. QED  BY <3>1, MaxNat
  <2>. QED  BY <1>1, <1>2, <2>1
<1>. HIDE DEF l, next
<1>5. /\ r.from = n /\ r.to = p /\ r.term = t /\ r.leaderCommit = commitIndex[n]
      /\ r.prevLogIndex = next - 1 /\ r.prevLogTerm = TermAt(l, next - 1)
      /\ r.entries = SubSeq(l, next, Len(l))
  BY <1>4 DEF AppendRequest, PrevOf, EntriesFrom, l, next
<1>. HIDE DEF r
<1>6. /\ Len(r.entries) = Len(l) - (next - 1) /\ Len(l) \in Nat
      /\ \A k \in 1..Len(r.entries) : r.entries[k] = l[next - 1 + k]
  BY <1>1, <1>2, <1>5, SMTT(30)
<1>7. Piece(r, l)
  <2>1. r.prevLogIndex + Len(r.entries) = Len(l)
    BY <1>1, <1>2, <1>5, <1>6
  <2>2. r.prevLogIndex > 0 => r.prevLogTerm = l[r.prevLogIndex].term
    BY <1>1, <1>2, <1>5, <1>6 DEF TermAt
  <2>. QED  BY <1>3, <1>5, <1>6, <2>1, <2>2 DEF Piece
<1>. QED  BY <1>1, <1>2, <1>5, <1>7 DEF r, next

LEMMA SendStep ==
  ASSUME TypeOK, TypeOK', LogInv, NEW n \in Server, NEW p \in Peers(n), SendAppendEntries(n, p)
  PROVE  LogInv'
<1>. DEFINE q == AppendRequest(n, p)
<1>1. /\ role[n] = "LEADER" /\ appendReqs' = appendReqs \cup {q}
      /\ UNCHANGED <<role, currentTerm, log, nextIndex, matchIndex, appendReps, elected, termLog>>
  BY DEF SendAppendEntries, nodeVars, logVars, leaderVars, history, leaderHist
<1>2. q.from # q.to /\ Reign(q.term, q.from) \in elected /\ Piece(q, termLog[q.term])
  BY <1>1, SentPiece
<1>. HIDE DEF q
<1>3. RequestsArePieces'
  BY <1>1, <1>2 DEF LogInv, RequestsArePieces, Piece
<1>4. /\ TermLogs' /\ ServerLogs' /\ Reigned' /\ LeadersLog' /\ RepliesAreEchoes'
      /\ NextWithinLog'
  BY <1>1 DEF LogInv, TermLogs, ServerLogs, Reigned, LeadersLog, RepliesAreEchoes, NextWithinLog
<1>. QED  BY <1>3, <1>4 DEF LogInv

\* A reply answers the request it is made of; a request without an owner, or
\* gone, is the one it was.
LEMMA Answered ==
  ASSUME NEW r \in appendReqs, NEW t, NEW ok, appendReqs' = appendReqs \ {r},
         appendReps' = appendReps \cup AppendReplies(r, t, ok)
  PROVE  RequestsOnlyEnd /\ RepliesOnlyEcho
<1>1. \A m \in AppendReplies(r, t, ok) : EchoOf(m, r)
  BY DEF AppendReplies, EchoOf
<1>. QED  BY <1>1 DEF RequestsOnlyEnd, RepliesOnlyEcho, SameRequest

LEMMA ReceivedAck ==
  ASSUME appendReps' \subseteq appendReps, UNCHANGED appendReqs
  PROVE  RequestsOnlyEnd /\ RepliesOnlyEcho
  BY DEF RequestsOnlyEnd, RepliesOnlyEcho, SameRequest

LEMMA Orphaned ==
  ASSUME TypeOK
  PROVE  \A r \in appendReqs : SameRequest([r EXCEPT !.live = FALSE], r)
  BY DEF TypeOK, AppendReqType, SameRequest

\* What a node is told by a leader of its term or a later one.
LEMMA RecogniseMoves ==
  ASSUME TypeOK, TypeOK', LogInv, NEW r \in appendReqs, ~Stale(r),
         Recognise(r.to, r.term, r.from), UNCHANGED leaderVars
  PROVE  /\ TermsRise /\ \A p \in Server : LeadsOn(p)
         /\ role'[r.to] # "LEADER" /\ currentTerm'[r.to] >= r.term
<1>. DEFINE v == r.to
<1>1. /\ v \in Server /\ r.term \in Nat /\ currentTerm[v] \in Nat
      /\ role \in [Server -> Role] /\ currentTerm \in [Server -> Nat]
  BY RequestFacts DEF TypeOK
<1>2. /\ currentTerm' = [currentTerm EXCEPT ![v] = r.term]
      /\ role' = [role EXCEPT ![v] = "FOLLOWER"] /\ r.term >= currentTerm[v]
      /\ nextIndex' = nextIndex /\ matchIndex' = matchIndex
  BY <1>1 DEF Recognise, Stale, leaderVars
<1>3. role'[v] # "LEADER" /\ currentTerm'[v] = r.term
  BY <1>1, <1>2
<1>. HIDE DEF v
<1>4. TermsRise /\ \A p \in Server : LeadsOn(p)
  BY <1>1, <1>2, MovesOn
<1>. QED  BY <1>1, <1>3, <1>4 DEF v

\* The leader counts what a follower has confirmed: the end of one of its own
\* requests, or what it had counted before.
LEMMA CountedMatch ==
  ASSUME TypeOK, LogInv, NEW m \in appendReps, StillLeads(m)
  PROVE  /\ m.to \in Server /\ m.from \in Server
         /\ Has(log[m.to], NewMatch(m), currentTerm[m.to])
         /\ NewMatch(m) \in {m.prevIndex + m.count, matchIndex[m.to][m.from]}
<1>. DEFINE n == m.to
            a == m.prevIndex + m.count
            b == matchIndex[n][m.from]
<1>1. /\ n \in Server /\ m.from \in Server /\ a \in Nat /\ b \in Nat
      /\ role[n] = "LEADER" /\ currentTerm[n] = m.electionTerm
  <2>1. /\ n \in Server /\ m.from \in Server /\ a \in Nat
    BY LogTypes
  <2>2. b \in Nat
    BY <2>1 DEF TypeOK
  <2>. QED  BY <2>1, <2>2 DEF StillLeads
<1>2. Has(log[n], a, currentTerm[n])
  BY <1>1 DEF LogInv, LeadersLog, RepliesAreEchoes
<1>3. b = 0 \/ Has(log[n], b, currentTerm[n])
  BY <1>1 DEF LogInv, NextWithinLog
<1>4. NewMatch(m) = Max({a, b})
  BY DEF NewMatch
<1>. HIDE DEF a, b
<1>5. Max({a, b}) \in {a, b} /\ a <= Max({a, b})
  <2>1. {a, b} \in SUBSET Nat /\ {a, b} # {} /\ a + b \in Nat /\ \A x \in {a, b} : x <= a + b
    BY <1>1
  <2>. QED  BY <2>1, MaxNat
<1>6. a > 0
  BY <1>1, <1>2 DEF Has
<1>7. Max({a, b}) # 0
  BY <1>1, <1>5, <1>6
<1>. QED  BY <1>1, <1>2, <1>3, <1>4, <1>5, <1>7 DEF a, b

LEMMA CountStep ==
  ASSUME TypeOK, TypeOK', LogInv, NEW m \in appendReps, AppendReplySuccess(m)
  PROVE  LogInv'
<1>. DEFINE n == m.to
            p == m.from
            c == NewMatch(m)
<1>1. /\ n \in Server /\ p \in Server /\ Has(log[n], c, currentTerm[n])
      /\ log \in [Server -> Seq(EntryType)]
  BY CountedMatch, LogTypes DEF AppendReplySuccess
<1>2. /\ matchIndex' = [matchIndex EXCEPT ![n] = [matchIndex[n] EXCEPT ![p] = c]]
      /\ nextIndex' = [nextIndex EXCEPT ![n][p] = c + 1]
      /\ log' = [log EXCEPT ![n] = log[n]]
      /\ UNCHANGED <<role, currentTerm, elected, termLog, appendReqs>>
      /\ appendReps' \subseteq appendReps
  BY DEF AppendReplySuccess, NextAfter, ReceiveAck, CommitAsLeader, nodeVars, history, leaderHist
<1>. HIDE DEF n, p, c
<1>3. log' = log
  BY <1>1, <1>2
<1>4. /\ c \in Nat /\ c + 1 \in 1 .. Len(log[n]) + 1
  <2>1. Len(log[n]) \in Nat
    BY <1>1
  <2>. QED  BY <1>1, <2>1 DEF Has
<1>5. /\ nextIndex \in [Server -> [Server -> Nat]] /\ matchIndex \in [Server -> [Server -> Nat]]
  BY DEF TypeOK
<1>6. \A x, y \in Server :
        /\ nextIndex'[x][y] = IF x = n /\ y = p THEN c + 1 ELSE nextIndex[x][y]
        /\ matchIndex'[x][y] = IF x = n /\ y = p THEN c ELSE matchIndex[x][y]
  BY <1>1, <1>2, <1>5
<1>7. NextWithinLog'
  BY <1>1, <1>2, <1>3, <1>4, <1>6 DEF LogInv, NextWithinLog
<1>8. TermLogs' /\ ServerLogs' /\ Reigned' /\ LeadersLog'
  BY <1>2, <1>3 DEF LogInv, TermLogs, ServerLogs, Reigned, LeadersLog
<1>9. RequestsArePieces' /\ RepliesAreEchoes'
  BY <1>2 DEF LogInv, RequestsArePieces, RepliesAreEchoes
<1>. QED  BY <1>7, <1>8, <1>9 DEF LogInv

LEMMA BackUpStep ==
  ASSUME TypeOK, TypeOK', LogInv, NEW m \in appendReps, AppendReplyFailure(m)
  PROVE  LogInv'
<1>. DEFINE n == m.to
            p == m.from
            i == nextIndex[n][p]
<1>1. /\ n \in Server /\ p \in Server /\ role[n] = "LEADER"
  BY LogTypes DEF AppendReplyFailure, StillLeads
<1>2. /\ nextIndex' = [nextIndex EXCEPT ![n][p] = BackedUp(i)]
      /\ UNCHANGED <<role, currentTerm, log, matchIndex, elected, termLog, appendReqs>>
      /\ appendReps' \subseteq appendReps
  BY DEF AppendReplyFailure, ReceiveAck, nodeVars, logVars, history, leaderHist
<1>3. nextIndex \in [Server -> [Server -> Nat]] /\ log[n] \in Seq(EntryType)
  BY <1>1 DEF TypeOK
<1>4. BackedUp(i) \in 1 .. Len(log[n]) + 1
  <2>. HIDE DEF n, p
  <2>1. i \in 1 .. Len(log[n]) + 1
    BY <1>1 DEF LogInv, NextWithinLog
  <2>2. Len(log[n]) \in Nat
    BY <1>3
  <2>. HIDE DEF i
  <2>. QED  BY <2>1, <2>2 DEF BackedUp
<1>. HIDE DEF n, p, i
<1>5. \A x, y \in Server :
        nextIndex'[x][y] = IF x = n /\ y = p THEN BackedUp(i) ELSE nextIndex[x][y]
  BY <1>1, <1>2, <1>3
<1>6. NextWithinLog'
  BY <1>2, <1>4, <1>5 DEF LogInv, NextWithinLog
<1>7. TermLogs' /\ ServerLogs' /\ Reigned' /\ LeadersLog'
  BY <1>2 DEF LogInv, TermLogs, ServerLogs, Reigned, LeadersLog
<1>8. RequestsArePieces' /\ RepliesAreEchoes'
  BY <1>2 DEF LogInv, RequestsArePieces, RepliesAreEchoes
<1>. QED  BY <1>6, <1>7, <1>8 DEF LogInv

LEMMA ReplicationLogStep ==
  ASSUME TypeOK, TypeOK', LogInv, Replication
  PROVE  LogInv'
<1>. USE DEF nodeVars, logVars, history, leaderHist
<1>1. ASSUME NEW r \in appendReqs, RpcFails(r) PROVE LogInv'
  <2>1. RequestsOnlyEnd /\ RepliesOnlyEcho
    <3>1. /\ appendReqs' \subseteq appendReqs \cup {[r EXCEPT !.live = FALSE]}
          /\ appendReps' = appendReps
      BY <1>1 DEF RpcFails
    <3>2. SameRequest([r EXCEPT !.live = FALSE], r) /\ \A q \in appendReqs : SameRequest(q, q)
      BY Orphaned DEF SameRequest
    <3>. QED  BY <3>1, <3>2 DEF RequestsOnlyEnd, RepliesOnlyEcho
  <2>2. UNCHANGED <<role, currentTerm, log, termLog, elected, nextIndex, matchIndex>>
    BY <1>1 DEF RpcFails, leaderVars
  <2>. QED  BY <2>1, <2>2, NobodyMoves, CalmStep
<1>2. ASSUME NEW r \in appendReqs, RejectStaleAppend(r) PROVE LogInv'
  <2>1. RequestsOnlyEnd /\ RepliesOnlyEcho
    BY <1>2, Answered DEF RejectStaleAppend
  <2>2. UNCHANGED <<role, currentTerm, log, termLog, elected, nextIndex, matchIndex>>
    BY <1>2 DEF RejectStaleAppend, leaderVars
  <2>. QED  BY <2>1, <2>2, NobodyMoves, CalmStep
<1>3. ASSUME NEW r \in appendReqs, RejectMismatch(r) PROVE LogInv'
  <2>1. RequestsOnlyEnd /\ RepliesOnlyEcho
    BY <1>3, Answered DEF RejectMismatch
  <2>2. /\ ~Stale(r) /\ Recognise(r.to, r.term, r.from) /\ UNCHANGED leaderVars
        /\ UNCHANGED <<log, termLog, elected>>
    BY <1>3 DEF RejectMismatch
  <2>3. TermsRise /\ \A p \in Server : LeadsOn(p)
    BY <2>2, RecogniseMoves
  <2>. QED  BY <2>1, <2>2, <2>3, CalmStep
<1>4. ASSUME NEW r \in appendReqs, AcceptAppend(r) PROVE LogInv'
  <2>1. RequestsOnlyEnd /\ RepliesOnlyEcho
    BY <1>4, Answered DEF AcceptAppend
  <2>2. /\ ~Stale(r) /\ Recognise(r.to, r.term, r.from) /\ UNCHANGED leaderVars
        /\ PrevMatches(log[r.to], r.prevLogIndex, r.prevLogTerm)
        /\ log' = [log EXCEPT ![r.to] = Reconcile(log[r.to], r.entries)]
        /\ UNCHANGED <<termLog, elected>>
    BY <1>4 DEF AcceptAppend
  <2>3. /\ TermsRise /\ \A p \in Server : LeadsOn(p)
        /\ role'[r.to] # "LEADER" /\ currentTerm'[r.to] >= r.term
    BY <2>2, RecogniseMoves
  <2>. QED  BY <2>1, <2>2, <2>3, FollowStep
<1>5. ASSUME NEW m \in appendReps, LoseAppendReply(m) \/ AppendReplyIgnored(m) PROVE LogInv'
  <2>1. appendReps' \subseteq appendReps /\ UNCHANGED appendReqs
    BY <1>5 DEF LoseAppendReply, AppendReplyIgnored, ReceiveAck
  <2>2. UNCHANGED <<role, currentTerm, log, termLog, elected, nextIndex, matchIndex>>
    BY <1>5 DEF LoseAppendReply, AppendReplyIgnored, leaderVars
  <2>. QED  BY <2>1, <2>2, ReceivedAck, NobodyMoves, CalmStep
<1>6. ASSUME NEW m \in appendReps, AppendReplyHigherTerm(m) PROVE LogInv'
  <2>1. m.to \in Server /\ m.term \in Nat /\ currentTerm[m.to] \in Nat
    BY LogTypes DEF TypeOK
  <2>2. /\ m.term > currentTerm[m.to]
        /\ currentTerm' = [currentTerm EXCEPT ![m.to] = m.term]
        /\ role' = [role EXCEPT ![m.to] = "FOLLOWER"]
        /\ UNCHANGED <<log, termLog, elected, nextIndex, matchIndex, appendReqs>>
        /\ appendReps' \subseteq appendReps
    BY <1>6 DEF AppendReplyHigherTerm, StepDown, ReceiveAck, leaderVars
  <2>3. m.term >= currentTerm[m.to]
    BY <2>1, <2>2
  <2>. QED  BY <2>1, <2>2, <2>3, MovesOn, ReceivedAck, CalmStep
<1>. QED  BY <1>1, <1>2, <1>3, <1>4, <1>5, <1>6, SendStep, CountStep, BackUpStep DEF Replication

-----------------------------------------------------------------------------
(* Clients *)

\* A leader is the one of its term, and what it writes goes on its own log.
LEMMA LeaderFacts ==
  ASSUME TypeOK, LogInv, NEW n \in Server, role[n] = "LEADER"
  PROVE  /\ currentTerm[n] \in Nat /\ currentTerm[n] \in DOMAIN termLog
         /\ Reign(currentTerm[n], n) \in elected /\ log[n] = termLog[currentTerm[n]]
<1>1. Reign(currentTerm[n], n) \in elected /\ log[n] = termLog[currentTerm[n]]
  BY DEF LogInv, LeadersLog
<1>2. currentTerm[n] \in DOMAIN termLog
  BY <1>1 DEF LogInv, Reigned, Reign
<1>3. currentTerm[n] \in Nat
  BY DEF TypeOK
<1>. QED  BY <1>1, <1>2, <1>3

\* A leader takes a command, alive or dying.
LEMMA CommandStep ==
  ASSUME TypeOK, TypeOK', LogInv, ElectionSafety', NEW n \in Server, NEW c \in Command,
         role[n] = "LEADER", log' = [log EXCEPT ![n] = Extended(n, currentTerm[n], c)],
         LeaderWrites(n, currentTerm[n], Extended(n, currentTerm[n], c)),
         UNCHANGED elected, UNCHANGED currentTerm,
         role' = role \/ role' = [role EXCEPT ![n] = "FOLLOWER"],
         \A p \in Server : role'[p] = "LEADER" =>
           nextIndex'[p] = nextIndex[p] /\ matchIndex'[p] = matchIndex[p],
         RequestsOnlyEnd, RepliesOnlyEcho
  PROVE  LogInv'
<1>. DEFINE t == currentTerm[n]
            l == Extended(n, t, c)
<1>1. /\ t \in Nat /\ t \in DOMAIN termLog /\ Reign(t, n) \in elected /\ termLog[t] = log[n]
  BY LeaderFacts
<1>2. /\ role \in [Server -> Role] /\ \A p \in Server : currentTerm[p] \in Nat
  BY DEF TypeOK
<1>3. \A p \in Server : role'[p] = role[p] \/ role'[p] = "FOLLOWER"
  BY <1>2
<1>4. TermsRise /\ \A p \in Server : LeadsOn(p)
  BY <1>2, <1>3 DEF TermsRise, LeadsOn
<1>5. Reigned'
  <2>1. DOMAIN termLog' = DOMAIN termLog
    BY <1>1 DEF LeaderWrites
  <2>2. \A e \in elected : e.leader \in Server
    BY DEF TypeOK
  <2>. QED  BY <1>3, <2>1, <2>2 DEF LogInv, Reigned
<1>6. WithinLog(n)'
  <2>1. SUFFICES ASSUME role'[n] = "LEADER", NEW q \in Server
                 PROVE  /\ nextIndex'[n][q] \in 1 .. Len(log'[n]) + 1
                        /\ matchIndex'[n][q] = 0 \/ Has(log'[n], matchIndex'[n][q], currentTerm'[n])
    BY DEF WithinLog
  <2>2. nextIndex'[n][q] = nextIndex[n][q] /\ matchIndex'[n][q] = matchIndex[n][q]
    BY <2>1
  <2>3. /\ nextIndex[n][q] \in 1 .. Len(log[n]) + 1
        /\ matchIndex[n][q] = 0 \/ Has(log[n], matchIndex[n][q], t)
    BY DEF LogInv, NextWithinLog
  <2>4. /\ log'[n] = Append(log[n], Entry(t, Len(log[n]) + 1, c)) /\ log[n] \in Seq(EntryType)
    BY <1>1, ExtendedFacts, LogTypes
  <2>. HIDE DEF t
  <2>5. /\ Len(log'[n]) = Len(log[n]) + 1 /\ Len(log[n]) \in Nat
        /\ \A i \in 1..Len(log[n]) : log'[n][i] = log[n][i]
    BY <2>4
  <2>. QED  BY <2>2, <2>3, <2>5 DEF Has, t
<1>7. t >= currentTerm[n] /\ currentTerm'[n] = t
  BY <1>2
<1>. HIDE DEF t, l
<1>. QED  BY <1>1, <1>4, <1>5, <1>6, <1>7, WriteStep DEF t, l

LEMMA ClientLogStep ==
  ASSUME TypeOK, TypeOK', LogInv, ElectionSafety', Client
  PROVE  LogInv'
<1>1. ASSUME NEW n \in Server, NEW v \in Value, Propose(n, v) PROVE LogInv'
  <2>1. /\ role[n] = "LEADER" /\ log' = [log EXCEPT ![n] = Extended(n, currentTerm[n], v)]
        /\ LeaderWrites(n, currentTerm[n], Extended(n, currentTerm[n], v))
        /\ UNCHANGED elected /\ UNCHANGED currentTerm /\ UNCHANGED appendMsgs
        /\ role' = role /\ nextIndex' = nextIndex /\ matchIndex' = matchIndex
    BY <1>1 DEF Propose, CommitAsLeader, nodeVars, leaderVars
  <2>2. v \in Command
    BY DEF Command
  <2>. QED  BY <2>1, <2>2, RpcsRest, CommandStep
<1>2. ASSUME NEW w \in waiting, ProposalOk(w) \/ ProposalFails(w) PROVE LogInv'
  <2>1. UNCHANGED <<role, currentTerm, log, termLog, elected, nextIndex, matchIndex, appendMsgs>>
    BY <1>2 DEF ProposalOk, ProposalFails, nodeVars, logVars, leaderVars, history, leaderHist
  <2>. QED  BY <2>1, NobodyMoves, RpcsRest, CalmStep
<1>. QED  BY <1>1, <1>2 DEF Client

-----------------------------------------------------------------------------
(* Crashes *)

LEMMA Disowned ==
  ASSUME TypeOK, NEW n, appendReqs' \subseteq Disown(appendReqs, n) \/ UNCHANGED appendReqs,
         appendReps' \subseteq appendReps
  PROVE  RequestsOnlyEnd /\ RepliesOnlyEcho
<1>1. ASSUME NEW r \in Disown(appendReqs, n) PROVE \E q \in appendReqs : SameRequest(r, q)
  <2>1. PICK q \in appendReqs : r = IF q.from = n THEN [q EXCEPT !.live = FALSE] ELSE q
    BY DEF Disown
  <2>2. SameRequest(r, q)
    BY <2>1, Orphaned DEF SameRequest
  <2>. QED  BY <2>2
<1>. QED  BY <1>1 DEF RequestsOnlyEnd, RepliesOnlyEcho, SameRequest

\* A node that recovers leads no more, and is in no earlier term.
LEMMA Recovered ==
  ASSUME TypeOK, TypeOK', NEW n \in Server, NEW d, Recover(n, d), NEW t \in Nat,
         d.currentTerm = t, t >= currentTerm[n]
  PROVE  /\ TermsRise /\ \A p \in Server : LeadsOn(p)
         /\ currentTerm' = [currentTerm EXCEPT ![n] = t] /\ currentTerm'[n] = t
         /\ role' = [role EXCEPT ![n] = "FOLLOWER"] /\ role'[n] = "FOLLOWER"
         /\ log' = [log EXCEPT ![n] = d.log] /\ appendReps' \subseteq appendReps
         /\ \A p \in Server \ {n} : nextIndex'[p] = nextIndex[p] /\ matchIndex'[p] = matchIndex[p]
<1>1. /\ role \in [Server -> Role] /\ currentTerm \in [Server -> Nat]
      /\ nextIndex \in [Server -> [Server -> Nat]] /\ matchIndex \in [Server -> [Server -> Nat]]
  BY DEF TypeOK
<1>2. /\ currentTerm' = [currentTerm EXCEPT ![n] = t]
      /\ role' = [role EXCEPT ![n] = "FOLLOWER"]
      /\ log' = [log EXCEPT ![n] = d.log] /\ appendReps' \subseteq appendReps
      /\ nextIndex' = [nextIndex EXCEPT ![n] = [p \in Server |-> 0]]
      /\ matchIndex' = [matchIndex EXCEPT ![n] = [p \in Server |-> 0]]
  BY DEF Recover
<1>3. /\ currentTerm'[n] = t /\ role'[n] = "FOLLOWER"
      /\ \A p \in Server \ {n} : nextIndex'[p] = nextIndex[p] /\ matchIndex'[p] = matchIndex[p]
  BY <1>1, <1>2
<1>4. \A p \in Server : role'[p] = "LEADER" =>
        nextIndex'[p] = nextIndex[p] /\ matchIndex'[p] = matchIndex[p]
  BY <1>3
<1>5. TermsRise /\ \A p \in Server : LeadsOn(p)
  BY <1>2, <1>4, MovesOn
<1>. QED  BY <1>2, <1>3, <1>5

\* From files with the log that was in memory.
LEMMA RecoverStep ==
  ASSUME TypeOK, TypeOK', LogInv, NEW n \in Server, NEW d, Recover(n, d), NEW t \in Nat,
         d.currentTerm = t, t >= currentTerm[n], d.log = log[n],
         appendReqs' \subseteq Disown(appendReqs, n) \/ UNCHANGED appendReqs,
         UNCHANGED <<elected, termLog>>
  PROVE  LogInv'
<1>1. /\ TermsRise /\ \A p \in Server : LeadsOn(p)
      /\ log' = [log EXCEPT ![n] = log[n]] /\ appendReps' \subseteq appendReps
  BY Recovered
<1>2. log' = log
  BY <1>1, LogTypes
<1>. QED  BY <1>1, <1>2, Disowned, CalmStep

LEMMA CrashLogStep ==
  ASSUME TypeOK, TypeOK', LogInv, ElectionSafety', DurableState, ~MetaTearing, Failure
  PROVE  LogInv'
<1>1. ASSUME NEW n \in Server
      PROVE  /\ disk[n] \in DiskType /\ currentTerm[n] \in Nat /\ currentTerm[n] >= currentTerm[n]
             /\ disk[n].currentTerm = currentTerm[n] /\ disk[n].log = log[n]
  <2>1. currentTerm[n] \in Nat
    BY DEF TypeOK
  <2>. QED  BY <2>1, DiskFields
<1>2. ASSUME NEW n \in Server, Crash(n) PROVE LogInv'
  <2>1. /\ Recover(n, disk[n]) /\ appendReqs' \subseteq Disown(appendReqs, n)
        /\ UNCHANGED <<elected, termLog>>
    BY <1>2 DEF Crash, history, leaderHist
  <2>. QED  BY <1>1, <2>1, RecoverStep
<1>3. ASSUME NEW n \in Server, CrashInUpdateMetaData(n) PROVE LogInv'
  BY <1>3 DEF CrashInUpdateMetaData
<1>4. ASSUME NEW r \in voteReqs, CrashInRequestVote(r) PROVE LogInv'
  <2>. DEFINE d == MetaWritten(disk[r.to], r.term, Nil, commitIndex[r.to])
  <2>1. r.to \in Server /\ r.term \in Nat
    BY DEF TypeOK, VoteReqType
  <2>2. d.currentTerm = r.term /\ d.log = log[r.to]
    BY <1>1, <2>1 DEF MetaWritten
  <2>3. /\ r.term > currentTerm[r.to] /\ Recover(r.to, d)
        /\ appendReqs' \subseteq Disown(appendReqs, r.to) /\ UNCHANGED <<elected, termLog>>
    BY <1>4 DEF CrashInRequestVote, history, leaderHist
  <2>. HIDE DEF d
  <2>4. r.term >= currentTerm[r.to]
    BY <1>1, <2>1, <2>3
  <2>. QED  BY <2>1, <2>2, <2>3, <2>4, RecoverStep
<1>5. ASSUME NEW r \in appendReqs, CrashInAppendEntries(r) PROVE LogInv'
  <2>. DEFINE v == r.to
              d == TermWritten(v, r.term)
              l == Reconcile(log[v], r.entries)
              e == LogWritten(d, l)
  <2>1. v \in Server /\ r.term \in Nat /\ l \in Seq(EntryType)
    BY AcceptedType, RequestFacts
  <2>2. /\ ~Stale(r) /\ PrevMatches(log[v], r.prevLogIndex, r.prevLogTerm)
        /\ Recover(v, d) \/ Recover(v, e)
        /\ appendReqs' \subseteq Disown(appendReqs, v)
        /\ UNCHANGED <<elected, termLog>>
    BY <1>5 DEF CrashInAppendEntries, Disown, history, leaderHist
  <2>3. r.term >= currentTerm[v]
    BY <1>1, <2>1, <2>2 DEF Stale
  <2>4. d \in DiskType /\ d.currentTerm = r.term /\ d.log = log[v]
    <3>1. CASE r.term > currentTerm[v]
      <4>1. d = MetaWritten(disk[v], r.term, Nil, commitIndex[v])
        BY <3>1 DEF TermWritten
      <4>2. disk[v] \in DiskType /\ commitIndex[v] \in Nat /\ disk[v].log = log[v]
        BY <1>1, <2>1 DEF TypeOK
      <4>. HIDE DEF v, d
      <4>3. d \in DiskType
        BY <2>1, <4>1, <4>2, MetaWrittenType
      <4>. QED  BY <4>1, <4>2, <4>3 DEF MetaWritten
    <3>2. CASE ~(r.term > currentTerm[v])
      <4>1. d = disk[v]
        BY <3>2 DEF TermWritten
      <4>2. r.term = currentTerm[v]
        BY <1>1, <2>1, <2>3, <3>2
      <4>. QED  BY <1>1, <2>1, <4>1, <4>2
    <3>. QED  BY <3>1, <3>2
  <2>. HIDE DEF v, d, l
  <2>5. e.currentTerm = r.term /\ e.log = l
    BY <2>1, <2>4 DEF LogWritten, DiskType
  <2>. HIDE DEF e
  <2>6. CASE Recover(v, d)
    BY <2>1, <2>2, <2>3, <2>4, <2>6, RecoverStep
  <2>7. CASE Recover(v, e)
    <3>1. /\ TermsRise /\ \A p \in Server : LeadsOn(p)
          /\ currentTerm'[v] = r.term /\ role'[v] = "FOLLOWER"
          /\ log' = [log EXCEPT ![v] = l] /\ appendReps' \subseteq appendReps
      BY <2>1, <2>3, <2>5, <2>7, Recovered
    <3>2. RequestsOnlyEnd /\ RepliesOnlyEcho
      BY <2>2, <3>1, Disowned
    <3>3. currentTerm'[v] >= r.term
      BY <2>1, <3>1
    <3>. QED  BY <2>2, <3>1, <3>2, <3>3, FollowStep DEF v, l
  <2>. QED  BY <2>2, <2>6, <2>7
<1>6. ASSUME NEW n \in Server, CrashInElectSelf(n) PROVE LogInv'
  <2>. DEFINE t == currentTerm[n] + 1
              d == MetaWritten(disk[n], t, n, commitIndex[n])
              l == Extended(n, t, NoOp)
              e == LogWritten(d, l)
  <2>1. t \in Nat /\ t > currentTerm[n] /\ t >= currentTerm[n]
    BY <1>1
  <2>2. NoOp \in Command
    BY DEF Command
  <2>3. /\ \/ Recover(n, d) /\ UNCHANGED <<elected, termLog>>
           \/ Recover(n, e) /\ Reigns(n, t)
        /\ UNCHANGED appendReqs
    BY <1>6 DEF CrashInElectSelf, leaderHist
  <2>4. d \in DiskType /\ d.currentTerm = t /\ d.log = log[n]
    <3>1. disk[n] \in DiskType /\ commitIndex[n] \in Nat /\ disk[n].log = log[n]
      BY <1>1 DEF TypeOK
    <3>2. d = MetaWritten(disk[n], t, n, commitIndex[n])
      OBVIOUS
    <3>. HIDE DEF d, t
    <3>3. d \in DiskType
      BY <2>1, <3>1, <3>2, MetaWrittenType
    <3>. QED  BY <3>1, <3>2, <3>3 DEF MetaWritten
  <2>. HIDE DEF t, d
  <2>5. l \in Seq(EntryType)
    BY <2>1, <2>2, ExtendedType
  <2>6. e.currentTerm = t /\ e.log = l
    BY <2>4, <2>5 DEF LogWritten, DiskType
  <2>. HIDE DEF e
  <2>7. CASE Recover(n, d) /\ UNCHANGED <<elected, termLog>>
    BY <2>1, <2>3, <2>4, <2>7, RecoverStep
  <2>8. CASE Recover(n, e) /\ Reigns(n, t)
    <3>1. /\ currentTerm' = [currentTerm EXCEPT ![n] = t]
          /\ role' = [role EXCEPT ![n] = "FOLLOWER"]
          /\ log' = [log EXCEPT ![n] = l] /\ appendReps' \subseteq appendReps
          /\ \A p \in Server \ {n} :
               nextIndex'[p] = nextIndex[p] /\ matchIndex'[p] = matchIndex[p]
      BY <2>1, <2>6, <2>8, Recovered
    <3>2. RequestsOnlyEnd /\ RepliesOnlyEcho
      BY <2>3, <3>1, Disowned
    <3>. QED  BY <2>1, <2>8, <3>1, <3>2, ReignStep
  <2>. QED  BY <2>3, <2>7, <2>8
<1>7. ASSUME NEW n \in Server, NEW v \in Value, CrashInPropose(n, v) PROVE LogInv'
  <2>. DEFINE t == currentTerm[n]
              l == Extended(n, t, v)
              e == LogWritten(disk[n], l)
  <2>1. v \in Command
    BY DEF Command
  <2>2. /\ role[n] = "LEADER" /\ Recover(n, e) /\ LeaderWrites(n, t, l)
        /\ UNCHANGED elected /\ UNCHANGED appendReqs
    BY <1>7 DEF CrashInPropose
  <2>3. t \in Nat /\ l \in Seq(EntryType)
    BY <1>1, <2>1, ExtendedType
  <2>. HIDE DEF l
  <2>4. e.currentTerm = t /\ e.log = l
    BY <1>1, <2>3 DEF LogWritten, DiskType
  <2>. HIDE DEF e
  <2>5. /\ currentTerm' = [currentTerm EXCEPT ![n] = t] /\ role'[n] = "FOLLOWER"
        /\ role' = [role EXCEPT ![n] = "FOLLOWER"]
        /\ log' = [log EXCEPT ![n] = l] /\ appendReps' \subseteq appendReps
        /\ \A p \in Server \ {n} : nextIndex'[p] = nextIndex[p] /\ matchIndex'[p] = matchIndex[p]
    BY <1>1, <2>2, <2>4, Recovered
  <2>6. currentTerm' = currentTerm
    BY <2>5 DEF TypeOK
  <2>7. RequestsOnlyEnd /\ RepliesOnlyEcho
    BY <2>2, <2>5, Disowned
  <2>8. \A p \in Server : role'[p] = "LEADER" =>
          nextIndex'[p] = nextIndex[p] /\ matchIndex'[p] = matchIndex[p]
    BY <2>5
  <2>. QED  BY <2>1, <2>2, <2>5, <2>6, <2>7, <2>8, CommandStep DEF l
<1>. QED  BY <1>2, <1>3, <1>4, <1>5, <1>6, <1>7 DEF Failure

-----------------------------------------------------------------------------
LEMMA LogInit == Init => LogInv
<1>1. ASSUME Init
      PROVE  /\ elected = {} /\ DOMAIN termLog = {} /\ appendReqs = {} /\ appendReps = {}
             /\ \A p \in Server : role[p] = "FOLLOWER" /\ log[p] = <<>>
  BY <1>1 DEF Init
<1>2. \A T : Genuine(<<>>, T)
  BY DEF Genuine
<1>. QED  BY <1>1, <1>2 DEF LogInv, TermLogs, ServerLogs, Reigned, LeadersLog,
              RequestsArePieces, RepliesAreEchoes, NextWithinLog

\* Every log is made of what leaders have written, a leader's is what it has
\* written in its term, and so is all that it sends and hears about: what
\* becomeLeader, proposeAndWait, replicationLoop and handleAppendEntries rely on.
THEOREM LogInvariant == ~MetaTearing => (Spec => []LogInv)
<1>. SUFFICES ASSUME ~MetaTearing PROVE Spec => []LogInv
  OBVIOUS
<1>1. /\ TypeOK /\ DurableState /\ TypeOK' /\ ElectionSafety' /\ LogInv /\ [Next]_vars
      => LogInv'
  <2>1. ASSUME TypeOK, DurableState, TypeOK', ElectionSafety', LogInv, Next PROVE LogInv'
    BY <2>1, ElectionLogStep, ReplicationLogStep, ClientLogStep, CrashLogStep DEF Next
  <2>2. ASSUME LogInv, UNCHANGED vars PROVE LogInv'
    <3>1. UNCHANGED <<role, currentTerm, log, termLog, elected, nextIndex, matchIndex,
                      appendReqs, appendReps>>
      BY <2>2 DEF vars, nodeVars, logVars, leaderVars, appendMsgs, history, leaderHist
    <3>. QED  BY <2>2, <3>1 DEF LogInv, TermLogs, ServerLogs, Reigned, LeadersLog,
                  RequestsArePieces, RepliesAreEchoes, NextWithinLog
  <2>. QED  BY <2>1, <2>2
<1>. QED  BY <1>1, LogInit, TypeCorrect, Durable, AtMostOneLeader, PTL DEF Spec

\* Two genuine logs that have a term at an index are the same up to it.
LEMMA LogsMatch ==
  ASSUME TypeOK, LogInv
  PROVE  LogMatching
<1>1. ASSUME NEW n \in Server
      PROVE  log[n] \in Seq(EntryType) /\ \A i \in 1..Len(log[n]) : log[n][i].index = i
  BY LogTypes, LogInvFacts, GenuineOrdered
<1>2. ASSUME NEW n \in Server, NEW p \in Server, NEW i \in 1..Min({Len(log[n]), Len(log[p])}),
             log[n][i].term = log[p][i].term
      PROVE  SubSeq(log[n], 1, i) = SubSeq(log[p], 1, i)
  <2>. DEFINE l == log[n]
              m == log[p]
  <2>1. l \in Seq(EntryType) /\ m \in Seq(EntryType)
    BY <1>1
  <2>2. i \in Nat /\ i \in 1..Len(l) /\ i \in 1..Len(m)
    <3>. HIDE DEF l, m
    <3>1. Len(l) \in Nat /\ Len(m) \in Nat
      BY <2>1
    <3>2. Min({Len(l), Len(m)}) \in Nat /\ Min({Len(l), Len(m)}) <= Len(l)
          /\ Min({Len(l), Len(m)}) <= Len(m)
      BY <3>1, MinOfTwo
    <3>. QED  BY <3>1, <3>2 DEF l, m
  <2>3. AgreeUpTo(l, m, i)
    BY <1>2, <2>1, <2>2, LogTypes, LogInvFacts, SameTermAgree
  <2>. HIDE DEF l, m
  <2>. QED  BY <2>1, <2>2, <2>3 DEF AgreeUpTo, l, m
<1>. QED  BY <1>1, <1>2 DEF LogMatching

\* An index and a term identify an entry and all that precede it: step 3 of
\* handleAppendEntries and the election restriction may compare no more.
THEOREM LogsAlwaysMatch == ~MetaTearing => (Spec => []LogMatching)
<1>1. TypeOK /\ LogInv => LogMatching
  BY LogsMatch
<1>. QED  BY <1>1, TypeCorrect, LogInvariant, PTL

\* What a leader has counted for a peer ends in an entry of its own term, so
\* advanceCommit may count for its NOOP whatever is acknowledged.
THEOREM MatchesCoverNoop == ~MetaTearing => (Spec => []MatchCoversNoop)
<1>1. ASSUME LogInv PROVE MatchCoversNoop
  BY <1>1 DEF LogInv, NextWithinLog, MatchCoversNoop, Has, TermAt
<1>. QED  BY <1>1, LogInvariant, PTL

-----------------------------------------------------------------------------
(* The leader a node names *)

\* Node n moves to term t and names w; what it had is kept only with its term.
HintMoves(n, t, w) ==
  /\ currentTerm' = [currentTerm EXCEPT ![n] = t]
  /\ leaderId' = [leaderId EXCEPT ![n] = w]
  /\ \/ w = Nil
     \/ w = leaderId[n] /\ t = currentTerm[n]
     \/ Reign(t, w) \in elected'

LEMMA HintMoved ==
  ASSUME TypeOK, LeaderHintSound, NEW n \in Server, NEW t, NEW w, HintMoves(n, t, w),
         elected \subseteq elected'
  PROVE  LeaderHintSound'
<1>1. /\ currentTerm'[n] = t /\ leaderId'[n] = w
      /\ \A p \in Server \ {n} : currentTerm'[p] = currentTerm[p] /\ leaderId'[p] = leaderId[p]
  BY DEF HintMoves, TypeOK
<1>. QED  BY <1>1 DEF HintMoves, LeaderHintSound, Reign

LEMMA HintKept ==
  ASSUME LeaderHintSound, UNCHANGED <<currentTerm, leaderId>>, elected \subseteq elected'
  PROVE  LeaderHintSound'
  BY DEF LeaderHintSound

LEMMA ElectionHint ==
  ASSUME TypeOK, LeaderHintSound, Election
  PROVE  LeaderHintSound'
<1>. USE DEF nodeVars, history, leaderHist
<1>1. ASSUME NEW n \in Server, ElectionTimeout(n) PROVE LeaderHintSound'
  BY <1>1, HintMoved DEF ElectionTimeout, TimesOut, HintMoves
<1>2. ASSUME NEW n \in Server, ElectSelf(n) PROVE LeaderHintSound'
  BY <1>2, HintMoved DEF ElectSelf, TimesOut, BecomeLeader, Reigns, Reign, HintMoves
<1>3. ASSUME NEW n \in Server, BroadcastRequestVote(n) PROVE LeaderHintSound'
  BY <1>3, HintKept DEF BroadcastRequestVote
<1>4. ASSUME NEW r \in voteReqs, RejectStaleVoteRequest(r) PROVE LeaderHintSound'
  BY <1>4, HintKept DEF RejectStaleVoteRequest
<1>5. ASSUME NEW r \in voteReqs, HandleRequestVote(r) PROVE LeaderHintSound'
  <2>. DEFINE v == r.to
              w == IF r.term > currentTerm[v] THEN Nil ELSE leaderId[v]
  <2>1. v \in Server /\ r.term \in Nat /\ currentTerm[v] \in Nat
    BY DEF TypeOK, VoteReqType
  <2>2. /\ ~(r.term < currentTerm[v]) /\ elected' = elected
        /\ currentTerm' = [currentTerm EXCEPT ![v] = r.term]
        /\ leaderId' = [leaderId EXCEPT ![v] = w]
    BY <1>5 DEF HandleRequestVote, AdoptTerm, Stale
  <2>3. w = Nil \/ (w = leaderId[v] /\ r.term = currentTerm[v])
    BY <2>1, <2>2
  <2>. HIDE DEF v, w
  <2>. QED  BY <2>1, <2>2, <2>3, HintMoved DEF HintMoves
<1>6. ASSUME NEW m \in voteReps, VoteReplyHigherTerm(m) PROVE LeaderHintSound'
  <2>1. m.to \in Server
    BY DEF TypeOK, VoteRepType
  <2>. QED  BY <1>6, <2>1, HintMoved DEF VoteReplyHigherTerm, StepDown, HintMoves
<1>7. ASSUME NEW m \in voteReps, VoteReplyIgnored(m) \/ VoteReplyCounted(m) PROVE LeaderHintSound'
  BY <1>7, HintKept DEF VoteReplyIgnored, VoteReplyCounted
<1>8. ASSUME NEW m \in voteReps, VoteReplyWins(m) PROVE LeaderHintSound'
  <2>1. m.to \in Server
    BY DEF TypeOK, VoteRepType
  <2>2. HintMoves(m.to, currentTerm[m.to], m.to) /\ elected \subseteq elected'
    BY <1>8 DEF VoteReplyWins, BecomeLeader, Reigns, Reign, HintMoves, TypeOK
  <2>. QED  BY <2>1, <2>2, HintMoved
<1>. QED  BY <1>1, <1>2, <1>3, <1>4, <1>5, <1>6, <1>7, <1>8 DEF Election

LEMMA ReplicationHint ==
  ASSUME TypeOK, LogInv, LeaderHintSound, Replication
  PROVE  LeaderHintSound'
<1>. USE DEF nodeVars, history, leaderHist
<1>1. ASSUME NEW n \in Server, NEW p \in Peers(n), SendAppendEntries(n, p) PROVE LeaderHintSound'
  BY <1>1, HintKept DEF SendAppendEntries
<1>2. ASSUME NEW r \in appendReqs, RpcFails(r) \/ RejectStaleAppend(r) PROVE LeaderHintSound'
  BY <1>2, HintKept DEF RpcFails, RejectStaleAppend
<1>3. ASSUME NEW r \in appendReqs, RejectMismatch(r) \/ AcceptAppend(r) PROVE LeaderHintSound'
  <2>1. Recognise(r.to, r.term, r.from) /\ elected' = elected
    BY <1>3 DEF RejectMismatch, AcceptAppend
  <2>. QED  BY <2>1, RequestFacts, HintMoved DEF Recognise, HintMoves
<1>4. ASSUME NEW m \in appendReps, LoseAppendReply(m) \/ AppendReplyIgnored(m)
                                   \/ AppendReplySuccess(m) \/ AppendReplyFailure(m)
      PROVE  LeaderHintSound'
  BY <1>4, HintKept
     DEF LoseAppendReply, AppendReplyIgnored, AppendReplySuccess, AppendReplyFailure
<1>5. ASSUME NEW m \in appendReps, AppendReplyHigherTerm(m) PROVE LeaderHintSound'
  <2>1. m.to \in Server
    BY LogTypes
  <2>. QED  BY <1>5, <2>1, HintMoved DEF AppendReplyHigherTerm, StepDown, HintMoves
<1>. QED  BY <1>1, <1>2, <1>3, <1>4, <1>5 DEF Replication

LEMMA ClientHint ==
  ASSUME LeaderHintSound, Client
  PROVE  LeaderHintSound'
  BY HintKept DEF Client, Propose, ProposalOk, ProposalFails, nodeVars, history, leaderHist

LEMMA FailureHint ==
  ASSUME TypeOK, DurableState, LeaderHintSound, Failure
  PROVE  LeaderHintSound'
<1>. PICK n \in Server, d \in DiskType : CrashLeaves(n, d)
  BY CrashImage
<1>. QED  BY HintMoved DEF CrashLeaves, Recover, HintMoves

\* NOT_LEADER never sends a client after a node that did not win the term: the
\* hint is set by the winner or by the winner's requests, and cleared with the term.
THEOREM HintsSound == ~MetaTearing => (Spec => []LeaderHintSound)
<1>. SUFFICES ASSUME ~MetaTearing PROVE Spec => []LeaderHintSound
  OBVIOUS
<1>1. Init => LeaderHintSound
  BY DEF Init, LeaderHintSound
<1>2. TypeOK /\ DurableState /\ LogInv /\ LeaderHintSound /\ [Next]_vars => LeaderHintSound'
  <2>1. ASSUME TypeOK, DurableState, LogInv, LeaderHintSound, Next PROVE LeaderHintSound'
    BY <2>1, ElectionHint, ReplicationHint, ClientHint, FailureHint DEF Next
  <2>2. ASSUME LeaderHintSound, UNCHANGED vars PROVE LeaderHintSound'
    BY <2>2, HintKept DEF vars, nodeVars, history, leaderHist
  <2>. QED  BY <2>1, <2>2
<1>. QED  BY <1>1, <1>2, TypeCorrect, Durable, LogInvariant, PTL DEF Spec

-----------------------------------------------------------------------------
(* A leader's log *)

\* In the term it leads a node writes only what extends its log.
LEMMA LeaderLogKept ==
  ASSUME TypeOK, LogInv, NEW n \in Server, NEW l,
         l = log[n] \/ \E t \in Nat, c \in Command : l = Extended(n, t, c)
  PROVE  IsPrefix(log[n], l)
<1>1. log[n] \in Seq(EntryType)
  BY LogTypes
<1>2. CASE l = log[n]
  BY <1>1, <1>2 DEF IsPrefix
<1>3. CASE \E t \in Nat, c \in Command : l = Extended(n, t, c)
  <2>1. PICK t \in Nat, c \in Command : l = Extended(n, t, c)
    BY <1>3
  <2>. DEFINE e == Entry(t, Len(log[n]) + 1, c)
  <2>2. l = Append(log[n], e) /\ e \in EntryType
    BY <2>1, ExtendedFacts
  <2>. HIDE DEF e
  <2>. QED  BY <1>1, <2>2 DEF IsPrefix
<1>. QED  BY <1>2, <1>3

AppendOnlyStep ==
  \A n \in Server : role[n] = "LEADER" /\ role'[n] = "LEADER" => IsPrefix(log[n], log'[n])

\* Node v writes a log that extends its own, or leads no more.
LEMMA OneLogWritten ==
  ASSUME TypeOK, LogInv, NEW v \in Server, NEW l, log' = [log EXCEPT ![v] = l],
         \/ role'[v] # "LEADER"
         \/ l = log[v]
         \/ \E t \in Nat, c \in Command : l = Extended(v, t, c)
  PROVE  AppendOnlyStep
<1>1. log'[v] = l /\ \A n \in Server \ {v} : log'[n] = log[n]
  BY LogTypes
<1>2. \A n \in Server : IsPrefix(log[n], log[n])
  BY LeaderLogKept
<1>3. role'[v] = "LEADER" => IsPrefix(log[v], l)
  BY LeaderLogKept
<1>. QED  BY <1>1, <1>2, <1>3 DEF AppendOnlyStep

LEMMA NoLogWritten ==
  ASSUME TypeOK, LogInv, UNCHANGED log
  PROVE  AppendOnlyStep
  BY LeaderLogKept DEF AppendOnlyStep

LEMMA LeadersAppend ==
  ASSUME TypeOK, LogInv, Next
  PROVE  AppendOnlyStep
<1>. USE DEF logVars
<1>1. NoOp \in Command /\ \A v \in Value : v \in Command
  BY DEF Command
<1>2. \A n \in Server : currentTerm[n] \in Nat
  BY DEF TypeOK
<1>3. CASE Election
  <2>1. ASSUME NEW n \in Server, ElectSelf(n) PROVE AppendOnlyStep
    <3>1. currentTerm[n] + 1 \in Nat
      BY <1>2
    <3>2. log' = [log EXCEPT ![n] = Extended(n, currentTerm[n] + 1, NoOp)]
      BY <2>1 DEF ElectSelf, BecomeLeader, CommitAsLeader
    <3>. QED  BY <1>1, <3>1, <3>2, OneLogWritten
  <2>2. ASSUME NEW m \in voteReps, VoteReplyWins(m) PROVE AppendOnlyStep
    <3>1. m.to \in Server
      BY DEF TypeOK, VoteRepType
    <3>2. log' = [log EXCEPT ![m.to] = Extended(m.to, currentTerm[m.to], NoOp)]
      BY <2>2 DEF VoteReplyWins, BecomeLeader, CommitAsLeader
    <3>. QED  BY <1>1, <1>2, <3>1, <3>2, OneLogWritten
  <2>. QED  BY <1>3, <2>1, <2>2, NoLogWritten
            DEF Election, ElectionTimeout, BroadcastRequestVote, RejectStaleVoteRequest,
                HandleRequestVote, VoteReplyHigherTerm, VoteReplyIgnored, VoteReplyCounted
<1>4. CASE Replication
  <2>1. ASSUME NEW r \in appendReqs, AcceptAppend(r) PROVE AppendOnlyStep
    <3>1. /\ log' = [log EXCEPT ![r.to] = Reconcile(log[r.to], r.entries)]
          /\ role' = [role EXCEPT ![r.to] = "FOLLOWER"]
      BY <2>1 DEF AcceptAppend, Recognise
    <3>2. r.to \in Server /\ role'[r.to] # "LEADER"
      BY <3>1, RequestFacts DEF TypeOK
    <3>. QED  BY <3>1, <3>2, OneLogWritten
  <2>2. ASSUME NEW m \in appendReps, AppendReplySuccess(m) PROVE AppendOnlyStep
    <3>1. m.to \in Server /\ log' = [log EXCEPT ![m.to] = log[m.to]]
      BY <2>2, LogTypes DEF AppendReplySuccess, CommitAsLeader
    <3>. QED  BY <3>1, OneLogWritten
  <2>. QED  BY <1>4, <2>1, <2>2, NoLogWritten
            DEF Replication, SendAppendEntries, RpcFails, RejectStaleAppend, RejectMismatch,
                LoseAppendReply, AppendReplyHigherTerm, AppendReplyIgnored, AppendReplyFailure
<1>5. CASE Client
  <2>1. ASSUME NEW n \in Server, NEW v \in Value, Propose(n, v) PROVE AppendOnlyStep
    <3>1. log' = [log EXCEPT ![n] = Extended(n, currentTerm[n], v)]
      BY <2>1 DEF Propose, CommitAsLeader
    <3>. QED  BY <1>1, <1>2, <3>1, OneLogWritten
  <2>. QED  BY <1>5, <2>1, NoLogWritten DEF Client, ProposalOk, ProposalFails
<1>6. ASSUME NEW n \in Server, NEW d, Recover(n, d) PROVE AppendOnlyStep
  <2>1. log' = [log EXCEPT ![n] = d.log] /\ role' = [role EXCEPT ![n] = "FOLLOWER"]
    BY <1>6 DEF Recover
  <2>2. role'[n] # "LEADER"
    BY <2>1 DEF TypeOK
  <2>. QED  BY <2>1, <2>2, OneLogWritten
<1>7. CASE Failure
  <2>1. \A r \in voteReqs : r.to \in Server
    BY DEF TypeOK, VoteReqType
  <2>2. \A r \in appendReqs : r.to \in Server
    BY LogTypes
  <2>. QED  BY <1>6, <1>7, <2>1, <2>2
            DEF Failure, Crash, CrashInElectSelf, CrashInUpdateMetaData, CrashInPropose,
                CrashInRequestVote, CrashInAppendEntries
<1>. QED  BY <1>3, <1>4, <1>5, <1>7 DEF Next

\* As long as it leads a node adds to its log and deletes nothing: the one write
\* that may, handleAppendEntries', ends the leadership with it.
THEOREM LeadersOnlyAppend == ~MetaTearing => (Spec => LeaderAppendOnly)
<1>1. TypeOK /\ LogInv /\ [Next]_vars => [AppendOnlyStep]_vars
  BY LeadersAppend
<1>2. ~MetaTearing => (Spec => [][AppendOnlyStep]_vars)
  BY <1>1, TypeCorrect, LogInvariant, PTL DEF Spec
<1>. QED  BY <1>2 DEF LeaderAppendOnly, AppendOnlyStep
=============================================================================
