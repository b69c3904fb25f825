------------------------------ MODULE WireProof ------------------------------
(***************************************************************************)
(* For every log, every key and value whose length fits its field, every   *)
(* number of followers and every place at which a file or a connection is  *)
(* cut: what the codec reads is what it wrote, the loop of                 *)
(* handleAppendEntries is Reconcile, and followers hold what is counted.   *)
(* A recursive function is what its defining equation says if some         *)
(* function satisfies that; what it computes follows by UpTo.              *)
(***************************************************************************)
EXTENDS Wire, WellFoundedInduction, SequenceTheorems, FiniteSetTheorems, TLAPS

\* Cells with numbers, cells with a CRC, and what a request and a file consist of.
Scalar == [kind : {"op", "len", "term", "index", "key", "value", "size"}, val : Nat]
CellType == Scalar \cup [kind : {"crc"}, val : Seq(Scalar)]

CommandType ==
  {c \in [operation : Nat, key_len : Nat, value_len : Nat, key : Seq(Scalar), value : Seq(Scalar)] :
     c.key_len = Len(c.key) /\ c.value_len = Len(c.value)}
EntryType == [term : Nat, index : Nat, cmd : CommandType]

-----------------------------------------------------------------------------
(* Sequences, minima and inductions *)

LEMMA LeastExists ==
  ASSUME NEW S \in SUBSET Nat, S # {}
  PROVE  \E k \in S : \A j \in S : k <= j
<1>. DEFINE R == {q \in Nat \X Nat : q[1] < q[2]}
<1>1. IsWellFoundedOn(R, Nat)
  BY NatLessThanWellFounded DEF OpToRel
<1>2. PICK k \in S : \A j \in S : <<j, k>> \notin R
  BY <1>1, WFMin
<1>3. ASSUME NEW j \in S PROVE k <= j
  <2>1. <<j, k>> \in Nat \X Nat
    OBVIOUS
  <2>2. ~(<<j, k>>[1] < <<j, k>>[2])
    BY <1>2, <2>1, Zenon
  <2>. QED  BY <2>2
<1>. QED  BY <1>3

\* Induction up to N, for a set in place of a property.
LEMMA UpTo ==
  ASSUME NEW N \in Nat, NEW S, 0 \in S, \A n \in 0..N : n < N /\ n \in S => n + 1 \in S
  PROVE  \A n \in 0..N : n \in S
<1>. DEFINE B == {n \in 0..N : n \notin S}
<1>. SUFFICES ASSUME B # {} PROVE FALSE
  OBVIOUS
<1>1. PICK k \in B : \A j \in B : k <= j
  <2>1. B \in SUBSET Nat
    OBVIOUS
  <2>. HIDE DEF B
  <2>. QED  BY <2>1, LeastExists
<1>2. k \in 1..N /\ k - 1 \in 0..N /\ k - 1 < N /\ (k - 1) + 1 = k
  OBVIOUS
<1>3. k - 1 \notin B
  BY <1>1, <1>2
<1>. QED  BY <1>2, <1>3

LEMMA LeastIs ==
  ASSUME NEW S \in SUBSET Nat, NEW k \in S, \A j \in S : k <= j
  PROVE  Min(S) = k
<1>1. ASSUME NEW x \in S, \A j \in S : x <= j PROVE x = k
  <2>1. x <= k /\ k <= x /\ x \in Nat /\ k \in Nat
    BY <1>1
  <2>. QED  BY <2>1
<1>2. k \in S /\ \A j \in S : k <= j
  OBVIOUS
<1>. QED  BY <1>1, <1>2, Zenon DEF Min

LEMMA LesserOfTwo ==
  ASSUME NEW a \in Nat, NEW b \in Nat
  PROVE  Min({a, b}) = IF a <= b THEN a ELSE b
<1>1. {a, b} \in SUBSET Nat /\ a \in {a, b} /\ b \in {a, b}
  OBVIOUS
<1>2. CASE a <= b
  BY <1>1, <1>2, LeastIs
<1>3. CASE ~(a <= b)
  <2>1. \A j \in {a, b} : b <= j
    BY <1>3
  <2>. QED  BY <1>1, <1>3, <2>1, LeastIs
<1>. QED  BY <1>2, <1>3

LEMMA FirstPart ==
  ASSUME NEW l \in Seq(EntryType), NEW k \in Nat, k <= Len(l)
  PROVE  /\ SubSeq(l, 1, k) \in Seq(EntryType) /\ Len(SubSeq(l, 1, k)) = k
         /\ \A i \in 1..k : SubSeq(l, 1, k)[i] = l[i]
  OBVIOUS

LEMMA LastPart ==
  ASSUME NEW l \in Seq(EntryType), NEW k \in Nat, k <= Len(l)
  PROVE  /\ SubSeq(l, k + 1, Len(l)) \in Seq(EntryType)
         /\ Len(SubSeq(l, k + 1, Len(l))) = Len(l) - k
         /\ \A i \in 1 .. Len(l) - k : SubSeq(l, k + 1, Len(l))[i] = l[k + i]
  OBVIOUS

LEMMA WholePart ==
  ASSUME NEW l \in Seq(EntryType)
  PROVE  SubSeq(l, 1, Len(l)) = l
<1>1. Len(l) \in Nat
  OBVIOUS
<1>2. SubSeq(l, 1, Len(l)) \in Seq(EntryType) /\ Len(SubSeq(l, 1, Len(l))) = Len(l)
      /\ \A i \in 1..Len(l) : SubSeq(l, 1, Len(l))[i] = l[i]
  BY <1>1, FirstPart
<1>. QED  BY <1>2, SeqEqual

LEMMA OneMore ==
  ASSUME NEW l \in Seq(EntryType), NEW e \in EntryType
  PROVE  /\ Append(l, e) \in Seq(EntryType) /\ Len(Append(l, e)) = Len(l) + 1
         /\ Append(l, e)[Len(l) + 1] = e
         /\ \A i \in 1..Len(l) : Append(l, e)[i] = l[i]
  OBVIOUS

\* A part of a sequence, and the part with the next element.
LEMMA PartGrows ==
  ASSUME NEW l \in Seq(EntryType), NEW j \in Nat, NEW k \in Nat, j <= k, k < Len(l)
  PROVE  SubSeq(l, j + 1, k + 1) = Append(SubSeq(l, j + 1, k), l[k + 1])
<1>. DEFINE p == SubSeq(l, j + 1, k)
            q == SubSeq(l, j + 1, k + 1)
<1>1. p \in Seq(EntryType) /\ Len(p) = k - j /\ \A i \in 1 .. k - j : p[i] = l[j + i]
  OBVIOUS
<1>2. q \in Seq(EntryType) /\ Len(q) = k + 1 - j /\ \A i \in 1 .. k + 1 - j : q[i] = l[j + i]
  OBVIOUS
<1>3. l[k + 1] \in EntryType
  OBVIOUS
<1>. HIDE DEF p, q
<1>4. /\ Append(p, l[k + 1]) \in Seq(EntryType) /\ Len(Append(p, l[k + 1])) = k - j + 1
      /\ Append(p, l[k + 1])[k - j + 1] = l[k + 1]
      /\ \A i \in 1 .. k - j : Append(p, l[k + 1])[i] = p[i]
  BY <1>1, <1>3, OneMore
<1>5. ASSUME NEW i \in 1 .. k + 1 - j PROVE q[i] = Append(p, l[k + 1])[i]
  <2>1. CASE i \in 1 .. k - j
    BY <1>1, <1>2, <1>4, <2>1
  <2>2. CASE i = k - j + 1
    <3>1. j + i = k + 1
      BY <2>2
    <3>. QED  BY <1>2, <1>4, <2>2, <3>1
  <2>3. i \in 1 .. k - j \/ i = k - j + 1
    OBVIOUS
  <2>. QED  BY <2>1, <2>2, <2>3
<1>6. q = Append(p, l[k + 1])
  BY <1>2, <1>4, <1>5, SeqEqual
<1>. QED  BY <1>6 DEF p, q

LEMMA AppendToConcat ==
  ASSUME NEW a \in Seq(EntryType), NEW b \in Seq(EntryType), NEW e \in EntryType
  PROVE  a \o Append(b, e) = Append(a \o b, e)
<1>1. a \o b \in Seq(EntryType) /\ <<e>> \in Seq(EntryType)
  OBVIOUS
<1>2. Append(b, e) = b \o <<e>> /\ Append(a \o b, e) = (a \o b) \o <<e>>
  BY <1>1, AppendIsConcat
<1>3. a \o (b \o <<e>>) = (a \o b) \o <<e>>
  BY <1>1, ConcatAssociative
<1>. QED  BY <1>2, <1>3

-----------------------------------------------------------------------------
(* Reconcile *)

\* es follows index p, and l reaches p.
Follows(es, p, l) ==
  p <= Len(l) /\ \A k \in 1..Len(es) : es[k].index = p + k

LEMMA ReconcileNothing ==
  ASSUME NEW l, NEW es, Differing(l, es) = {}
  PROVE  Reconcile(l, es) = l
  BY DEF Reconcile

\* The first entry that differs decides where the log is cut.
LEMMA ReconcileFirst ==
  ASSUME NEW l \in Seq(EntryType), NEW es \in Seq(EntryType), NEW p \in Nat, Follows(es, p, l),
         NEW k \in Differing(l, es), \A j \in Differing(l, es) : k <= j
  PROVE  /\ p + k - 1 <= Len(l)
         /\ Reconcile(l, es) = SubSeq(l, 1, p + k - 1) \o SubSeq(es, k, Len(es))
         /\ Reconcile(l, es) \in Seq(EntryType) /\ Len(Reconcile(l, es)) = p + Len(es)
         /\ Reconcile(l, es) # l
<1>1. /\ k \in 1..Len(es) /\ Len(es) \in Nat /\ Len(l) \in Nat /\ p <= Len(l)
      /\ \A j \in 1..Len(es) : es[j].index = p + j
  BY DEF Differing, Follows
<1>2. p + k > Len(l) \/ l[p + k].term # es[k].term
  BY <1>1 DEF Differing
<1>. DEFINE q == p + k - 1
            a == SubSeq(l, 1, q)
            b == SubSeq(es, k, Len(es))
            r == a \o b
<1>3. q \in Nat /\ q <= Len(l)
  <2>1. CASE k = 1
    BY <1>1, <2>1
  <2>2. CASE k # 1
    <3>1. k - 1 \in 1..Len(es) /\ k - 1 \notin Differing(l, es)
      BY <1>1, <2>2
    <3>2. p + (k - 1) <= Len(l)
      BY <1>1, <3>1 DEF Differing
    <3>. QED  BY <1>1, <3>2
  <2>. QED  BY <2>1, <2>2
<1>4. Min(Differing(l, es)) = k
  <2>1. Differing(l, es) \in SUBSET Nat
    BY DEF Differing
  <2>. QED  BY <2>1, LeastIs
<1>5. Before(l, p + k) = a
  <2>1. CASE p + k > Len(l)
    <3>1. q = Len(l)
      BY <1>1, <1>3, <2>1
    <3>2. SubSeq(l, 1, Len(l)) = l
      BY WholePart
    <3>. QED  BY <2>1, <3>1, <3>2 DEF Before
  <2>2. CASE ~(p + k > Len(l))
    <3>1. Before(l, p + k) = IF p + k > Len(l) THEN l ELSE SubSeq(l, 1, (p + k) - 1)
      BY Zenon DEF Before
    <3>2. (p + k) - 1 = q
      BY <1>1
    <3>. HIDE DEF q
    <3>. QED  BY <2>2, <3>1, <3>2
  <2>. QED  BY <2>1, <2>2
<1>6. Reconcile(l, es) = r
  BY <1>1, <1>4, <1>5 DEF Reconcile
<1>7. a \in Seq(EntryType) /\ Len(a) = q /\ \A i \in 1..q : a[i] = l[i]
  BY <1>3, FirstPart
<1>8. b \in Seq(EntryType) /\ Len(b) = Len(es) - k + 1 /\ b[1] = es[k]
  <2>1. k - 1 \in Nat /\ k - 1 <= Len(es) /\ (k - 1) + 1 = k /\ 1 \in 1 .. Len(es) - (k - 1)
    BY <1>1
  <2>. QED  BY <1>1, <2>1, LastPart
<1>. HIDE DEF a, b
<1>9. /\ r \in Seq(EntryType) /\ Len(r) = p + Len(es) /\ r[p + k] = es[k]
  <2>1. /\ r \in Seq(EntryType) /\ Len(r) = Len(a) + Len(b)
        /\ \A i \in 1 .. Len(a) + Len(b) :
             r[i] = IF i <= Len(a) THEN a[i] ELSE b[i - Len(a)]
    BY <1>7, <1>8, ConcatProperties, ZenonT(60)
  <2>2. Len(a) + Len(b) = p + Len(es) /\ p + k \in 1 .. Len(a) + Len(b)
        /\ ~(p + k <= Len(a)) /\ (p + k) - Len(a) = 1
    <3>1. Len(a) = p + k - 1 /\ Len(b) = Len(es) - k + 1 /\ k \in 1..Len(es) /\ Len(es) \in Nat
      BY <1>1, <1>7, <1>8
    <3>. HIDE DEF r
    <3>. QED  BY <3>1
  <2>. HIDE DEF r
  <2>3. r[p + k] = b[1]
    BY <2>1, <2>2, Zenon
  <2>. QED  BY <1>8, <2>1, <2>2, <2>3
<1>. HIDE DEF r
<1>10. r # l
  BY <1>1, <1>2, <1>9
<1>. QED  BY <1>3, <1>6, <1>9, <1>10 DEF r, a, b

\* One more entry handled, one more in the request.
LEMMA ReconcileNext ==
  ASSUME NEW l \in Seq(EntryType), NEW es \in Seq(EntryType), NEW p \in Nat, Follows(es, p, l),
         NEW d \in Nat, d < Len(es)
  PROVE  LET r == Reconcile(l, SubSeq(es, 1, d))
             s == Reconcile(l, SubSeq(es, 1, d + 1))
         IN  Iterate(Loop(r, r # l), es[d + 1]) = Loop(s, s # l)
<1>. DEFINE x == SubSeq(es, 1, d)
            y == SubSeq(es, 1, d + 1)
            e == es[d + 1]
            r == Reconcile(l, x)
            s == Reconcile(l, y)
<1>1. /\ Len(es) \in Nat /\ Len(l) \in Nat /\ p <= Len(l) /\ d + 1 \in Nat /\ d + 1 <= Len(es)
      /\ \A k \in 1..Len(es) : es[k].index = p + k
      /\ e \in EntryType
  BY DEF Follows
<1>2. x \in Seq(EntryType) /\ Len(x) = d /\ \A i \in 1..d : x[i] = es[i]
  BY <1>1, FirstPart
<1>3. y \in Seq(EntryType) /\ Len(y) = d + 1 /\ \A i \in 1 .. d + 1 : y[i] = es[i]
  BY <1>1, FirstPart
<1>4. e.index = p + d + 1
  BY <1>1
<1>. HIDE DEF x, y, e
<1>5. Follows(x, p, l) /\ Follows(y, p, l)
  <2>1. \A i \in 1..d : i \in 1..Len(es)
    BY <1>1
  <2>2. \A i \in 1 .. d + 1 : i \in 1..Len(es)
    BY <1>1
  <2>3. Follows(x, p, l)
    BY <1>1, <1>2, <2>1 DEF Follows
  <2>4. Follows(y, p, l)
    BY <1>1, <1>3, <2>2 DEF Follows
  <2>. QED  BY <2>3, <2>4
<1>6. /\ Differing(l, x) = {k \in 1..d : k \in Differing(l, es)}
      /\ Differing(l, y) = {k \in 1 .. d + 1 : k \in Differing(l, es)}
  BY <1>1, <1>2, <1>3 DEF Differing
<1>7. d + 1 \in Differing(l, es) <=> ~Skips(l, e)
  BY <1>1, <1>4 DEF Differing, Skips, Held, e
<1>. DEFINE D == Differing(l, es)
<1>. HIDE DEF D
<1>8. CASE Differing(l, y) = {}
  <2>1. Differing(l, x) = {} /\ Skips(l, e)
    BY <1>6, <1>7, <1>8
  <2>2. r = l /\ s = l
    BY <1>8, <2>1, ReconcileNothing
  <2>. QED  BY <2>1, <2>2 DEF Iterate, Loop, e, x, y
<1>9. CASE Differing(l, x) = {} /\ d + 1 \in Differing(l, es)
  <2>1. r = l /\ ~Skips(l, e)
    BY <1>7, <1>9, ReconcileNothing
  <2>2. d + 1 \in Differing(l, y) /\ \A j \in Differing(l, y) : d + 1 <= j
    BY <1>6, <1>9
  <2>. HIDE DEF s
  <2>3. /\ p + (d + 1) - 1 <= Len(l) /\ s # l
        /\ s = SubSeq(l, 1, p + (d + 1) - 1) \o SubSeq(y, d + 1, Len(y))
    <3>1. y \in Seq(EntryType) /\ Follows(y, p, l)
      BY <1>3, <1>5
    <3>2. d + 1 \in Differing(l, y) /\ \A j \in Differing(l, y) : d + 1 <= j
      BY <2>2
    <3>3. /\ p + (d + 1) - 1 <= Len(l)
          /\ Reconcile(l, y) = SubSeq(l, 1, p + (d + 1) - 1) \o SubSeq(y, d + 1, Len(y))
          /\ Reconcile(l, y) \in Seq(EntryType) /\ Len(Reconcile(l, y)) = p + Len(y)
          /\ Reconcile(l, y) # l
      BY <3>1, <3>2, ReconcileFirst, Zenon
    <3>. QED  BY <3>3 DEF s
  <2>4. p + (d + 1) - 1 = p + d /\ p + d <= Len(l)
    BY <1>1, <2>3
  <2>5. SubSeq(y, d + 1, Len(y)) = <<e>>
    <3>1. SubSeq(y, d + 1, Len(y)) \in Seq(EntryType) /\ Len(SubSeq(y, d + 1, Len(y))) = 1
          /\ SubSeq(y, d + 1, Len(y))[1] = y[d + 1]
      <4>1. d <= Len(y) /\ Len(y) - d = 1 /\ 1 \in 1 .. Len(y) - d
        BY <1>3
      <4>. QED  BY <1>3, <4>1, LastPart
    <3>2. y[d + 1] = e
      BY <1>3 DEF e
    <3>3. \A z \in Seq(EntryType) : Len(z) = 1 => z = <<z[1]>>
      OBVIOUS
    <3>. QED  BY <3>1, <3>2, <3>3
  <2>. DEFINE a == SubSeq(l, 1, p + d)
  <2>6. a \in Seq(EntryType)
    BY <2>4, FirstPart
  <2>7. s = Append(a, e)
    <3>1. s = a \o <<e>>
      BY <2>3, <2>4, <2>5
    <3>. QED  BY <1>1, <2>6, <3>1, AppendIsConcat DEF e
  <2>8. (IF Held(l, e) THEN SubSeq(l, 1, e.index - 1) ELSE l) = a
    <3>1. CASE Held(l, e)
      BY <1>1, <1>4, <3>1
    <3>2. CASE ~Held(l, e)
      <4>1. p + d = Len(l)
        BY <1>1, <1>4, <2>4, <3>2 DEF Held
      <4>. QED  BY <3>2, <4>1, WholePart
    <3>. QED  BY <3>1, <3>2
  <2>. HIDE DEF a, r, s
  <2>9. Iterate(Loop(l, FALSE), e) = Loop(s, TRUE)
    BY <2>1, <2>7, <2>8 DEF Iterate, Loop
  <2>. QED  BY <2>1, <2>3, <2>9 DEF r, s, e, x, y
<1>10. CASE Differing(l, x) # {}
  <2>1. PICK k \in Differing(l, x) : \A j \in Differing(l, x) : k <= j
    <3>1. Differing(l, x) \in SUBSET Nat
      BY DEF Differing
    <3>. QED  BY <1>10, <3>1, LeastExists
  <2>2. k \in 1..d /\ k \in Differing(l, y) /\ \A j \in Differing(l, y) : k <= j
    BY <1>6, <2>1
  <2>. DEFINE a == SubSeq(l, 1, p + k - 1)
              b == SubSeq(x, k, d)
  <2>. HIDE DEF r, s
  <2>3. /\ p + k - 1 <= Len(l) /\ r = a \o b /\ r \in Seq(EntryType)
        /\ Len(r) = p + d /\ r # l
    <3>1. /\ p + k - 1 <= Len(l)
          /\ Reconcile(l, x) = SubSeq(l, 1, p + k - 1) \o SubSeq(x, k, Len(x))
          /\ Reconcile(l, x) \in Seq(EntryType) /\ Len(Reconcile(l, x)) = p + Len(x)
          /\ Reconcile(l, x) # l
      BY <1>2, <1>5, <2>1, ReconcileFirst, Zenon
    <3>. QED  BY <1>2, <3>1 DEF r
  <2>4. s = a \o SubSeq(y, k, d + 1) /\ s # l
    <3>1. /\ p + k - 1 <= Len(l)
          /\ Reconcile(l, y) = SubSeq(l, 1, p + k - 1) \o SubSeq(y, k, Len(y))
          /\ Reconcile(l, y) \in Seq(EntryType) /\ Len(Reconcile(l, y)) = p + Len(y)
          /\ Reconcile(l, y) # l
      <4>1. y \in Seq(EntryType) /\ Follows(y, p, l)
        BY <1>3, <1>5
      <4>2. k \in Differing(l, y) /\ \A j \in Differing(l, y) : k <= j
        BY <2>2
      <4>. QED  BY <4>1, <4>2, ReconcileFirst, Zenon
    <3>. QED  BY <1>3, <3>1 DEF s
  <2>5. k - 1 \in Nat /\ k - 1 + 1 = k /\ k - 1 <= d /\ p + k - 1 \in Nat
    BY <2>2
  <2>6. b \in Seq(EntryType) /\ Len(b) = d - (k - 1)
        /\ \A i \in 1 .. d - (k - 1) : b[i] = x[k - 1 + i]
    BY <1>1, <1>2, <2>2, <2>5
  <2>. DEFINE c == SubSeq(y, k, d)
  <2>7. c \in Seq(EntryType) /\ Len(c) = d - (k - 1)
        /\ \A i \in 1 .. d - (k - 1) : c[i] = y[k - 1 + i]
    BY <1>1, <1>3, <2>2, <2>5
  <2>8. b = c
    <3>1. ASSUME NEW i \in 1 .. d - (k - 1) PROVE x[k - 1 + i] = y[k - 1 + i]
      <4>1. k - 1 + i \in 1..d /\ k - 1 + i \in 1 .. d + 1
        BY <2>2
      <4>. QED  BY <1>2, <1>3, <4>1
    <3>. HIDE DEF b, c
    <3>. QED  BY <2>6, <2>7, <3>1, SeqEqual
  <2>9. SubSeq(y, k, d + 1) = Append(b, e)
    <3>1. SubSeq(y, (k - 1) + 1, d + 1) = Append(SubSeq(y, (k - 1) + 1, d), y[d + 1])
      <4>1. d < Len(y)
        BY <1>3
      <4>. QED  BY <1>3, <2>5, <4>1, PartGrows
    <3>2. y[d + 1] = e
      BY <1>3 DEF e
    <3>. QED  BY <2>5, <2>8, <3>1, <3>2
  <2>10. a \in Seq(EntryType)
    BY <2>3, <2>5, FirstPart
  <2>11. s = Append(r, e)
    <3>. HIDE DEF a, b
    <3>1. e \in EntryType
      BY <1>1 DEF e
    <3>2. a \o Append(b, e) = Append(a \o b, e)
      BY <2>6, <2>10, <3>1, AppendToConcat
    <3>. QED  BY <2>3, <2>4, <2>9, <3>2
  <2>. HIDE DEF a, b, c, r, s
  <2>12. ~Held(r, e) /\ ~Skips(r, e)
    BY <1>1, <1>4, <2>3 DEF Held, Skips
  <2>13. Iterate(Loop(r, TRUE), e) = Loop(s, TRUE)
    BY <2>11, <2>12 DEF Iterate, Loop
  <2>. QED  BY <2>3, <2>4, <2>13 DEF r, s, e, x, y
<1>. QED  BY <1>6, <1>8, <1>9, <1>10 DEF e, x, y

\* The loop is Reconcile: what Iterations is after each entry, in terms of Reconcile.
LEMMA LoopReconciles ==
  ASSUME NEW l \in Seq(EntryType), NEW es \in Seq(EntryType), NEW p \in Nat, Follows(es, p, l)
  PROVE  AppendLoop(l, es) = Loop(Reconcile(l, es), Reconcile(l, es) # l)
<1>. DEFINE N == Len(es)
            at(n) == Reconcile(l, SubSeq(es, 1, n))
            g == [n \in 0..N |-> Loop(at(n), at(n) # l)]
            P(f) == f = [n \in 0..N |-> IF n = 0 THEN Loop(l, FALSE) ELSE Iterate(f[n - 1], es[n])]
            F == Iterations(l, es)
<1>1. N \in Nat
  OBVIOUS
<1>2. g[0] = Loop(l, FALSE)
  <2>1. SubSeq(es, 1, 0) = <<>>
    OBVIOUS
  <2>2. Differing(l, <<>>) = {}
    BY DEF Differing
  <2>3. at(0) = l
    BY <2>1, <2>2, ReconcileNothing
  <2>. HIDE DEF at
  <2>4. g[0] = Loop(at(0), at(0) # l)
    BY <1>1
  <2>. QED  BY <2>3, <2>4
<1>3. ASSUME NEW n \in 1..N PROVE g[n] = Iterate(g[n - 1], es[n])
  <2>1. n - 1 \in Nat /\ n - 1 < Len(es) /\ (n - 1) + 1 = n /\ n - 1 \in 0..N /\ n \in 0..N
    BY <1>1
  <2>2. Iterate(Loop(at(n - 1), at(n - 1) # l), es[(n - 1) + 1])
          = Loop(at((n - 1) + 1), at((n - 1) + 1) # l)
    BY <2>1, ReconcileNext
  <2>. HIDE DEF at
  <2>3. g[n - 1] = Loop(at(n - 1), at(n - 1) # l) /\ g[n] = Loop(at(n), at(n) # l)
    BY <2>1
  <2>. QED  BY <2>1, <2>2, <2>3
<1>4. P(g)
  <2>. HIDE DEF at
  <2>1. \A n \in 0..N : n = 0 \/ n \in 1..N
    BY <1>1
  <2>2. g = [n \in 0..N |-> g[n]]
    OBVIOUS
  <2>. HIDE DEF g
  <2>3. \A n \in 0..N : g[n] = IF n = 0 THEN Loop(l, FALSE) ELSE Iterate(g[n - 1], es[n])
    BY <1>2, <1>3, <2>1
  <2>. QED  BY <2>2, <2>3, Zenon
<1>5. F = CHOOSE f : P(f)
  BY Zenon DEF Iterations
<1>6. P(F)
  <2>. HIDE DEF P, F
  <2>. QED  BY <1>4, <1>5, Zenon
<1>7. \A n \in 0..N : F[n] = g[n]
  <2>. DEFINE S == {n \in 0..N : F[n] = g[n]}
  <2>. HIDE DEF F, g
  <2>1. 0 \in S
    BY <1>1, <1>2, <1>6
  <2>2. ASSUME NEW n \in 0..N, n < N, n \in S PROVE n + 1 \in S
    <3>1. n + 1 \in 1..N /\ n + 1 \in 0..N /\ (n + 1) - 1 = n /\ n + 1 # 0
      BY <1>1, <2>2
    <3>2. F[n + 1] = Iterate(F[n], es[n + 1])
      BY <1>6, <3>1
    <3>3. g[n + 1] = Iterate(g[n], es[n + 1])
      BY <1>3, <3>1
    <3>. QED  BY <2>2, <3>1, <3>2, <3>3
  <2>. HIDE DEF S
  <2>3. \A n \in 0..N : n \in S
    BY <1>1, <2>1, <2>2, UpTo
  <2>. QED  BY <2>3 DEF S
<1>8. AppendLoop(l, es) = F[N]
  BY DEF AppendLoop
<1>9. at(N) = Reconcile(l, es)
  BY <1>1, WholePart
<1>10. N \in 0..N
  BY <1>1
<1>. HIDE DEF F, at
<1>. QED  BY <1>7, <1>8, <1>9, <1>10

\* What Reconcile leaves of the log, and of the request.
LEMMA ReconcileKeeps ==
  ASSUME NEW l \in Seq(EntryType), NEW es \in Seq(EntryType), NEW p \in Nat, Follows(es, p, l)
  PROVE  LET m == Reconcile(l, es)
         IN  /\ m \in Seq(EntryType) /\ p + Len(es) <= Len(m)
             /\ \A i \in 1..p : m[i] = l[i]
             /\ \A k \in 1..Len(es) : m[p + k].term = es[k].term
             /\ \/ \E k \in 1..Len(es) : p + k <= Len(l) /\ l[p + k].term # es[k].term
                \/ Len(l) <= Len(m) /\ \A i \in 1..Len(l) : m[i] = l[i]
<1>. DEFINE m == Reconcile(l, es)
<1>1. /\ Len(es) \in Nat /\ Len(l) \in Nat /\ p <= Len(l)
      /\ \A j \in 1..Len(es) : es[j].index = p + j
  BY DEF Follows
<1>2. CASE Differing(l, es) = {}
  <2>1. m = l
    BY <1>2, ReconcileNothing
  <2>2. \A k \in 1..Len(es) : p + k <= Len(l) /\ l[p + k].term = es[k].term
    BY <1>1, <1>2 DEF Differing
  <2>3. p + Len(es) <= Len(l)
    <3>1. CASE Len(es) = 0
      BY <1>1, <3>1
    <3>2. CASE Len(es) # 0
      <4>1. Len(es) \in 1..Len(es)
        BY <1>1, <3>2
      <4>. QED  BY <2>2, <4>1
    <3>. QED  BY <3>1, <3>2
  <2>. QED  BY <1>1, <2>1, <2>2, <2>3
<1>3. CASE Differing(l, es) # {}
  <2>1. PICK k \in Differing(l, es) : \A j \in Differing(l, es) : k <= j
    <3>1. Differing(l, es) \in SUBSET Nat
      BY DEF Differing
    <3>. QED  BY <1>3, <3>1, LeastExists
  <2>. DEFINE a == SubSeq(l, 1, p + k - 1)
              b == SubSeq(es, k, Len(es))
              r == a \o b
  <2>2. /\ p + k - 1 <= Len(l) /\ m = r /\ m \in Seq(EntryType) /\ Len(m) = p + Len(es)
    <3>1. /\ p + k - 1 <= Len(l)
          /\ Reconcile(l, es) = SubSeq(l, 1, p + k - 1) \o SubSeq(es, k, Len(es))
          /\ Reconcile(l, es) \in Seq(EntryType) /\ Len(Reconcile(l, es)) = p + Len(es)
          /\ Reconcile(l, es) # l
      BY <2>1, ReconcileFirst, Zenon
    <3>. QED  BY <3>1
  <2>3. k \in 1..Len(es) /\ p + k - 1 \in Nat /\ k - 1 \in Nat /\ (k - 1) + 1 = k /\ k - 1 <= Len(es)
    BY <1>1 DEF Differing
  <2>4. a \in Seq(EntryType) /\ Len(a) = p + k - 1 /\ \A i \in 1 .. p + k - 1 : a[i] = l[i]
    BY <2>2, <2>3, FirstPart
  <2>5. /\ b \in Seq(EntryType) /\ Len(b) = Len(es) - (k - 1)
        /\ \A i \in 1 .. Len(es) - (k - 1) : b[i] = es[(k - 1) + i]
    BY <1>1, <2>3, LastPart
  <2>. HIDE DEF a, b
  <2>6. \A i \in 1 .. Len(a) + Len(b) : r[i] = IF i <= Len(a) THEN a[i] ELSE b[i - Len(a)]
    BY <2>4, <2>5, ConcatProperties, ZenonT(60)
  <2>. HIDE DEF m, r
  <2>7. \A i \in 1 .. p + k - 1 : m[i] = l[i]
    BY <1>1, <2>2, <2>3, <2>4, <2>5, <2>6
  <2>8. ASSUME NEW j \in 1..Len(es), k <= j PROVE m[p + j] = es[j]
    <3>1. p + j \in 1 .. Len(a) + Len(b) /\ ~(p + j <= Len(a)) /\ (p + j) - Len(a) = j - k + 1
      BY <1>1, <2>3, <2>4, <2>5, <2>8
    <3>2. j - k + 1 \in 1 .. Len(es) - (k - 1) /\ (k - 1) + (j - k + 1) = j
      BY <1>1, <2>3, <2>8
    <3>3. m[p + j] = b[j - k + 1]
      BY <2>2, <2>6, <3>1
    <3>. QED  BY <2>5, <3>2, <3>3
  <2>9. ASSUME NEW j \in 1..Len(es) PROVE m[p + j].term = es[j].term
    <3>1. CASE k <= j
      BY <2>8, <3>1
    <3>2. CASE ~(k <= j)
      <4>1. j \notin Differing(l, es)
        BY <2>1, <2>3, <3>2
      <4>2. l[p + j].term = es[j].term
        BY <1>1, <4>1 DEF Differing
      <4>3. p + j \in 1 .. p + k - 1
        BY <2>3, <3>2
      <4>. QED  BY <2>7, <4>2, <4>3
    <3>. QED  BY <3>1, <3>2
  <2>10. \A i \in 1..p : i \in 1 .. p + k - 1
    BY <2>3
  <2>11. CASE p + k <= Len(l)
    <3>1. l[p + k].term # es[k].term
      BY <1>1, <2>3, <2>11 DEF Differing
    <3>. QED  BY <1>1, <2>2, <2>3, <2>7, <2>9, <2>10, <2>11, <3>1 DEF m
  <2>12. CASE ~(p + k <= Len(l))
    <3>1. p + k - 1 = Len(l) /\ Len(l) <= p + Len(es)
      <4>1. Len(es) \in Nat /\ Len(l) \in Nat /\ p + k - 1 <= Len(l) /\ k \in 1..Len(es)
        BY <1>1, <2>2, <2>3
      <4>. QED  BY <2>12, <4>1
    <3>. QED  BY <1>1, <2>2, <2>7, <2>9, <2>10, <3>1 DEF m
  <2>. QED  BY <2>11, <2>12
<1>. QED  BY <1>2, <1>3

-----------------------------------------------------------------------------
(* Cells *)

LEMMA ConcatFacts ==
  ASSUME NEW T, NEW a \in Seq(T), NEW b \in Seq(T)
  PROVE  /\ a \o b \in Seq(T) /\ Len(a \o b) = Len(a) + Len(b)
         /\ \A i \in 1..Len(a) : (a \o b)[i] = a[i]
         /\ \A i \in 1..Len(b) : (a \o b)[Len(a) + i] = b[i]
<1>. DEFINE r == a \o b
<1>1. /\ r \in Seq(T) /\ Len(r) = Len(a) + Len(b)
      /\ \A i \in 1 .. Len(a) + Len(b) : r[i] = IF i <= Len(a) THEN a[i] ELSE b[i - Len(a)]
  BY ConcatProperties, ZenonT(60)
<1>. HIDE DEF r
<1>2. Len(a) \in Nat /\ Len(b) \in Nat
  OBVIOUS
<1>3. ASSUME NEW i \in 1..Len(a) PROVE r[i] = a[i]
  <2>1. i \in 1 .. Len(a) + Len(b) /\ i <= Len(a)
    BY <1>2
  <2>. QED  BY <1>1, <2>1
<1>4. ASSUME NEW i \in 1..Len(b) PROVE r[Len(a) + i] = b[i]
  <2>1. /\ Len(a) + i \in 1 .. Len(a) + Len(b) /\ ~(Len(a) + i <= Len(a))
        /\ (Len(a) + i) - Len(a) = i
    BY <1>2
  <2>. QED  BY <1>1, <2>1
<1>. QED  BY <1>1, <1>3, <1>4 DEF r

LEMMA ScalarsConcat ==
  ASSUME NEW a \in Seq(Scalar), NEW b \in Seq(Scalar)
  PROVE  /\ a \o b \in Seq(Scalar) /\ Len(a \o b) = Len(a) + Len(b)
         /\ \A i \in 1..Len(a) : (a \o b)[i] = a[i]
         /\ \A i \in 1..Len(b) : (a \o b)[Len(a) + i] = b[i]
  BY ConcatFacts

LEMMA CellsConcat ==
  ASSUME NEW a \in Seq(CellType), NEW b \in Seq(CellType)
  PROVE  /\ a \o b \in Seq(CellType) /\ Len(a \o b) = Len(a) + Len(b)
         /\ \A i \in 1..Len(a) : (a \o b)[i] = a[i]
         /\ \A i \in 1..Len(b) : (a \o b)[Len(a) + i] = b[i]
  BY ConcatFacts

LEMMA PartFacts ==
  ASSUME NEW T, NEW s \in Seq(T), NEW j \in Nat, NEW k \in Nat, j <= k, k <= Len(s)
  PROVE  /\ SubSeq(s, j + 1, k) \in Seq(T) /\ Len(SubSeq(s, j + 1, k)) = k - j
         /\ \A i \in 1 .. k - j : SubSeq(s, j + 1, k)[i] = s[j + i]
  OBVIOUS

LEMMA AppendFacts ==
  ASSUME NEW T, NEW s \in Seq(T), NEW x \in T
  PROVE  /\ Append(s, x) \in Seq(T) /\ Len(Append(s, x)) = Len(s) + 1
         /\ Append(s, x)[Len(s) + 1] = x
         /\ \A i \in 1..Len(s) : Append(s, x)[i] = s[i]
  OBVIOUS

\* b begins with a, and a part of b is c.
Starts(a, b) == Len(a) <= Len(b) /\ \A i \in 1..Len(a) : b[i] = a[i]
Within(c, b, pos) == pos + Len(c) <= Len(b) /\ \A i \in 1..Len(c) : b[pos + i] = c[i]

LEMMA WithinIsPart ==
  ASSUME NEW T, NEW b \in Seq(T), NEW c \in Seq(T), NEW pos \in Nat, Within(c, b, pos)
  PROVE  SubSeq(b, pos + 1, pos + Len(c)) = c
<1>1. Len(c) \in Nat /\ Len(b) \in Nat /\ pos <= pos + Len(c) /\ (pos + Len(c)) - pos = Len(c)
      /\ pos + Len(c) \in Nat
  OBVIOUS
<1>. DEFINE d == SubSeq(b, pos + 1, pos + Len(c))
<1>2. d \in Seq(T) /\ Len(d) = Len(c) /\ \A i \in 1..Len(c) : d[i] = b[pos + i]
  BY <1>1, PartFacts DEF Within
<1>3. \A i \in 1..Len(c) : d[i] = c[i]
  BY <1>2 DEF Within
<1>. HIDE DEF d
<1>4. d = c
  BY <1>2, <1>3, SeqEqual
<1>. QED  BY <1>4 DEF d

-----------------------------------------------------------------------------
(* Records *)

Width(e) == 6 + Len(e.cmd.key) + Len(e.cmd.value)

\* The cells that the CRC covers.
Bytes(e) == <<Cell("term", e.term), Cell("index", e.index)>> \o Serialize(e.cmd)

LEMMA BytesFacts ==
  ASSUME NEW e \in EntryType
  PROVE  /\ Bytes(e) \in Seq(Scalar) /\ Len(Bytes(e)) = 5 + Len(e.cmd.key) + Len(e.cmd.value)
         /\ Bytes(e)[1].val = e.term /\ Bytes(e)[2].val = e.index
         /\ Bytes(e)[3].val = e.cmd.operation
         /\ Bytes(e)[4].val = Len(e.cmd.key) /\ Bytes(e)[5].val = Len(e.cmd.value)
         /\ \A i \in 1..Len(e.cmd.key) : Bytes(e)[5 + i] = e.cmd.key[i]
         /\ \A i \in 1..Len(e.cmd.value) : Bytes(e)[5 + Len(e.cmd.key) + i] = e.cmd.value[i]
<1>. DEFINE c == e.cmd
            h == <<Cell("term", e.term), Cell("index", e.index)>>
            f == <<Cell("op", c.operation), Cell("len", c.key_len), Cell("len", c.value_len)>>
            g == f \o c.key
            s == g \o c.value
<1>1. /\ e.term \in Nat /\ e.index \in Nat /\ c.operation \in Nat /\ c.key_len \in Nat
      /\ c.value_len \in Nat /\ c.key \in Seq(Scalar) /\ c.value \in Seq(Scalar)
      /\ c.key_len = Len(c.key) /\ c.value_len = Len(c.value)
  BY DEF EntryType, CommandType
<1>. HIDE DEF c
<1>2. /\ Cell("term", e.term) \in Scalar /\ Cell("index", e.index) \in Scalar
      /\ Cell("op", c.operation) \in Scalar /\ Cell("len", c.key_len) \in Scalar
      /\ Cell("len", c.value_len) \in Scalar
  BY <1>1 DEF Cell, Scalar
<1>3. h \in Seq(Scalar) /\ Len(h) = 2 /\ h[1].val = e.term /\ h[2].val = e.index
  BY <1>2 DEF Cell
<1>4. /\ f \in Seq(Scalar) /\ Len(f) = 3 /\ f[1].val = c.operation
      /\ f[2].val = c.key_len /\ f[3].val = c.value_len
  BY <1>2 DEF Cell
<1>. HIDE DEF h, f
<1>5. /\ g \in Seq(Scalar) /\ Len(g) = 3 + Len(c.key) /\ \A i \in 1..3 : g[i] = f[i]
      /\ \A i \in 1..Len(c.key) : g[3 + i] = c.key[i]
  <2>1. /\ f \o c.key \in Seq(Scalar) /\ Len(f \o c.key) = Len(f) + Len(c.key)
        /\ \A i \in 1..Len(f) : (f \o c.key)[i] = f[i]
        /\ \A i \in 1..Len(c.key) : (f \o c.key)[Len(f) + i] = c.key[i]
    BY <1>1, <1>4, ScalarsConcat
  <2>. QED  BY <1>4, <2>1
<1>. HIDE DEF g
<1>6. /\ s \in Seq(Scalar) /\ Len(s) = Len(g) + Len(c.value) /\ \A i \in 1..Len(g) : s[i] = g[i]
      /\ \A i \in 1..Len(c.value) : s[Len(g) + i] = c.value[i]
  <2>1. /\ g \o c.value \in Seq(Scalar) /\ Len(g \o c.value) = Len(g) + Len(c.value)
        /\ \A i \in 1..Len(g) : (g \o c.value)[i] = g[i]
        /\ \A i \in 1..Len(c.value) : (g \o c.value)[Len(g) + i] = c.value[i]
    BY <1>1, <1>5, ScalarsConcat
  <2>. QED  BY <2>1
<1>. HIDE DEF s
<1>7. /\ h \o s \in Seq(Scalar) /\ Len(h \o s) = 2 + Len(s) /\ \A i \in 1..2 : (h \o s)[i] = h[i]
      /\ \A i \in 1..Len(s) : (h \o s)[2 + i] = s[i]
  <2>1. /\ h \o s \in Seq(Scalar) /\ Len(h \o s) = Len(h) + Len(s)
        /\ \A i \in 1..Len(h) : (h \o s)[i] = h[i]
        /\ \A i \in 1..Len(s) : (h \o s)[Len(h) + i] = s[i]
    BY <1>3, <1>6, ScalarsConcat
  <2>. QED  BY <1>3, <2>1
<1>8. Bytes(e) = h \o s
  BY DEF Bytes, Serialize, h, s, g, f, c
<1>. DEFINE b == h \o s
<1>. HIDE DEF b
<1>9. /\ b \in Seq(Scalar) /\ Len(b) = 2 + Len(s) /\ \A i \in 1..2 : b[i] = h[i]
      /\ \A i \in 1..Len(s) : b[2 + i] = s[i]
  BY <1>7 DEF b
<1>. DEFINE kl == Len(c.key)
            vl == Len(c.value)
<1>10. /\ kl \in Nat /\ vl \in Nat /\ Len(g) = 3 + kl /\ Len(s) = Len(g) + vl
       /\ Len(b) = 2 + Len(s)
  BY <1>1, <1>5, <1>6, <1>9
<1>. HIDE DEF kl, vl
<1>11. Len(b) = 5 + kl + vl
  BY <1>10
<1>12. ASSUME NEW i \in 1..3 PROVE b[2 + i] = f[i]
  <2>1. i \in 1..Len(g) /\ i \in 1..Len(s)
    BY <1>10
  <2>. QED  BY <1>5, <1>6, <1>9, <2>1
<1>13. ASSUME NEW i \in 1..Len(c.key) PROVE b[5 + i] = c.key[i]
  <2>0. i \in 1..kl
    BY DEF kl
  <2>1. 3 + i \in 1..Len(g) /\ 3 + i \in 1..Len(s) /\ 2 + (3 + i) = 5 + i
    BY <1>10, <2>0
  <2>2. b[2 + (3 + i)] = s[3 + i] /\ s[3 + i] = g[3 + i] /\ g[3 + i] = c.key[i]
    BY <1>5, <1>6, <1>9, <2>1
  <2>. QED  BY <2>1, <2>2
<1>14. ASSUME NEW i \in 1..Len(c.value) PROVE b[5 + kl + i] = c.value[i]
  <2>0. i \in 1..vl
    BY DEF vl
  <2>1. Len(g) + i \in 1..Len(s) /\ 2 + (Len(g) + i) = 5 + kl + i
    BY <1>10, <2>0
  <2>2. b[2 + (Len(g) + i)] = s[Len(g) + i] /\ s[Len(g) + i] = c.value[i]
    BY <1>6, <1>9, <2>1
  <2>. QED  BY <2>1, <2>2
<1>15. b[3] = f[1] /\ b[4] = f[2] /\ b[5] = f[3]
  <2>1. 2 + 1 = 3 /\ 2 + 2 = 4 /\ 2 + 3 = 5 /\ 1 \in 1..3 /\ 2 \in 1..3 /\ 3 \in 1..3
    OBVIOUS
  <2>. QED  BY <1>12, <2>1
<1>16. b[1] = h[1] /\ b[2] = h[2]
  BY <1>9
<1>17. Bytes(e) = b
  BY <1>8 DEF b
<1>. QED  BY <1>1, <1>3, <1>4, <1>9, <1>11, <1>13, <1>14, <1>15, <1>16, <1>17 DEF c, kl, vl

\* What Deserialize gets is the command.
LEMMA CommandRead ==
  ASSUME NEW e \in EntryType
  PROVE  Deserialize(SubSeq(Bytes(e), 3, Len(Bytes(e)))) = e.cmd
<1>. DEFINE b == Bytes(e)
            c == e.cmd
            kl == Len(c.key)
            vl == Len(c.value)
            d == SubSeq(b, 3, Len(b))
<1>1. /\ c \in CommandType /\ c.key \in Seq(Scalar) /\ c.value \in Seq(Scalar)
      /\ kl \in Nat /\ vl \in Nat
  BY DEF EntryType, CommandType
<1>2. /\ b \in Seq(Scalar) /\ Len(b) = 5 + kl + vl
      /\ b[3].val = c.operation /\ b[4].val = kl /\ b[5].val = vl
      /\ \A i \in 1..kl : b[5 + i] = c.key[i]
      /\ \A i \in 1..vl : b[5 + kl + i] = c.value[i]
  BY BytesFacts
<1>. HIDE DEF b, c, kl, vl
<1>3. d \in Seq(Scalar) /\ Len(d) = 3 + kl + vl /\ \A i \in 1 .. 3 + kl + vl : d[i] = b[2 + i]
  <2>1. 2 + 1 = 3 /\ 2 <= Len(b) /\ Len(b) \in Nat /\ Len(b) - 2 = 3 + kl + vl
    BY <1>1, <1>2
  <2>. QED  BY <1>2, <2>1, PartFacts
<1>. HIDE DEF d
<1>4. d[1].val = c.operation /\ d[2].val = kl /\ d[3].val = vl
  <2>1. /\ 1 \in 1 .. 3 + kl + vl /\ 2 \in 1 .. 3 + kl + vl /\ 3 \in 1 .. 3 + kl + vl
        /\ 2 + 1 = 3 /\ 2 + 2 = 4 /\ 2 + 3 = 5
    BY <1>1
  <2>. QED  BY <1>2, <1>3, <2>1
<1>5. SubSeq(d, 4, 3 + kl) = c.key
  <2>1. Within(c.key, d, 3)
    <3>1. ASSUME NEW i \in 1..Len(c.key) PROVE d[3 + i] = c.key[i]
      <4>1. i \in 1..kl /\ 3 + i \in 1 .. 3 + kl + vl /\ 2 + (3 + i) = 5 + i
        BY <1>1 DEF kl
      <4>. QED  BY <1>2, <1>3, <4>1
    <3>2. 3 + Len(c.key) <= Len(d)
      BY <1>1, <1>3 DEF kl
    <3>. QED  BY <3>1, <3>2 DEF Within
  <2>2. SubSeq(d, 3 + 1, 3 + Len(c.key)) = c.key
    BY <1>1, <1>3, <2>1, WithinIsPart
  <2>. QED  BY <2>2 DEF kl
<1>6. SubSeq(d, 4 + kl, 3 + kl + vl) = c.value
  <2>1. Within(c.value, d, 3 + kl)
    <3>1. ASSUME NEW i \in 1..Len(c.value) PROVE d[3 + kl + i] = c.value[i]
      <4>1. i \in 1..vl /\ 3 + kl + i \in 1 .. 3 + kl + vl /\ 2 + (3 + kl + i) = 5 + kl + i
        BY <1>1 DEF vl
      <4>. QED  BY <1>2, <1>3, <4>1
    <3>2. 3 + kl + Len(c.value) <= Len(d)
      BY <1>1, <1>3 DEF vl
    <3>. QED  BY <3>1, <3>2 DEF Within
  <2>2. SubSeq(d, (3 + kl) + 1, (3 + kl) + Len(c.value)) = c.value
    <3>1. 3 + kl \in Nat
      BY <1>1
    <3>. QED  BY <1>1, <1>3, <2>1, <3>1, WithinIsPart
  <2>3. (3 + kl) + 1 = 4 + kl /\ Len(c.value) = vl
    BY <1>1 DEF vl
  <2>. QED  BY <2>2, <2>3
<1>7. Deserialize(d) = [operation |-> c.operation, key_len |-> kl, value_len |-> vl,
                        key |-> c.key, value |-> c.value]
  BY <1>4, <1>5, <1>6 DEF Deserialize
<1>8. c = [operation |-> c.operation, key_len |-> kl, value_len |-> vl,
           key |-> c.key, value |-> c.value]
  BY <1>1 DEF CommandType, kl, vl
<1>. QED  BY <1>7, <1>8 DEF d, b, c

LEMMA RecordFacts ==
  ASSUME NEW e \in EntryType
  PROVE  /\ SerializeLogEntry(e) \in Seq(CellType) /\ Len(SerializeLogEntry(e)) = Width(e)
         /\ Width(e) \in Nat /\ Width(e) >= 6 /\ Len(Bytes(e)) = Width(e) - 1
         /\ \A i \in 1 .. Width(e) - 1 : SerializeLogEntry(e)[i] = Bytes(e)[i]
         /\ SerializeLogEntry(e)[Width(e)] = Cell("crc", Bytes(e))
<1>1. Len(e.cmd.key) \in Nat /\ Len(e.cmd.value) \in Nat
  BY DEF EntryType, CommandType
<1>2. Bytes(e) \in Seq(Scalar) /\ Len(Bytes(e)) = 5 + Len(e.cmd.key) + Len(e.cmd.value)
  BY BytesFacts
<1>3. SerializeLogEntry(e) = Append(Bytes(e), Cell("crc", Bytes(e)))
  BY DEF SerializeLogEntry, Bytes
<1>4. Bytes(e) \in Seq(CellType) /\ Cell("crc", Bytes(e)) \in CellType
  BY <1>2 DEF Cell, CellType
<1>5. Width(e) \in Nat /\ Width(e) >= 6 /\ Len(Bytes(e)) = Width(e) - 1 /\ Len(Bytes(e)) + 1 = Width(e)
  <2>. DEFINE kl == Len(e.cmd.key)
              vl == Len(e.cmd.value)
  <2>1. /\ kl \in Nat /\ vl \in Nat /\ Width(e) = 6 + kl + vl
        /\ Len(Bytes(e)) = 5 + kl + vl
    BY <1>1, <1>2 DEF Width
  <2>. HIDE DEF kl, vl
  <2>. QED  BY <2>1
<1>. QED  BY <1>3, <1>4, <1>5, AppendFacts

State(es, pos) == [logs |-> es, valid_bytes |-> pos]

\* A record that is there is read.
LEMMA WholeIsRead ==
  ASSUME NEW data \in Seq(CellType), NEW pos \in Nat, NEW e \in EntryType, NEW es,
         Within(SerializeLogEntry(e), data, pos)
  PROVE  ReadRecord(data, State(es, pos)) = State(Append(es, e), pos + Width(e))
<1>. DEFINE s == SerializeLogEntry(e)
            b == Bytes(e)
            w == Width(e)
            kl == Len(e.cmd.key)
            vl == Len(e.cmd.value)
<1>1. /\ s \in Seq(CellType) /\ Len(s) = w /\ w \in Nat /\ w >= 6 /\ Len(b) = w - 1
      /\ \A i \in 1 .. w - 1 : s[i] = b[i]
      /\ s[w] = Cell("crc", b)
  BY RecordFacts
<1>2. /\ b \in Seq(Scalar) /\ b[1].val = e.term /\ b[2].val = e.index
      /\ b[4].val = kl /\ b[5].val = vl
  BY BytesFacts
<1>3. kl \in Nat /\ vl \in Nat /\ w = 6 + kl + vl
  BY DEF EntryType, CommandType, Width
<1>. HIDE DEF s, b, w, kl, vl
<1>4. Within(s, data, pos)
  BY DEF s
<1>5. pos + w <= Len(data) /\ \A i \in 1..w : data[pos + i] = s[i]
  BY <1>1, <1>4 DEF Within
<1>6. data[pos + 4].val = kl /\ data[pos + 5].val = vl /\ data[pos + w] = Cell("crc", b)
  <2>1. 4 \in 1..w /\ 5 \in 1..w /\ w \in 1..w /\ 4 \in 1 .. w - 1 /\ 5 \in 1 .. w - 1
    BY <1>1
  <2>. QED  BY <1>1, <1>2, <1>5, <2>1
<1>7. Covered(data, pos) = b
  <2>1. Within(b, data, pos)
    <3>1. \A i \in 1..Len(b) : i \in 1..w /\ i \in 1 .. w - 1
      BY <1>1
    <3>2. pos + Len(b) <= Len(data)
      <4>1. Len(data) \in Nat /\ Len(b) \in Nat
        BY <1>2
      <4>. QED  BY <1>1, <1>5, <4>1
    <3>. QED  BY <1>1, <1>5, <3>1, <3>2 DEF Within
  <2>2. b \in Seq(CellType)
    BY <1>2 DEF CellType
  <2>3. SubSeq(data, pos + 1, pos + Len(b)) = b
    BY <2>1, <2>2, WithinIsPart
  <2>4. pos + 5 + kl + vl = pos + Len(b)
    BY <1>1, <1>3
  <2>. QED  BY <1>6, <2>3, <2>4 DEF Covered
<1>8. WholeAt(data, pos)
  <2>1. pos + MinCells + kl + vl = pos + w
    BY <1>1, <1>3 DEF MinCells
  <2>2. Len(data) >= pos + w
    BY <1>1, <1>5
  <2>3. data[pos + w].kind = "crc" /\ data[pos + w].val = b
    BY <1>6 DEF Cell
  <2>. QED  BY <1>6, <1>7, <2>1, <2>2, <2>3 DEF WholeAt
<1>9. ~(Len(data) < pos + MinCells)
  <2>1. Len(data) \in Nat
    OBVIOUS
  <2>. QED  BY <1>1, <1>5, <2>1 DEF MinCells
<1>10. [term |-> b[1].val, index |-> b[2].val, cmd |-> Deserialize(SubSeq(b, 3, Len(b)))] = e
  <2>1. Deserialize(SubSeq(b, 3, Len(b))) = e.cmd
    BY CommandRead DEF b
  <2>. QED  BY <1>2, <2>1 DEF EntryType
<1>11. pos + Len(b) + 1 = pos + w
  BY <1>1
<1>12. ReadRecord(data, State(es, pos)) = State(Append(es, e), pos + w)
  BY <1>7, <1>8, <1>9, <1>10, <1>11 DEF ReadRecord, State
<1>. QED  BY <1>12 DEF w

\* The loop stops where no record follows,
Ends(data, pos) == Len(data) < pos + MinCells \/ ~WholeAt(data, pos)

LEMMA EndIsKept ==
  ASSUME NEW data, NEW pos, NEW es, Ends(data, pos)
  PROVE  ReadRecord(data, State(es, pos)) = State(es, pos)
  BY DEF ReadRecord, State, Ends, Stopped

\* and at a record that is cut off.
LEMMA TornEnds ==
  ASSUME NEW data \in Seq(CellType), NEW pos \in Nat, NEW e \in EntryType,
         Len(data) < pos + Width(e),
         \A i \in 1..Width(e) : pos + i <= Len(data) => data[pos + i] = SerializeLogEntry(e)[i]
  PROVE  Ends(data, pos)
<1>. DEFINE s == SerializeLogEntry(e)
            w == Width(e)
            kl == Len(e.cmd.key)
            vl == Len(e.cmd.value)
<1>1. w \in Nat /\ w >= 6 /\ \A i \in 1 .. w - 1 : s[i] = Bytes(e)[i]
  BY RecordFacts
<1>2. Bytes(e)[4].val = kl /\ Bytes(e)[5].val = vl
  BY BytesFacts
<1>3. kl \in Nat /\ vl \in Nat /\ w = 6 + kl + vl
  BY DEF EntryType, CommandType, Width
<1>4. Len(data) \in Nat /\ Len(data) < pos + w
  OBVIOUS
<1>5. \A i \in 1..w : pos + i <= Len(data) => data[pos + i] = s[i]
  OBVIOUS
<1>. HIDE DEF s, w, kl, vl
<1>6. CASE Len(data) >= pos + 6
  <2>1. /\ 4 \in 1..w /\ 5 \in 1..w /\ 4 \in 1 .. w - 1 /\ 5 \in 1 .. w - 1
        /\ pos + 4 <= Len(data) /\ pos + 5 <= Len(data)
    BY <1>1, <1>4, <1>6
  <2>2. data[pos + 4].val = kl /\ data[pos + 5].val = vl
    BY <1>1, <1>2, <1>5, <2>1
  <2>3. pos + MinCells + kl + vl = pos + w
    BY <1>3 DEF MinCells
  <2>4. ~(Len(data) >= pos + w)
    BY <1>1, <1>4
  <2>. QED  BY <2>2, <2>3, <2>4 DEF WholeAt, Ends
<1>7. CASE ~(Len(data) >= pos + 6)
  BY <1>4, <1>7 DEF Ends, MinCells
<1>. QED  BY <1>6, <1>7

-----------------------------------------------------------------------------
(* What is written piece by piece *)

\* C[n] is the first n of N pieces, one after the other.
Chain(C, h, N) ==
  /\ C[0] = <<>>
  /\ \A n \in 1..N : h[n] \in Seq(CellType) /\ C[n] = C[n - 1] \o h[n]

\* The equation by which Records and Frames are defined holds of some function.
LEMMA ChainExists ==
  ASSUME NEW N \in Nat, NEW h
  PROVE  \E f : f = [n \in 0..N |-> IF n = 0 THEN <<>> ELSE f[n - 1] \o h[n]]
<1>. DEFINE P(f, m) == f = [n \in 0..m |-> IF n = 0 THEN <<>> ELSE f[n - 1] \o h[n]]
            S == {m \in 0..N : \E f : P(f, m)}
<1>1. N \in Nat
  OBVIOUS
<1>2. 0 \in S
  <2>1. P([n \in 0..0 |-> <<>>], 0)
    OBVIOUS
  <2>. HIDE DEF P
  <2>. QED  BY <1>1, <2>1
<1>3. ASSUME NEW m \in 0..N, m < N, m \in S PROVE m + 1 \in S
  <2>1. PICK f : P(f, m)
    BY <1>3
  <2>. DEFINE g == [n \in 0 .. m + 1 |->
                      IF n \in 0..m THEN f[n] ELSE f[m] \o h[m + 1]]
  <2>2. m \in Nat /\ m + 1 \in 0..N
    BY <1>1, <1>3
  <2>3. ASSUME NEW n \in 0 .. m + 1
        PROVE  g[n] = IF n = 0 THEN <<>> ELSE g[n - 1] \o h[n]
    <3>1. CASE n = 0
      BY <2>1, <2>2, <3>1
    <3>2. CASE n \in 1..m
      <4>1. n - 1 \in 0..m /\ n - 1 \in 0 .. m + 1 /\ n \in 0..m /\ n # 0
        BY <2>2, <3>2
      <4>2. g[n] = f[n] /\ g[n - 1] = f[n - 1]
        BY <4>1
      <4>3. f[n] = f[n - 1] \o h[n]
        BY <2>1, <4>1
      <4>. HIDE DEF g, P
      <4>. QED  BY <4>1, <4>2, <4>3
    <3>3. CASE n = m + 1
      <4>1. n \notin 0..m /\ n - 1 = m /\ n # 0 /\ m \in 0..m /\ m \in 0 .. m + 1
        BY <2>2, <3>3
      <4>2. g[n] = f[m] \o h[m + 1] /\ g[m] = f[m]
        BY <4>1
      <4>. HIDE DEF g, P
      <4>. QED  BY <3>3, <4>1, <4>2
    <3>4. n = 0 \/ n \in 1..m \/ n = m + 1
      BY <2>2
    <3>. QED  BY <3>1, <3>2, <3>3, <3>4
  <2>4. P(g, m + 1)
    <3>1. g = [n \in 0 .. m + 1 |-> g[n]]
      OBVIOUS
    <3>. HIDE DEF g
    <3>. QED  BY <2>3, <3>1, Zenon
  <2>. HIDE DEF P, g
  <2>. QED  BY <2>2, <2>4
<1>4. N \in S
  <2>. HIDE DEF S
  <2>1. \A n \in 0..N : n \in S
    BY <1>1, <1>2, <1>3, UpTo
  <2>. QED  BY <1>1, <2>1
<1>. QED  BY <1>4

LEMMA StartsTrans ==
  ASSUME NEW T, NEW a \in Seq(T), NEW b \in Seq(T), NEW c \in Seq(T), Starts(a, b), Starts(b, c)
  PROVE  Starts(a, c)
<1>1. Len(a) \in Nat /\ Len(b) \in Nat /\ Len(c) \in Nat /\ Len(a) <= Len(b) /\ Len(b) <= Len(c)
  BY DEF Starts
<1>2. \A i \in 1..Len(a) : i \in 1..Len(b)
  BY <1>1
<1>3. Len(a) <= Len(c)
  BY <1>1
<1>. QED  BY <1>2, <1>3 DEF Starts

LEMMA WithinStarts ==
  ASSUME NEW T, NEW a \in Seq(T), NEW b \in Seq(T), NEW c \in Seq(T), NEW pos \in Nat,
         Within(a, b, pos), Starts(b, c)
  PROVE  Within(a, c, pos)
<1>1. Len(a) \in Nat /\ Len(b) \in Nat /\ Len(c) \in Nat /\ pos + Len(a) <= Len(b)
      /\ Len(b) <= Len(c)
  BY DEF Starts, Within
<1>2. \A i \in 1..Len(a) : pos + i \in 1..Len(b)
  BY <1>1
<1>3. pos + Len(a) <= Len(c)
  BY <1>1
<1>. QED  BY <1>2, <1>3 DEF Starts, Within

LEMMA ChainGrows ==
  ASSUME NEW N \in Nat, NEW C, NEW h, Chain(C, h, N)
  PROVE  /\ \A n \in 0..N : C[n] \in Seq(CellType)
         /\ \A n \in 1..N : /\ Len(C[n]) = Len(C[n - 1]) + Len(h[n])
                            /\ Starts(C[n - 1], C[n])
                            /\ Within(h[n], C[n], Len(C[n - 1]))
<1>1. /\ C[0] = <<>>
      /\ \A n \in 1..N : h[n] \in Seq(CellType) /\ C[n] = C[n - 1] \o h[n]
  BY DEF Chain
<1>2. ASSUME NEW n \in 1..N, C[n - 1] \in Seq(CellType)
      PROVE  /\ C[n] \in Seq(CellType) /\ Len(C[n]) = Len(C[n - 1]) + Len(h[n])
             /\ Starts(C[n - 1], C[n])
             /\ Within(h[n], C[n], Len(C[n - 1]))
  <2>. DEFINE s == h[n]
              a == C[n - 1]
  <2>1. C[n] = a \o s /\ a \in Seq(CellType) /\ s \in Seq(CellType)
    BY <1>1, <1>2
  <2>. HIDE DEF s, a
  <2>2. /\ a \o s \in Seq(CellType) /\ Len(a \o s) = Len(a) + Len(s)
        /\ \A i \in 1..Len(a) : (a \o s)[i] = a[i]
        /\ \A i \in 1..Len(s) : (a \o s)[Len(a) + i] = s[i]
    BY <2>1, CellsConcat
  <2>3. Len(a) \in Nat /\ Len(s) \in Nat
    BY <2>1
  <2>4. Starts(a, C[n]) /\ Within(s, C[n], Len(a))
    BY <2>1, <2>2, <2>3 DEF Starts, Within
  <2>. QED  BY <2>1, <2>2, <2>4 DEF s, a
<1>3. \A n \in 0..N : C[n] \in Seq(CellType)
  <2>. DEFINE S == {n \in 0..N : C[n] \in Seq(CellType)}
  <2>1. 0 \in S
    <3>1. 0 \in 0..N /\ <<>> \in Seq(CellType)
      OBVIOUS
    <3>2. C[0] \in Seq(CellType)
      BY <1>1, <3>1, Zenon
    <3>. QED  BY <3>1, <3>2
  <2>2. ASSUME NEW n \in 0..N, n < N, n \in S PROVE n + 1 \in S
    <3>1. n + 1 \in 1..N /\ n + 1 \in 0..N /\ (n + 1) - 1 = n
      BY <2>2
    <3>. QED  BY <1>2, <2>2, <3>1
  <2>. HIDE DEF S
  <2>3. \A n \in 0..N : n \in S
    BY <2>1, <2>2, UpTo
  <2>. QED  BY <2>3 DEF S
<1>4. \A n \in 1..N : n - 1 \in 0..N
  OBVIOUS
<1>. QED  BY <1>2, <1>3, <1>4

LEMMA ChainStarts ==
  ASSUME NEW N \in Nat, NEW C, NEW h, Chain(C, h, N), NEW m \in 0..N, NEW n \in 0..N, m <= n
  PROVE  Starts(C[m], C[n])
<1>. DEFINE S == {k \in 0..N : m <= k => Starts(C[m], C[k])}
<1>1. (\A k \in 0..N : C[k] \in Seq(CellType)) /\ \A k \in 1..N : Starts(C[k - 1], C[k])
  BY ChainGrows
<1>2. \A k \in 0..N : Starts(C[k], C[k])
  BY <1>1 DEF Starts
<1>3. 0 \in S
  BY <1>1, <1>2
<1>4. ASSUME NEW k \in 0..N, k < N, k \in S PROVE k + 1 \in S
  <2>1. k + 1 \in 1..N /\ k + 1 \in 0..N /\ (k + 1) - 1 = k
    BY <1>4
  <2>2. ASSUME m <= k + 1 PROVE Starts(C[m], C[k + 1])
    <3>1. CASE m = k + 1
      BY <1>2, <2>1, <3>1
    <3>2. CASE m <= k
      <4>1. Starts(C[m], C[k]) /\ Starts(C[k], C[k + 1])
        BY <1>1, <1>4, <2>1, <3>2
      <4>2. C[m] \in Seq(CellType) /\ C[k] \in Seq(CellType) /\ C[k + 1] \in Seq(CellType)
        BY <1>1, <2>1
      <4>. QED  BY <4>1, <4>2, StartsTrans
    <3>3. m = k + 1 \/ m <= k
      BY <2>2
    <3>. QED  BY <3>1, <3>2, <3>3
  <2>. QED  BY <2>1, <2>2
<1>5. n \in S
  <2>. HIDE DEF S
  <2>1. \A k \in 0..N : k \in S
    BY <1>3, <1>4, UpTo
  <2>. QED  BY <2>1
<1>. QED  BY <1>5

-----------------------------------------------------------------------------
(* Files *)

LEMMA RecordsChain ==
  ASSUME NEW es \in Seq(EntryType)
  PROVE  Chain(Records(es), [n \in 1..Len(es) |-> SerializeLogEntry(es[n])], Len(es))
<1>. DEFINE N == Len(es)
            h == [n \in 1..N |-> SerializeLogEntry(es[n])]
            P(f) == f = [n \in 0..N |-> IF n = 0 THEN <<>> ELSE f[n - 1] \o SerializeLogEntry(es[n])]
            R == Records(es)
<1>1. N \in Nat
  OBVIOUS
<1>2. \E f : P(f)
  <2>. HIDE DEF h
  <2>1. PICK f : f = [n \in 0..N |-> IF n = 0 THEN <<>> ELSE f[n - 1] \o h[n]]
    BY <1>1, ChainExists
  <2>2. \A n \in 0..N : f[n] = IF n = 0 THEN <<>> ELSE f[n - 1] \o SerializeLogEntry(es[n])
    <3>1. ASSUME NEW n \in 0..N PROVE f[n] = IF n = 0 THEN <<>> ELSE f[n - 1] \o SerializeLogEntry(es[n])
      <4>1. n = 0 \/ n \in 1..N
        BY <1>1
      <4>2. n \in 1..N => h[n] = SerializeLogEntry(es[n])
        BY DEF h
      <4>3. f[n] = IF n = 0 THEN <<>> ELSE f[n - 1] \o h[n]
        BY <2>1
      <4>. QED  BY <4>1, <4>2, <4>3
    <3>. QED  BY <3>1
  <2>3. f = [n \in 0..N |-> f[n]]
    BY <2>1
  <2>4. P(f)
    BY <2>2, <2>3, Zenon
  <2>. HIDE DEF P
  <2>. QED  BY <2>4
<1>3. R = CHOOSE f : P(f)
  BY Zenon DEF Records
<1>. HIDE DEF P, R
<1>4. P(R)
  BY <1>2, <1>3, Zenon
<1>5. \A n \in 0..N : R[n] = IF n = 0 THEN <<>> ELSE R[n - 1] \o SerializeLogEntry(es[n])
  BY <1>4 DEF P
<1>6. 0 \in 0..N /\ \A n \in 1..N : n \in 0..N /\ n # 0
  BY <1>1
<1>7. \A n \in 1..N : h[n] = SerializeLogEntry(es[n]) /\ SerializeLogEntry(es[n]) \in Seq(CellType)
  BY RecordFacts
<1>. HIDE DEF h
<1>8. Chain(R, h, N)
  BY <1>5, <1>6, <1>7 DEF Chain
<1>. QED  BY <1>8 DEF R, h

LEMMA RecordsAre ==
  ASSUME NEW es \in Seq(EntryType)
  PROVE  /\ Records(es)[0] = <<>>
         /\ \A n \in 1..Len(es) : Records(es)[n] = Records(es)[n - 1] \o SerializeLogEntry(es[n])
<1>1. Chain(Records(es), [n \in 1..Len(es) |-> SerializeLogEntry(es[n])], Len(es))
  BY RecordsChain
<1>. QED  BY <1>1 DEF Chain

LEMMA RecordsGrow ==
  ASSUME NEW es \in Seq(EntryType)
  PROVE  /\ \A n \in 0..Len(es) : Records(es)[n] \in Seq(CellType) /\ n <= Len(Records(es)[n])
         /\ \A n \in 1..Len(es) :
              /\ Len(Records(es)[n]) = Len(Records(es)[n - 1]) + Width(es[n])
              /\ Starts(Records(es)[n - 1], Records(es)[n])
              /\ Within(SerializeLogEntry(es[n]), Records(es)[n], Len(Records(es)[n - 1]))
<1>. DEFINE R == Records(es)
            N == Len(es)
            h == [n \in 1..N |-> SerializeLogEntry(es[n])]
<1>1. N \in Nat
  OBVIOUS
<1>2. Chain(R, h, N)
  BY RecordsChain
<1>3. R[0] = <<>>
  BY RecordsAre
<1>4. \A n \in 1..N : /\ h[n] = SerializeLogEntry(es[n]) /\ Len(h[n]) = Width(es[n])
                      /\ Width(es[n]) \in Nat /\ Width(es[n]) >= 6
  BY RecordFacts
<1>. HIDE DEF R, h
<1>5. /\ \A n \in 0..N : R[n] \in Seq(CellType)
      /\ \A n \in 1..N : /\ Len(R[n]) = Len(R[n - 1]) + Len(h[n])
                         /\ Starts(R[n - 1], R[n])
                         /\ Within(h[n], R[n], Len(R[n - 1]))
  BY <1>1, <1>2, ChainGrows
<1>. HIDE DEF N
<1>6. \A n \in 0..N : n <= Len(R[n])
  <2>. DEFINE S == {n \in 0..N : n <= Len(R[n])}
  <2>1. 0 \in S
    <3>1. 0 <= Len(<<>>) /\ 0 \in 0..N
      BY <1>1
    <3>. QED  BY <1>3, <3>1
  <2>2. ASSUME NEW n \in 0..N, n < N, n \in S PROVE n + 1 \in S
    <3>1. n + 1 \in 1..N /\ n + 1 \in 0..N /\ (n + 1) - 1 = n
      BY <1>1, <2>2
    <3>2. Len(R[n + 1]) = Len(R[n]) + Width(es[n + 1]) /\ Width(es[n + 1]) \in Nat /\ Width(es[n + 1]) >= 6
      BY <1>4, <1>5, <3>1
    <3>3. n <= Len(R[n]) /\ Len(R[n]) \in Nat
      BY <1>5, <2>2
    <3>4. n + 1 <= Len(R[n + 1])
      BY <3>1, <3>2, <3>3
    <3>. QED  BY <3>1, <3>4
  <2>. HIDE DEF S
  <2>3. \A n \in 0..N : n \in S
    BY <1>1, <2>1, <2>2, UpTo
  <2>. QED  BY <2>3 DEF S
<1>. QED  BY <1>4, <1>5, <1>6 DEF R, N

\* A longer file begins with a shorter one.
LEMMA RecordsStart ==
  ASSUME NEW es \in Seq(EntryType), NEW m \in 0..Len(es), NEW n \in 0..Len(es), m <= n
  PROVE  Starts(Records(es)[m], Records(es)[n])
<1>. DEFINE h == [k \in 1..Len(es) |-> SerializeLogEntry(es[k])]
<1>1. Chain(Records(es), h, Len(es)) /\ Len(es) \in Nat
  BY RecordsChain
<1>. HIDE DEF h
<1>. QED  BY <1>1, ChainStarts

\* Equal entries, equal records.
LEMMA RecordsAgree ==
  ASSUME NEW es \in Seq(EntryType), NEW fs \in Seq(EntryType), NEW n \in Nat,
         n <= Len(es), n <= Len(fs), \A i \in 1..n : es[i] = fs[i]
  PROVE  Records(es)[n] = Records(fs)[n]
<1>. DEFINE R == Records(es)
            Q == Records(fs)
            S == {k \in 0..n : R[k] = Q[k]}
<1>1. /\ R[0] = <<>> /\ Q[0] = <<>>
      /\ \A k \in 1..Len(es) : R[k] = R[k - 1] \o SerializeLogEntry(es[k])
      /\ \A k \in 1..Len(fs) : Q[k] = Q[k - 1] \o SerializeLogEntry(fs[k])
  BY RecordsAre
<1>. HIDE DEF R, Q
<1>2. 0 \in S
  BY <1>1
<1>3. ASSUME NEW k \in 0..n, k < n, k \in S PROVE k + 1 \in S
  <2>1. /\ k + 1 \in 1..Len(es) /\ k + 1 \in 1..Len(fs) /\ k + 1 \in 1..n /\ k + 1 \in 0..n
        /\ (k + 1) - 1 = k
    <3>1. Len(es) \in Nat /\ Len(fs) \in Nat
      OBVIOUS
    <3>. QED  BY <1>3, <3>1
  <2>2. /\ R[k + 1] = R[k] \o SerializeLogEntry(es[k + 1])
        /\ Q[k + 1] = Q[k] \o SerializeLogEntry(fs[k + 1])
    BY <1>1, <2>1
  <2>. QED  BY <1>3, <2>1, <2>2
<1>4. \A k \in 0..n : k \in S
  <2>. HIDE DEF S
  <2>. QED  BY <1>2, <1>3, UpTo
<1>. QED  BY <1>4 DEF R, Q

\* writelog makes of the file what rewriteLog would make.
LEMMA SerializeOneMore ==
  ASSUME NEW es \in Seq(EntryType), NEW e \in EntryType
  PROVE  SerializeAll(Append(es, e)) = SerializeAll(es) \o SerializeLogEntry(e)
<1>. DEFINE fs == Append(es, e)
            N == Len(es)
<1>1. fs \in Seq(EntryType) /\ Len(fs) = N + 1 /\ fs[N + 1] = e /\ \A i \in 1..N : fs[i] = es[i]
  BY AppendFacts
<1>2. N \in Nat /\ N <= N + 1 /\ N + 1 \in 1 .. N + 1 /\ (N + 1) - 1 = N
  OBVIOUS
<1>. HIDE DEF fs
<1>3. Records(fs)[N + 1] = Records(fs)[N] \o SerializeLogEntry(e)
  BY <1>1, <1>2, RecordsAre
<1>4. Records(fs)[N] = Records(es)[N]
  BY <1>1, <1>2, RecordsAgree
<1>. QED  BY <1>1, <1>3, <1>4 DEF SerializeAll, fs

\* What is read of a file that begins with the records of es and goes on with
\* something that is none.
LEMMA ReadsBack ==
  ASSUME NEW es \in Seq(EntryType), NEW data \in Seq(CellType),
         Starts(SerializeAll(es), data), Ends(data, Len(SerializeAll(es)))
  PROVE  DeserializeLogEntry(data) = State(es, Len(SerializeAll(es)))
<1>. DEFINE N == Len(es)
            M == Len(data)
            R == Records(es)
            at(n) == IF n <= N THEN State(SubSeq(es, 1, n), Len(R[n])) ELSE State(es, Len(R[N]))
            g == [n \in 0..M |-> at(n)]
            P(f) == f = [n \in 0..M |-> IF n = 0 THEN State(<<>>, 0) ELSE ReadRecord(data, f[n - 1])]
            F == Rounds(data)
<1>1. /\ N \in Nat /\ M \in Nat /\ R[0] = <<>>
      /\ (\A n \in 0..N : R[n] \in Seq(CellType) /\ n <= Len(R[n]))
      /\ \A n \in 1..N : /\ Len(R[n]) = Len(R[n - 1]) + Width(es[n])
                         /\ Within(SerializeLogEntry(es[n]), R[n], Len(R[n - 1]))
  <2>1. R[0] = <<>> /\ \A n \in 1..N : R[n] = R[n - 1] \o SerializeLogEntry(es[n])
    BY RecordsAre, Zenon
  <2>2. /\ \A n \in 0..N : R[n] \in Seq(CellType) /\ n <= Len(R[n])
        /\ \A n \in 1..N : /\ Len(R[n]) = Len(R[n - 1]) + Width(es[n])
                           /\ Starts(R[n - 1], R[n])
                           /\ Within(SerializeLogEntry(es[n]), R[n], Len(R[n - 1]))
    BY RecordsGrow, Zenon
  <2>3. N \in Nat /\ M \in Nat
    OBVIOUS
  <2>. HIDE DEF R, N
  <2>. QED  BY <2>1, <2>2, <2>3
<1>2. SerializeAll(es) = R[N]
  BY DEF SerializeAll
<1>3. ASSUME NEW n \in 1..N PROVE Within(SerializeLogEntry(es[n]), data, Len(R[n - 1]))
  <2>1. n \in 0..N /\ N \in 0..N /\ n <= N /\ n - 1 \in 0..N
    BY <1>1
  <2>2. Starts(R[n], R[N])
    BY <2>1, RecordsStart
  <2>. HIDE DEF R
  <2>3. R[n] \in Seq(CellType) /\ R[N] \in Seq(CellType) /\ Len(R[n - 1]) \in Nat
    BY <1>1, <2>1
  <2>4. Starts(R[n], data)
    BY <1>2, <2>2, <2>3, StartsTrans
  <2>5. SerializeLogEntry(es[n]) \in Seq(CellType)
    BY RecordFacts
  <2>. QED  BY <1>1, <2>3, <2>4, <2>5, WithinStarts
<1>. HIDE DEF R, F
<1>4. N <= M
  <2>1. N \in 0..N /\ Len(R[N]) <= M
    BY <1>1, <1>2 DEF Starts
  <2>2. N <= Len(R[N]) /\ Len(R[N]) \in Nat
    BY <1>1, <2>1
  <2>. QED  BY <1>1, <2>1, <2>2
<1>5. g[0] = State(<<>>, 0)
  <2>1. SubSeq(es, 1, 0) = <<>> /\ Len(R[0]) = 0 /\ 0 \in 0..M /\ 0 <= N
    BY <1>1
  <2>. QED  BY <2>1
<1>6. ASSUME NEW n \in 1..M PROVE g[n] = ReadRecord(data, g[n - 1])
  <2>1. n \in 0..M /\ n - 1 \in 0..M /\ n - 1 \in Nat /\ (n - 1) + 1 = n
    BY <1>1
  <2>2. g[n] = at(n) /\ g[n - 1] = at(n - 1)
    BY <2>1
  <2>3. CASE n <= N
    <3>1. n \in 1..N /\ n - 1 \in 0..N /\ n - 1 < N /\ n - 1 <= N /\ es[n] \in EntryType
      BY <1>1, <2>1, <2>3
    <3>2. Len(R[n - 1]) \in Nat
      BY <1>1, <3>1
    <3>3. ReadRecord(data, State(SubSeq(es, 1, n - 1), Len(R[n - 1])))
            = State(Append(SubSeq(es, 1, n - 1), es[n]), Len(R[n - 1]) + Width(es[n]))
      BY <1>3, <3>1, <3>2, WholeIsRead
    <3>4. SubSeq(es, 0 + 1, (n - 1) + 1) = Append(SubSeq(es, 0 + 1, n - 1), es[(n - 1) + 1])
      BY <2>1, <3>1, PartGrows
    <3>5. at(n - 1) = State(SubSeq(es, 1, n - 1), Len(R[n - 1]))
          /\ at(n) = State(SubSeq(es, 1, n), Len(R[n]))
      BY <2>3, <3>1
    <3>6. SubSeq(es, 1, n) = Append(SubSeq(es, 1, n - 1), es[n])
      BY <2>1, <3>4
    <3>7. Len(R[n]) = Len(R[n - 1]) + Width(es[n])
      BY <1>1, <3>1
    <3>. HIDE DEF at, g
    <3>. QED  BY <2>2, <3>3, <3>5, <3>6, <3>7
  <2>4. CASE ~(n <= N)
    <3>1. at(n - 1) = State(es, Len(R[N]))
      <4>1. CASE n - 1 = N
        <5>1. SubSeq(es, 1, N) = es
          BY WholePart
        <5>. QED  BY <1>1, <4>1, <5>1
      <4>2. CASE n - 1 # N
        <5>1. ~(n - 1 <= N)
          BY <1>1, <2>1, <2>4, <4>2
        <5>. QED  BY <5>1
      <4>. QED  BY <4>1, <4>2
    <3>2. at(n) = State(es, Len(R[N]))
      BY <2>4
    <3>3. ReadRecord(data, State(es, Len(R[N]))) = State(es, Len(R[N]))
      BY <1>2, EndIsKept
    <3>. HIDE DEF at, g
    <3>. QED  BY <2>2, <3>1, <3>2, <3>3
  <2>. QED  BY <2>3, <2>4
<1>. HIDE DEF at
<1>7. P(g)
  <2>1. \A n \in 0..M : n = 0 \/ n \in 1..M
    BY <1>1
  <2>2. g = [n \in 0..M |-> g[n]]
    OBVIOUS
  <2>. HIDE DEF g
  <2>3. \A n \in 0..M : g[n] = IF n = 0 THEN State(<<>>, 0) ELSE ReadRecord(data, g[n - 1])
    BY <1>5, <1>6, <2>1
  <2>. QED  BY <2>2, <2>3, Zenon
<1>8. F = CHOOSE f : P(f)
  BY Zenon DEF F, Rounds, State
<1>9. P(F)
  <2>. HIDE DEF P
  <2>. QED  BY <1>7, <1>8, Zenon
<1>10. \A n \in 0..M : F[n] = g[n]
  <2>. DEFINE S == {n \in 0..M : F[n] = g[n]}
  <2>. HIDE DEF g
  <2>1. 0 \in S
    BY <1>1, <1>5, <1>9
  <2>2. ASSUME NEW n \in 0..M, n < M, n \in S PROVE n + 1 \in S
    <3>1. n + 1 \in 1..M /\ n + 1 \in 0..M /\ (n + 1) - 1 = n /\ n + 1 # 0
      BY <1>1, <2>2
    <3>2. F[n + 1] = ReadRecord(data, F[n])
      BY <1>9, <3>1
    <3>3. g[n + 1] = ReadRecord(data, g[n])
      BY <1>6, <3>1
    <3>. QED  BY <2>2, <3>1, <3>2, <3>3
  <2>. HIDE DEF S
  <2>3. \A n \in 0..M : n \in S
    BY <1>1, <2>1, <2>2, UpTo
  <2>. QED  BY <2>3 DEF S
<1>11. g[M] = State(es, Len(R[N]))
  <2>1. M \in 0..M
    BY <1>1
  <2>2. CASE M = N
    <3>1. SubSeq(es, 1, N) = es /\ N <= N
      BY <1>1, WholePart
    <3>. QED  BY <2>1, <2>2, <3>1 DEF at
  <2>3. CASE M # N
    <3>1. ~(M <= N)
      BY <1>1, <1>4, <2>3
    <3>. QED  BY <2>1, <3>1 DEF at
  <2>. QED  BY <2>2, <2>3
<1>12. DeserializeLogEntry(data) = F[M]
  BY DEF DeserializeLogEntry, F
<1>. HIDE DEF g
<1>13. M \in 0..M
  BY <1>1
<1>14. F[M] = State(es, Len(SerializeAll(es)))
  BY <1>2, <1>10, <1>11, <1>13
<1>. QED  BY <1>12, <1>14

\* A whole file,
LEMMA FileIsRead ==
  ASSUME NEW es \in Seq(EntryType)
  PROVE  /\ SerializeAll(es) \in Seq(CellType)
         /\ DeserializeLogEntry(SerializeAll(es)) = State(es, Len(SerializeAll(es)))
<1>. DEFINE data == SerializeAll(es)
<1>1. data \in Seq(CellType)
  <2>1. Len(es) \in 0..Len(es)
    OBVIOUS
  <2>2. Records(es)[Len(es)] \in Seq(CellType)
    BY <2>1, RecordsGrow
  <2>. QED  BY <2>2 DEF SerializeAll
<1>2. Starts(data, data) /\ Ends(data, Len(data))
  <2>. HIDE DEF data
  <2>1. Len(data) \in Nat
    BY <1>1
  <2>. QED  BY <2>1 DEF Starts, Ends, MinCells
<1>. QED  BY <1>1, <1>2, ReadsBack

\* and one that is cut off anywhere, which holds the records of the first m entries.
LEMMA TornIsRead ==
  ASSUME NEW es \in Seq(EntryType), NEW k \in 0..Len(SerializeAll(es))
  PROVE  \E m \in 0..Len(es) :
           LET kept == SerializeAll(SubSeq(es, 1, m))
           IN  /\ DeserializeLogEntry(SubSeq(SerializeAll(es), 1, k))
                    = State(SubSeq(es, 1, m), Len(kept))
               /\ SubSeq(SerializeAll(es), 1, Len(kept)) = kept
<1>. DEFINE N == Len(es)
            R == Records(es)
            data == SerializeAll(es)
            cut == SubSeq(data, 1, k)
            S == {m \in 0..N : m = N \/ k < Len(R[m + 1])}
<1>1. /\ N \in Nat /\ (\A n \in 0..N : R[n] \in Seq(CellType))
      /\ \A n \in 1..N : /\ Len(R[n]) = Len(R[n - 1]) + Width(es[n])
                         /\ Within(SerializeLogEntry(es[n]), R[n], Len(R[n - 1]))
  <2>1. /\ \A n \in 0..N : R[n] \in Seq(CellType) /\ n <= Len(R[n])
        /\ \A n \in 1..N : /\ Len(R[n]) = Len(R[n - 1]) + Width(es[n])
                           /\ Starts(R[n - 1], R[n])
                           /\ Within(SerializeLogEntry(es[n]), R[n], Len(R[n - 1]))
    BY RecordsGrow, Zenon
  <2>2. N \in Nat
    OBVIOUS
  <2>. HIDE DEF R, N
  <2>. QED  BY <2>1, <2>2
<1>2. data = R[N]
  BY DEF SerializeAll
<1>3. R[0] = <<>>
  BY RecordsAre
<1>4. k \in Nat /\ k <= Len(data) /\ Len(data) \in Nat /\ data \in Seq(CellType)
  <2>1. N \in 0..N
    BY <1>1
  <2>2. data \in Seq(CellType)
    BY <1>1, <1>2, <2>1
  <2>3. k \in 0..Len(data)
    OBVIOUS
  <2>. HIDE DEF data
  <2>. QED  BY <2>2, <2>3
<1>5. PICK m \in S : \A j \in S : m <= j
  <2>1. N \in S /\ S \in SUBSET Nat
    BY <1>1
  <2>. HIDE DEF S
  <2>. QED  BY <2>1, LeastExists
<1>6. m \in 0..N /\ (m = N \/ k < Len(R[m + 1]))
  OBVIOUS
<1>7. R[m] \in Seq(CellType) /\ Len(R[m]) <= k
  <2>1. R[m] \in Seq(CellType)
    BY <1>1, <1>6
  <2>2. CASE m = 0
    <3>1. Len(R[0]) = 0
      BY <1>3
    <3>. HIDE DEF R, S, data
    <3>. QED  BY <1>4, <2>1, <2>2, <3>1
  <2>3. CASE m # 0
    <3>1. m - 1 \in 0..N /\ ~(m <= m - 1) /\ (m - 1) + 1 = m
      BY <1>1, <1>6, <2>3
    <3>2. m - 1 \notin S
      BY <1>5, <3>1
    <3>3. ~(k < Len(R[m]))
      BY <3>1, <3>2
    <3>4. Len(R[m]) \in Nat
      BY <2>1
    <3>. HIDE DEF S, R
    <3>. QED  BY <1>4, <2>1, <3>3, <3>4
  <2>. QED  BY <2>1, <2>2, <2>3
<1>8. Starts(R[m], data)
  <2>1. m \in 0..N /\ N \in 0..N /\ m <= N
    BY <1>1, <1>6
  <2>2. Starts(R[m], R[N])
    BY <2>1, RecordsStart
  <2>. QED  BY <1>2, <2>2
<1>. DEFINE pre == SubSeq(es, 1, m)
<1>9. pre \in Seq(EntryType) /\ Len(pre) = m /\ \A i \in 1..m : pre[i] = es[i]
  <2>1. m \in Nat /\ m <= N
    BY <1>1, <1>6
  <2>. QED  BY <2>1, FirstPart
<1>10. SerializeAll(pre) = R[m]
  <2>. HIDE DEF pre
  <2>1. m \in Nat /\ m <= N /\ m <= Len(pre)
    BY <1>1, <1>6, <1>9
  <2>2. Records(pre)[m] = Records(es)[m]
    BY <1>9, <2>1, RecordsAgree
  <2>. QED  BY <1>9, <2>2 DEF SerializeAll
<1>. HIDE DEF pre
<1>11. cut \in Seq(CellType) /\ Len(cut) = k /\ \A i \in 1..k : cut[i] = data[i]
  <2>. HIDE DEF data
  <2>. QED  BY <1>4
<1>12. Starts(R[m], cut)
  <2>. HIDE DEF R, data, cut, S
  <2>1. Len(R[m]) \in Nat /\ \A i \in 1..Len(R[m]) : i \in 1..k
    BY <1>4, <1>7
  <2>. QED  BY <1>7, <1>8, <1>11, <2>1 DEF Starts
<1>13. Ends(cut, Len(R[m]))
  <2>1. CASE m = N
    <3>1. Len(cut) < Len(R[m]) + MinCells
      <4>. HIDE DEF R, data, cut, S
      <4>. QED  BY <1>2, <1>4, <1>7, <1>11, <2>1 DEF MinCells
    <3>. QED  BY <3>1 DEF Ends
  <2>2. CASE m # N
    <3>1. m + 1 \in 1..N /\ (m + 1) - 1 = m /\ m + 1 \in 0..N /\ N \in 0..N /\ m + 1 <= N
      BY <1>1, <1>6, <2>2
    <3>2. es[m + 1] \in EntryType
      BY <3>1
    <3>3. /\ Len(R[m + 1]) = Len(R[m]) + Width(es[m + 1])
          /\ Within(SerializeLogEntry(es[m + 1]), R[m + 1], Len(R[m]))
      BY <1>1, <3>1
    <3>4. Starts(R[m + 1], R[N])
      BY <3>1, RecordsStart
    <3>5. /\ SerializeLogEntry(es[m + 1]) \in Seq(CellType)
          /\ Len(SerializeLogEntry(es[m + 1])) = Width(es[m + 1]) /\ Width(es[m + 1]) \in Nat
      BY <3>2, RecordFacts
    <3>6. R[m + 1] \in Seq(CellType) /\ R[N] \in Seq(CellType) /\ Len(R[m]) \in Nat
      BY <1>1, <1>7, <3>1
    <3>. HIDE DEF R, S
    <3>7. Within(SerializeLogEntry(es[m + 1]), data, Len(R[m]))
      BY <1>2, <3>3, <3>4, <3>5, <3>6, WithinStarts
    <3>. DEFINE s == SerializeLogEntry(es[m + 1])
                w == Width(es[m + 1])
                pos == Len(R[m])
    <3>8. \A i \in 1..w : data[pos + i] = s[i]
      BY <3>5, <3>7 DEF Within
    <3>. HIDE DEF s, w, data, cut
    <3>9. ASSUME NEW i \in 1..w, pos + i <= Len(cut) PROVE cut[pos + i] = s[i]
      <4>1. pos + i \in 1..k
        BY <1>4, <1>11, <3>6, <3>9
      <4>. QED  BY <1>11, <3>8, <4>1
    <3>10. Len(cut) < pos + w
      BY <1>6, <1>11, <2>2, <3>3 DEF w
    <3>. QED  BY <1>11, <3>2, <3>6, <3>9, <3>10, TornEnds DEF s, w
  <2>. QED  BY <2>1, <2>2
<1>14. DeserializeLogEntry(cut) = State(pre, Len(R[m]))
  <2>1. Starts(SerializeAll(pre), cut) /\ Ends(cut, Len(SerializeAll(pre)))
    BY <1>10, <1>12, <1>13
  <2>. HIDE DEF cut
  <2>2. DeserializeLogEntry(cut) = State(pre, Len(SerializeAll(pre)))
    BY <1>9, <1>11, <2>1, ReadsBack
  <2>. QED  BY <1>10, <2>2
<1>15. SubSeq(data, 1, Len(R[m])) = R[m]
  <2>. DEFINE a == R[m]
  <2>. HIDE DEF data, R, S
  <2>1. a \in Seq(CellType) /\ Within(a, data, 0)
    <3>1. Len(a) \in Nat /\ 0 + Len(a) = Len(a) /\ \A i \in 1..Len(a) : 0 + i = i
      BY <1>7
    <3>. QED  BY <1>7, <1>8, <3>1 DEF Starts, Within
  <2>. HIDE DEF a
  <2>2. SubSeq(data, 0 + 1, 0 + Len(a)) = a
    BY <1>4, <2>1, WithinIsPart
  <2>3. 0 + 1 = 1 /\ 0 + Len(a) = Len(a)
    BY <2>1
  <2>4. SubSeq(data, 1, Len(a)) = a
    BY <2>2, <2>3
  <2>. QED  BY <2>4 DEF a
<1>16. /\ DeserializeLogEntry(cut) = State(SubSeq(es, 1, m), Len(SerializeAll(SubSeq(es, 1, m))))
       /\ SubSeq(data, 1, Len(SerializeAll(SubSeq(es, 1, m)))) = SerializeAll(SubSeq(es, 1, m))
  BY <1>10, <1>14, <1>15 DEF pre
<1>. QED  BY <1>6, <1>16

-----------------------------------------------------------------------------
(* Requests *)

LEMMA RecordAlone ==
  ASSUME NEW e \in EntryType
  PROVE  DeserializeLogEntry(SerializeLogEntry(e)).logs = <<e>>
<1>1. <<>> \in Seq(EntryType) /\ Append(<<>>, e) = <<e>> /\ <<e>> \in Seq(EntryType)
  OBVIOUS
<1>2. SerializeAll(<<>>) = <<>>
  <2>1. Records(<<>>)[0] = <<>>
    BY <1>1, RecordsAre
  <2>2. Len(<<>>) = 0
    OBVIOUS
  <2>. QED  BY <2>1, <2>2 DEF SerializeAll
<1>3. <<>> \o SerializeLogEntry(e) = SerializeLogEntry(e)
  <2>1. SerializeLogEntry(e) \in Seq(CellType)
    BY RecordFacts
  <2>. QED  BY <2>1
<1>4. SerializeAll(<<e>>) = SerializeLogEntry(e)
  <2>1. SerializeAll(Append(<<>>, e)) = SerializeAll(<<>>) \o SerializeLogEntry(e)
    BY <1>1, SerializeOneMore
  <2>. QED  BY <1>1, <1>2, <1>3, <2>1, Zenon
<1>5. DeserializeLogEntry(SerializeAll(<<e>>)) = State(<<e>>, Len(SerializeAll(<<e>>)))
  BY <1>1, FileIsRead
<1>. QED  BY <1>4, <1>5 DEF State

LEMMA FrameFacts ==
  ASSUME NEW e \in EntryType
  PROVE  /\ Frame(e) \in Seq(CellType) /\ Len(Frame(e)) = 1 + Width(e)
         /\ Frame(e)[1].val = Width(e)
         /\ \A i \in 1..Width(e) : Frame(e)[1 + i] = SerializeLogEntry(e)[i]
<1>. DEFINE s == SerializeLogEntry(e)
            h == <<Cell("size", Len(s))>>
<1>1. s \in Seq(CellType) /\ Len(s) = Width(e) /\ Width(e) \in Nat
  BY RecordFacts
<1>2. Frame(e) = h \o s
  BY DEF Frame
<1>. HIDE DEF s
<1>3. h \in Seq(CellType) /\ Len(h) = 1 /\ h[1].val = Width(e)
  <2>1. Cell("size", Len(s)) \in CellType /\ Cell("size", Len(s)).val = Width(e)
    BY <1>1 DEF Cell, CellType, Scalar
  <2>. QED  BY <2>1
<1>. HIDE DEF h
<1>4. /\ h \o s \in Seq(CellType) /\ Len(h \o s) = Len(h) + Len(s)
      /\ \A i \in 1..Len(h) : (h \o s)[i] = h[i]
      /\ \A i \in 1..Len(s) : (h \o s)[Len(h) + i] = s[i]
  BY <1>1, <1>3, CellsConcat
<1>5. 1 \in 1..Len(h)
  BY <1>3
<1>. QED  BY <1>1, <1>2, <1>3, <1>4, <1>5 DEF s

Taken(pos, es) == [at |-> pos, entries |-> es]

\* A frame that is there is taken.
LEMMA FrameIsTaken ==
  ASSUME NEW b \in Seq(CellType), NEW pos \in Nat, NEW e \in EntryType, NEW us,
         Within(Frame(e), b, pos)
  PROVE  Unframe(b, Taken(pos, us)) = Taken(pos + Len(Frame(e)), Append(us, e))
<1>. DEFINE f == Frame(e)
            s == SerializeLogEntry(e)
            w == Width(e)
<1>1. /\ f \in Seq(CellType) /\ Len(f) = 1 + w /\ f[1].val = w
      /\ \A i \in 1..w : f[1 + i] = s[i]
  BY FrameFacts
<1>2. s \in Seq(CellType) /\ Len(s) = w /\ w \in Nat /\ w >= 6
  BY RecordFacts
<1>3. DeserializeLogEntry(s).logs = <<e>>
  BY RecordAlone
<1>4. Within(f, b, pos)
  OBVIOUS
<1>. HIDE DEF f, s, w
<1>5. pos + Len(f) <= Len(b) /\ \A i \in 1..Len(f) : b[pos + i] = f[i]
  BY <1>4 DEF Within
<1>6. Len(b) \in Nat
  OBVIOUS
<1>7. b[pos + 1].val = w
  <2>1. 1 \in 1..Len(f)
    BY <1>1, <1>2
  <2>. QED  BY <1>1, <1>5, <2>1
<1>8. SubSeq(b, pos + 2, pos + 1 + w) = s
  <2>1. Within(s, b, pos + 1)
    <3>1. ASSUME NEW i \in 1..Len(s) PROVE b[pos + 1 + i] = s[i]
      <4>1. 1 + i \in 1..Len(f) /\ pos + (1 + i) = pos + 1 + i /\ i \in 1..w
        BY <1>1, <1>2
      <4>2. b[pos + (1 + i)] = f[1 + i]
        BY <1>5, <4>1
      <4>. QED  BY <1>1, <4>1, <4>2
    <3>2. pos + 1 + Len(s) <= Len(b)
      BY <1>1, <1>2, <1>5
    <3>. QED  BY <3>1, <3>2 DEF Within
  <2>2. pos + 1 \in Nat /\ (pos + 1) + 1 = pos + 2 /\ pos + 1 + Len(s) = pos + 1 + w
    BY <1>2
  <2>3. SubSeq(b, (pos + 1) + 1, pos + 1 + Len(s)) = s
    BY <1>2, <2>1, <2>2, WithinIsPart
  <2>. QED  BY <2>2, <2>3
<1>9. /\ ~(Len(b) <= pos) /\ ~(Len(b) < pos + 1 + w) /\ pos + 1 + w = pos + Len(f)
  BY <1>1, <1>2, <1>5, <1>6
<1>10. <<e>> # <<>> /\ <<e>>[1] = e
  OBVIOUS
<1>11. Unframe(b, Taken(pos, us)) = Taken(pos + Len(f), Append(us, e))
  BY <1>3, <1>7, <1>8, <1>9, <1>10 DEF Unframe, Taken
<1>. QED  BY <1>11 DEF f

LEMMA FramesChain ==
  ASSUME NEW es \in Seq(EntryType)
  PROVE  Chain(Frames(es), [n \in 1..Len(es) |-> Frame(es[n])], Len(es))
<1>. DEFINE N == Len(es)
            h == [n \in 1..N |-> Frame(es[n])]
            P(f) == f = [n \in 0..N |-> IF n = 0 THEN <<>> ELSE f[n - 1] \o Frame(es[n])]
            F == Frames(es)
<1>1. N \in Nat
  OBVIOUS
<1>2. \E f : P(f)
  <2>. HIDE DEF h
  <2>1. PICK f : f = [n \in 0..N |-> IF n = 0 THEN <<>> ELSE f[n - 1] \o h[n]]
    BY <1>1, ChainExists
  <2>2. ASSUME NEW n \in 0..N PROVE f[n] = IF n = 0 THEN <<>> ELSE f[n - 1] \o Frame(es[n])
    <3>1. n = 0 \/ n \in 1..N
      BY <1>1
    <3>2. n \in 1..N => h[n] = Frame(es[n])
      BY DEF h
    <3>3. f[n] = IF n = 0 THEN <<>> ELSE f[n - 1] \o h[n]
      BY <2>1
    <3>. QED  BY <3>1, <3>2, <3>3
  <2>3. f = [n \in 0..N |-> f[n]]
    BY <2>1
  <2>4. P(f)
    BY <2>2, <2>3, Zenon
  <2>. HIDE DEF P
  <2>. QED  BY <2>4
<1>3. F = CHOOSE f : P(f)
  BY Zenon DEF Frames
<1>. HIDE DEF P, F
<1>4. P(F)
  BY <1>2, <1>3, Zenon
<1>5. \A n \in 0..N : F[n] = IF n = 0 THEN <<>> ELSE F[n - 1] \o Frame(es[n])
  BY <1>4 DEF P
<1>6. 0 \in 0..N /\ \A n \in 1..N : n \in 0..N /\ n # 0
  BY <1>1
<1>7. \A n \in 1..N : h[n] = Frame(es[n]) /\ Frame(es[n]) \in Seq(CellType)
  BY FrameFacts
<1>. HIDE DEF h
<1>8. Chain(F, h, N)
  BY <1>5, <1>6, <1>7 DEF Chain
<1>. QED  BY <1>8 DEF F, h

\* What is taken out of a body is what was put into it.
LEMMA FramesAreTaken ==
  ASSUME NEW es \in Seq(EntryType)
  PROVE  Framed(es) \in Seq(CellType) /\ Unframed(Framed(es), Len(es)) = es
<1>. DEFINE N == Len(es)
            F == Frames(es)
            b == Framed(es)
            h == [n \in 1..N |-> Frame(es[n])]
            g == [n \in 0..N |-> Taken(Len(F[n]), SubSeq(es, 1, n))]
            P(f) == f = [n \in 0..N |-> IF n = 0 THEN Taken(0, <<>>) ELSE Unframe(b, f[n - 1])]
            U == Unframings(b, N)
<1>1. N \in Nat
  OBVIOUS
<1>2. Chain(F, h, N)
  BY FramesChain
<1>3. b = F[N]
  BY DEF Framed
<1>4. \A n \in 1..N : h[n] = Frame(es[n]) /\ Frame(es[n]) \in Seq(CellType)
  BY FrameFacts
<1>. HIDE DEF F, b, h, U
<1>5. /\ F[0] = <<>>
      /\ \A n \in 0..N : F[n] \in Seq(CellType)
      /\ \A n \in 1..N : /\ Len(F[n]) = Len(F[n - 1]) + Len(h[n])
                         /\ Starts(F[n - 1], F[n])
                         /\ Within(h[n], F[n], Len(F[n - 1]))
  BY <1>1, <1>2, ChainGrows DEF Chain
<1>6. b \in Seq(CellType)
  <2>1. N \in 0..N
    BY <1>1
  <2>. QED  BY <1>3, <1>5, <2>1
<1>7. ASSUME NEW n \in 1..N
      PROVE  Unframe(b, Taken(Len(F[n - 1]), SubSeq(es, 1, n - 1))) = Taken(Len(F[n]), SubSeq(es, 1, n))
  <2>1. /\ n \in 0..N /\ N \in 0..N /\ n <= N /\ n - 1 \in 0..N /\ n - 1 \in Nat /\ n - 1 < N
        /\ (n - 1) + 1 = n /\ es[n] \in EntryType
    BY <1>1
  <2>2. Starts(F[n], F[N])
    BY <1>1, <1>2, <2>1, ChainStarts
  <2>3. F[n] \in Seq(CellType) /\ Len(F[n - 1]) \in Nat /\ F[N] \in Seq(CellType)
    BY <1>5, <2>1
  <2>4. h[n] = Frame(es[n]) /\ Frame(es[n]) \in Seq(CellType)
    BY <1>4
  <2>5. Within(Frame(es[n]), b, Len(F[n - 1]))
    BY <1>3, <1>5, <2>2, <2>3, <2>4, WithinStarts
  <2>6. Unframe(b, Taken(Len(F[n - 1]), SubSeq(es, 1, n - 1)))
          = Taken(Len(F[n - 1]) + Len(Frame(es[n])), Append(SubSeq(es, 1, n - 1), es[n]))
    <3>. DEFINE e == es[n]
                pos == Len(F[n - 1])
                us == SubSeq(es, 1, n - 1)
    <3>1. e \in EntryType /\ pos \in Nat /\ Within(Frame(e), b, pos)
      BY <2>1, <2>3, <2>5
    <3>. HIDE DEF e, pos, us
    <3>2. Unframe(b, Taken(pos, us)) = Taken(pos + Len(Frame(e)), Append(us, e))
      BY <1>6, <3>1, FrameIsTaken
    <3>. QED  BY <3>2 DEF e, pos, us
  <2>7. Len(F[n - 1]) + Len(Frame(es[n])) = Len(F[n])
    BY <1>5, <2>4
  <2>8. SubSeq(es, 0 + 1, (n - 1) + 1) = Append(SubSeq(es, 0 + 1, n - 1), es[(n - 1) + 1])
    <3>1. 0 \in Nat /\ 0 <= n - 1
      BY <2>1
    <3>. QED  BY <2>1, <3>1, PartGrows
  <2>9. SubSeq(es, 1, n) = Append(SubSeq(es, 1, n - 1), es[n])
    BY <2>1, <2>8
  <2>. QED  BY <2>6, <2>7, <2>9
<1>8. \A n \in 0..N : g[n] = IF n = 0 THEN Taken(0, <<>>) ELSE Unframe(b, g[n - 1])
  <2>1. ASSUME NEW n \in 0..N PROVE g[n] = IF n = 0 THEN Taken(0, <<>>) ELSE Unframe(b, g[n - 1])
    <3>1. CASE n = 0
      <4>1. SubSeq(es, 1, 0) = <<>> /\ Len(F[0]) = 0
        BY <1>5
      <4>. QED  BY <3>1, <4>1
    <3>2. CASE n # 0
      <4>1. n \in 1..N /\ n - 1 \in 0..N
        BY <1>1, <3>2
      <4>2. g[n] = Taken(Len(F[n]), SubSeq(es, 1, n))
            /\ g[n - 1] = Taken(Len(F[n - 1]), SubSeq(es, 1, n - 1))
        BY <4>1
      <4>. HIDE DEF g
      <4>. QED  BY <1>7, <3>2, <4>1, <4>2
    <3>. QED  BY <3>1, <3>2
  <2>. QED  BY <2>1
<1>9. P(g)
  <2>1. g = [n \in 0..N |-> g[n]]
    OBVIOUS
  <2>. HIDE DEF g
  <2>. QED  BY <1>8, <2>1, Zenon
<1>10. U = CHOOSE f : P(f)
  BY Zenon DEF U, Unframings, Taken
<1>11. P(U)
  <2>. HIDE DEF P
  <2>. QED  BY <1>9, <1>10, Zenon
<1>12. \A n \in 0..N : U[n] = g[n]
  <2>. DEFINE S == {n \in 0..N : U[n] = g[n]}
  <2>. HIDE DEF g
  <2>1. 0 \in S
    <3>1. 0 \in 0..N
      BY <1>1
    <3>. QED  BY <1>8, <1>11, <3>1
  <2>2. ASSUME NEW n \in 0..N, n < N, n \in S PROVE n + 1 \in S
    <3>1. n + 1 \in 0..N /\ (n + 1) - 1 = n /\ n + 1 # 0
      BY <1>1, <2>2
    <3>2. U[n + 1] = Unframe(b, U[n])
      BY <1>11, <3>1
    <3>3. g[n + 1] = Unframe(b, g[n])
      BY <1>8, <3>1
    <3>. QED  BY <2>2, <3>1, <3>2, <3>3
  <2>. HIDE DEF S
  <2>3. \A n \in 0..N : n \in S
    BY <1>1, <2>1, <2>2, UpTo
  <2>. QED  BY <2>3 DEF S
<1>13. g[N] = Taken(Len(F[N]), es)
  <2>1. SubSeq(es, 1, N) = es /\ N \in 0..N
    BY <1>1, WholePart
  <2>. QED  BY <2>1
<1>. HIDE DEF g
<1>14. U[N] = Taken(Len(F[N]), es)
  <2>1. N \in 0..N
    BY <1>1
  <2>. QED  BY <1>12, <1>13, <2>1
<1>15. Unframed(b, N) = es
  BY <1>14 DEF Unframed, U, Taken
<1>. QED  BY <1>6, <1>15 DEF b

\* All that a connection carries.
Value == Nat \cup {Leader} \cup BOOLEAN \cup Seq(Scalar)
WireCell ==
  [kind : {"op", "len", "term", "index", "key", "value", "size", "crc", "leader", "prev",
           "prevTerm", "commit", "count", "header", "success"}, val : Value]

LEMMA CellsAreWireCells ==
  ASSUME NEW s \in Seq(CellType)
  PROVE  s \in Seq(WireCell)
<1>1. CellType \subseteq WireCell
  BY DEF CellType, Scalar, WireCell, Value
<1>. HIDE DEF CellType, WireCell
<1>. QED  BY <1>1

LEMMA WireCellsConcat ==
  ASSUME NEW a \in Seq(WireCell), NEW b \in Seq(WireCell)
  PROVE  /\ a \o b \in Seq(WireCell) /\ Len(a \o b) = Len(a) + Len(b)
         /\ \A i \in 1..Len(a) : (a \o b)[i] = a[i]
         /\ \A i \in 1..Len(b) : (a \o b)[Len(a) + i] = b[i]
  BY ConcatFacts

ArgsType ==
  [term : Nat, leaderId : {Leader}, prevLogIndex : Nat, prevLogTerm : Nat, leaderCommit : Nat,
   entries : Seq(EntryType)]

\* What the follower reads is what the leader meant.
LEMMA ArgsAreRead ==
  ASSUME NEW a \in ArgsType
  PROVE  /\ SerializeAppendEntriesArgs(a) \in Seq(WireCell)
         /\ DeserializeAppendEntriesArgs(SerializeAppendEntriesArgs(a)) = a
<1>. DEFINE es == a.entries
            f == Framed(es)
            h == <<Cell("term", a.term), Cell("leader", a.leaderId), Cell("prev", a.prevLogIndex),
                   Cell("prevTerm", a.prevLogTerm), Cell("commit", a.leaderCommit),
                   Cell("count", Len(es))>>
            b == SerializeAppendEntriesArgs(a)
<1>1. /\ a.term \in Nat /\ a.leaderId = Leader /\ a.prevLogIndex \in Nat
      /\ a.prevLogTerm \in Nat /\ a.leaderCommit \in Nat /\ es \in Seq(EntryType)
      /\ a = [term |-> a.term, leaderId |-> a.leaderId, prevLogIndex |-> a.prevLogIndex,
              prevLogTerm |-> a.prevLogTerm, leaderCommit |-> a.leaderCommit, entries |-> es]
  BY DEF ArgsType
<1>2. b = h \o f
  BY DEF SerializeAppendEntriesArgs
<1>. HIDE DEF b, es
<1>3. f \in Seq(WireCell) /\ Unframed(f, Len(es)) = es
  BY <1>1, FramesAreTaken, CellsAreWireCells
<1>. HIDE DEF f
<1>4. Len(es) \in Nat
  BY <1>1
<1>5. /\ Cell("term", a.term) \in WireCell /\ Cell("leader", a.leaderId) \in WireCell
      /\ Cell("prev", a.prevLogIndex) \in WireCell /\ Cell("prevTerm", a.prevLogTerm) \in WireCell
      /\ Cell("commit", a.leaderCommit) \in WireCell /\ Cell("count", Len(es)) \in WireCell
  BY <1>1, <1>4 DEF Cell, WireCell, Value
<1>6. /\ Len(h) = 6
      /\ h[1].val = a.term /\ h[2].val = a.leaderId /\ h[3].val = a.prevLogIndex
      /\ h[4].val = a.prevLogTerm /\ h[5].val = a.leaderCommit /\ h[6].val = Len(es)
  BY DEF Cell
<1>7. h \in Seq(WireCell)
  <2>. HIDE DEF WireCell
  <2>. QED  BY <1>5
<1>. HIDE DEF h
<1>8. /\ b \in Seq(WireCell) /\ Len(b) = 6 + Len(f) /\ \A i \in 1..6 : b[i] = h[i]
      /\ \A i \in 1..Len(f) : b[6 + i] = f[i]
  <2>1. /\ h \o f \in Seq(WireCell) /\ Len(h \o f) = Len(h) + Len(f)
        /\ \A i \in 1..Len(h) : (h \o f)[i] = h[i]
        /\ \A i \in 1..Len(f) : (h \o f)[Len(h) + i] = f[i]
    BY <1>3, <1>7, WireCellsConcat
  <2>. QED  BY <1>2, <1>6, <2>1
<1>9. SubSeq(b, 7, Len(b)) = f
  <2>1. Len(f) \in Nat
    BY <1>3
  <2>2. Within(f, b, 6)
    BY <1>8, <2>1 DEF Within
  <2>3. SubSeq(b, 6 + 1, 6 + Len(f)) = f
    <3>1. 6 \in Nat
      OBVIOUS
    <3>. QED  BY <1>3, <1>8, <2>2, <3>1, WithinIsPart
  <2>4. 6 + 1 = 7
    OBVIOUS
  <2>. QED  BY <1>8, <2>3, <2>4
<1>10. /\ b[1] = h[1] /\ b[2] = h[2] /\ b[3] = h[3] /\ b[4] = h[4] /\ b[5] = h[5] /\ b[6] = h[6]
  BY <1>8
<1>11. DeserializeAppendEntriesArgs(b)
         = [term |-> a.term, leaderId |-> a.leaderId, prevLogIndex |-> a.prevLogIndex,
            prevLogTerm |-> a.prevLogTerm, leaderCommit |-> a.leaderCommit, entries |-> es]
  BY <1>3, <1>6, <1>9, <1>10 DEF DeserializeAppendEntriesArgs
<1>. QED  BY <1>1, <1>8, <1>11 DEF b

\* recvRpc takes what has arrived whole, and nothing else.
LEMMA ArrivedIsSent ==
  ASSUME NEW body \in Seq(WireCell), NEW k \in 0..Len(Rpc(body)),
         RecvRpc(SubSeq(Rpc(body), 1, k))
  PROVE  Body(SubSeq(Rpc(body), 1, k)) = body /\ k = Len(body) + 1
<1>. DEFINE s == Rpc(body)
            n == Len(body)
            h == <<Cell("header", n)>>
            d == SubSeq(s, 1, k)
<1>1. n \in Nat
  OBVIOUS
<1>2. h \in Seq(WireCell) /\ Len(h) = 1 /\ h[1].val = n
  <2>1. Cell("header", n) \in WireCell /\ Cell("header", n).val = n
    BY <1>1 DEF Cell, WireCell, Value
  <2>. HIDE DEF WireCell
  <2>. QED  BY <2>1
<1>3. s = h \o body
  BY DEF Rpc
<1>. HIDE DEF h
<1>4. /\ s \in Seq(WireCell) /\ Len(s) = 1 + n /\ s[1].val = n
      /\ \A i \in 1..n : s[1 + i] = body[i]
  <2>1. /\ h \o body \in Seq(WireCell) /\ Len(h \o body) = Len(h) + Len(body)
        /\ \A i \in 1..Len(h) : (h \o body)[i] = h[i]
        /\ \A i \in 1..Len(body) : (h \o body)[Len(h) + i] = body[i]
    BY <1>2, WireCellsConcat
  <2>2. 1 \in 1..Len(h)
    BY <1>2
  <2>. QED  BY <1>2, <1>3, <2>1, <2>2
<1>5. RecvRpc(d) /\ k \in 0..Len(s)
  OBVIOUS
<1>. HIDE DEF s
<1>6. d \in Seq(WireCell) /\ Len(d) = k /\ \A i \in 1..k : d[i] = s[i]
  BY <1>4, <1>5
<1>7. d # <<>> /\ Len(d) >= 1 + d[1].val
  BY <1>5 DEF RecvRpc
<1>. HIDE DEF d
<1>8. k # 0
  BY <1>6, <1>7
<1>9. d[1] = s[1]
  BY <1>1, <1>4, <1>5, <1>6, <1>8
<1>10. k = 1 + n
  BY <1>1, <1>4, <1>5, <1>6, <1>7, <1>9
<1>11. Tail(d) \in Seq(WireCell) /\ Len(Tail(d)) = n /\ \A i \in 1..n : Tail(d)[i] = d[i + 1]
  BY <1>1, <1>6, <1>7, <1>10
<1>12. ASSUME NEW i \in 1..n PROVE Tail(d)[i] = body[i]
  <2>1. i + 1 \in 1..k /\ i + 1 = 1 + i
    BY <1>1, <1>10
  <2>. QED  BY <1>4, <1>6, <1>11, <2>1
<1>13. Tail(d) = body
  BY <1>11, <1>12, SeqEqual
<1>. QED  BY <1>1, <1>10, <1>13 DEF Body, d, s

\* What the leader makes of a reply is what the follower meant.
LEMMA ReplyIsRead ==
  ASSUME NEW t \in Nat, NEW ok \in BOOLEAN, NEW j \in 0..3,
         NEW reply, reply = SubSeq(Rpc(SerializeAppendEntriesReply([term |-> t, success |-> ok])), 1, j),
         RecvRpc(reply)
  PROVE  DeserializeAppendEntriesReply(Body(reply)).success = ok
<1>. DEFINE body == SerializeAppendEntriesReply([term |-> t, success |-> ok])
<1>1. body = <<Cell("term", t), Cell("success", ok)>>
  BY DEF SerializeAppendEntriesReply
<1>2. body \in Seq(WireCell) /\ Len(body) = 2 /\ body[2].val = ok
  <2>1. Cell("term", t) \in WireCell /\ Cell("success", ok) \in WireCell /\ Cell("success", ok).val = ok
    BY DEF Cell, WireCell, Value
  <2>. HIDE DEF body, WireCell
  <2>. QED  BY <1>1, <2>1
<1>. HIDE DEF body
<1>3. Len(Rpc(body)) = 3
  <2>1. Rpc(body) = <<Cell("header", Len(body))>> \o body
    BY DEF Rpc
  <2>2. Cell("header", Len(body)) \in WireCell
    BY <1>2 DEF Cell, WireCell, Value
  <2>. DEFINE h == <<Cell("header", Len(body))>>
  <2>3. h \in Seq(WireCell) /\ Len(h) = 1
    <3>. HIDE DEF WireCell
    <3>. QED  BY <2>2
  <2>. HIDE DEF h
  <2>4. Len(h \o body) = Len(h) + Len(body)
    BY <1>2, <2>3, WireCellsConcat
  <2>. QED  BY <1>2, <2>1, <2>3, <2>4 DEF h
<1>4. j \in 0..Len(Rpc(body)) /\ RecvRpc(SubSeq(Rpc(body), 1, j)) /\ reply = SubSeq(Rpc(body), 1, j)
  BY <1>3 DEF body
<1>5. Body(reply) = body
  BY <1>2, <1>4, ArrivedIsSent
<1>. QED  BY <1>2, <1>5 DEF DeserializeAppendEntriesReply

-----------------------------------------------------------------------------
(* Commands of a client that keeps to the lengths *)

LEMMA LengthIsKept ==
  ASSUME NEW k \in 0 .. LenMod - 1
  PROVE  k % LenMod = k
  BY LenModAssumption, SMTT(30)

LEMMA TextIsText ==
  ASSUME NEW kind \in {"key", "value"}, NEW k \in Nat
  PROVE  Text(kind, k) \in Seq(Scalar) /\ Len(Text(kind, k)) = k
<1>1. \A j \in 1..k : Cell(kind, j) \in Scalar
  BY DEF Cell, Scalar
<1>. DEFINE c(j) == Cell(kind, j)
<1>. HIDE DEF c
<1>2. \A j \in 1..k : c(j) \in Scalar
  BY <1>1 DEF c
<1>3. [j \in 1..k |-> c(j)] \in Seq(Scalar) /\ Len([j \in 1..k |-> c(j)]) = k
  <2>. HIDE DEF Scalar
  <2>. QED  BY <1>2
<1>. QED  BY <1>3 DEF Text, c

LEMMA CommandIsTyped ==
  ASSUME NEW op \in Nat, NEW key \in Seq(Scalar), NEW value \in Seq(Scalar),
         Len(key) \in 0 .. LenMod - 1, Len(value) \in 0 .. LenMod - 1
  PROVE  Command(op, key, value) \in CommandType
<1>. DEFINE kl == Len(key)
            vl == Len(value)
<1>1. kl % LenMod = kl /\ vl % LenMod = vl /\ kl \in Nat /\ vl \in Nat
  BY LengthIsKept
<1>2. Command(op, key, value) = [operation |-> op, key_len |-> kl, value_len |-> vl,
                                 key |-> key, value |-> value]
  BY <1>1 DEF Command
<1>. QED  BY <1>1, <1>2 DEF CommandType

LEMMA EmptyFits ==
  <<>> \in Seq(Scalar) /\ Len(<<>>) \in 0 .. LenMod - 1
<1>1. 0 \in 0 .. LenMod - 1 /\ Len(<<>>) = 0
  BY LenModAssumption
<1>. QED  BY <1>1

LEMMA TextFits ==
  ASSUME Fits, NEW kind \in {"key", "value"}, NEW k \in Sizes
  PROVE  Text(kind, k) \in Seq(Scalar) /\ Len(Text(kind, k)) \in 0 .. LenMod - 1
<1>1. k \in 0 .. LenMod - 1 /\ k \in Nat
  BY LenModAssumption DEF Fits
<1>2. Text(kind, k) \in Seq(Scalar) /\ Len(Text(kind, k)) = k
  BY <1>1, TextIsText
<1>. QED  BY <1>1, <1>2

LEMMA EntryIsTyped ==
  ASSUME NEW t \in Nat, NEW i \in Nat, NEW c \in CommandType
  PROVE  Entry(t, i, c) \in EntryType /\ Entry(t, i, c).index = i /\ Entry(t, i, c).term = t
  BY DEF Entry, EntryType

\* The entry of TornTailDropped, and the requests of LoopIsReconcile and KeepsAgreed.
LEMMA NewEntryIsTyped ==
  ASSUME term \in Nat
  PROVE  NewEntry \in EntryType /\ NewEntry.cmd \in CommandType
<1>1. Command(OP_PUT, <<>>, <<>>) \in CommandType
  <2>1. OP_PUT \in Nat
    BY DEF OP_PUT
  <2>. QED  BY <2>1, EmptyFits, CommandIsTyped
<1>2. NewEntry \in EntryType
  BY <1>1, EntryIsTyped DEF NewEntry
<1>. QED  BY <1>2 DEF EntryType

LEMMA RequestFollows ==
  ASSUME term \in Nat, NEW l \in Seq(EntryType), NEW es \in Requests(l)
  PROVE  es \in Seq(EntryType) /\ \E prev \in Nat : Follows(es, prev, l)
<1>. DEFINE at(prev, n) ==
              {[k \in 1..n |-> Entry(t[k], prev + k, NewEntry.cmd)] : t \in [1..n -> 1..LoopTerm]}
<1>0. PICK prev \in 0..Len(l) : es \in RequestsAfter(prev)
  BY DEF Requests
<1>1. PICK n \in 0..LoopLen : es \in at(prev, n)
  <2>1. RequestsAfter(prev) = UNION {at(prev, n) : n \in 0..LoopLen}
    BY DEF RequestsAfter
  <2>. HIDE DEF at
  <2>. QED  BY <1>0, <2>1
<1>2. PICK t \in [1..n -> 1..LoopTerm] : es = [k \in 1..n |-> Entry(t[k], prev + k, NewEntry.cmd)]
  BY <1>1
<1>3. n \in Nat /\ prev \in Nat /\ prev <= Len(l)
  BY WireAssumption
<1>4. NewEntry.cmd \in CommandType
  BY NewEntryIsTyped
<1>. DEFINE c == NewEntry.cmd
            e(k) == Entry(t[k], prev + k, c)
<1>. HIDE DEF c
<1>5. ASSUME NEW k \in 1..n PROVE e(k) \in EntryType /\ e(k).index = prev + k
  <2>1. t[k] \in Nat /\ prev + k \in Nat /\ c \in CommandType
    BY <1>3, <1>4, WireAssumption DEF c
  <2>. HIDE DEF CommandType
  <2>. QED  BY <2>1, EntryIsTyped
<1>6. es = [k \in 1..n |-> e(k)]
  BY <1>2 DEF c
<1>. HIDE DEF e
<1>7. es \in Seq(EntryType) /\ Len(es) = n /\ \A k \in 1..n : es[k] = e(k)
  <2>. HIDE DEF EntryType
  <2>. QED  BY <1>3, <1>5, <1>6
<1>8. Follows(es, prev, l)
  BY <1>3, <1>5, <1>7 DEF Follows
<1>. QED  BY <1>3, <1>7, <1>8

\* advanceCommit takes the greatest.
LEMMA MaxOf ==
  ASSUME NEW S \in SUBSET Nat, S # {}, NEW b \in Nat, \A s \in S : s <= b
  PROVE  Max(S) \in S /\ \A s \in S : s <= Max(S)
<1>. DEFINE B == {u \in Nat : \A s \in S : s <= u}
<1>1. PICK u \in B : \A j \in B : u <= j
  <2>1. b \in B /\ B \in SUBSET Nat
    OBVIOUS
  <2>. HIDE DEF B
  <2>. QED  BY <2>1, LeastExists
<1>2. u \in Nat /\ \A s \in S : s <= u
  OBVIOUS
<1>3. u \in S
  <2>. SUFFICES ASSUME u \notin S PROVE FALSE
    OBVIOUS
  <2>1. PICK s \in S : TRUE
    OBVIOUS
  <2>2. \A x \in S : x <= u - 1
    BY <1>2
  <2>3. u - 1 \in Nat
    BY <1>2, <2>1
  <2>4. u - 1 \in B
    BY <2>2, <2>3
  <2>5. u <= u - 1
    BY <1>1, <2>4
  <2>. QED  BY <1>2, <2>5
<1>4. u \in S /\ \A y \in S : u >= y
  BY <1>2, <1>3
<1>5. Max(S) \in S /\ \A y \in S : Max(S) >= y
  <2>1. Max(S) = CHOOSE x \in S : \A y \in S : x >= y
    BY DEF Max
  <2>. QED  BY <1>4, <2>1
<1>. QED  BY <1>5

-----------------------------------------------------------------------------
(* The invariant *)

\* Files hold the logs, and followers a beginning of the leader's log.
LogsInv ==
  /\ term \in Nat /\ log \in [Node -> Seq(EntryType)]
  /\ file = [n \in Node |-> SerializeAll(log[n])]
  /\ \A i \in 1..Len(log[Leader]) : log[Leader][i].index = i
  /\ \A p \in Follower : Starts(log[p], log[Leader])

\* What the leader counts is there.
CountInv ==
  /\ nextIndex \in [Follower -> Nat] /\ matchIndex \in [Follower -> Nat]
  /\ \A p \in Follower : /\ nextIndex[p] \in 1 .. Len(log[Leader]) + 1
                         /\ matchIndex[p] <= Len(log[p])
  /\ commitIndex \in 0..Len(log[Leader])
  /\ commitIndex > 0 => Cardinality({n \in Node : commitIndex <= Len(log[n])}) >= Majority

WireInv == LogsInv /\ CountInv

LEMMA InitWireInv ==
  ASSUME Init
  PROVE  WireInv
<1>1. SerializeAll(<<>>) = <<>>
  <2>1. <<>> \in Seq(EntryType) /\ Len(<<>>) = 0
    OBVIOUS
  <2>. QED  BY <2>1, RecordsAre DEF SerializeAll
<1>2. /\ term = 0 /\ log = [n \in Node |-> <<>>] /\ file = [n \in Node |-> <<>>]
      /\ nextIndex = [p \in Follower |-> 1] /\ matchIndex = [p \in Follower |-> 0]
      /\ commitIndex = 0
  BY DEF Init
<1>3. Leader \in Node /\ \A p \in Follower : p \in Node
  BY DEF Node
<1>4. Len(log[Leader]) = 0 /\ \A n \in Node : log[n] = <<>> /\ Len(log[n]) = 0
  BY <1>2, <1>3
<1>5. log \in [Node -> Seq(EntryType)]
  <2>1. <<>> \in Seq(EntryType)
    OBVIOUS
  <2>. HIDE DEF EntryType
  <2>. QED  BY <1>2, <2>1
<1>6. LogsInv
  <2>1. file = [n \in Node |-> SerializeAll(log[n])]
    BY <1>1, <1>2, <1>4
  <2>2. \A p \in Follower : Starts(log[p], log[Leader])
    BY <1>3, <1>4 DEF Starts
  <2>3. \A i \in 1..Len(log[Leader]) : log[Leader][i].index = i
    BY <1>4
  <2>. QED  BY <1>2, <1>5, <2>1, <2>2, <2>3 DEF LogsInv
<1>7. CountInv
  <2>1. nextIndex \in [Follower -> Nat] /\ matchIndex \in [Follower -> Nat]
    BY <1>2
  <2>2. \A p \in Follower : nextIndex[p] \in 1 .. Len(log[Leader]) + 1 /\ matchIndex[p] <= Len(log[p])
    BY <1>2, <1>3, <1>4
  <2>3. commitIndex \in 0..Len(log[Leader]) /\ ~(commitIndex > 0)
    BY <1>2, <1>4
  <2>. QED  BY <2>1, <2>2, <2>3 DEF CountInv
<1>. QED  BY <1>6, <1>7 DEF WireInv

\* The leader's file keeps up with its log.
LEMMA AppendsInv ==
  ASSUME LogsInv, NEW c \in CommandType, AppendEntry(c), term' \in Nat
  PROVE  /\ LogsInv' /\ Len(log'[Leader]) = Len(log[Leader]) + 1
         /\ \A n \in Node : n # Leader => log'[n] = log[n]
<1>. DEFINE l == log[Leader]
            e == Entry(term', Len(l) + 1, c)
            m == Append(l, e)
<1>1. /\ log \in [Node -> Seq(EntryType)] /\ file = [n \in Node |-> SerializeAll(log[n])]
      /\ \A i \in 1..Len(l) : l[i].index = i
      /\ \A p \in Follower : Starts(log[p], l)
  BY DEF LogsInv
<1>2. log' = [log EXCEPT ![Leader] = m] /\ file' = [file EXCEPT ![Leader] = @ \o SerializeLogEntry(e)]
  BY DEF AppendEntry
<1>3. Leader \in Node /\ \A p \in Follower : p \in Node /\ p # Leader
  BY WireAssumption DEF Node
<1>4. l \in Seq(EntryType)
  BY <1>1, <1>3
<1>. HIDE DEF l
<1>5. Len(l) \in Nat /\ e \in EntryType /\ e.index = Len(l) + 1
  <2>1. Len(l) \in Nat /\ Len(l) + 1 \in Nat
    BY <1>4
  <2>. QED  BY <2>1, EntryIsTyped
<1>. HIDE DEF e
<1>6. /\ m \in Seq(EntryType) /\ Len(m) = Len(l) + 1 /\ m[Len(l) + 1] = e
      /\ \A i \in 1..Len(l) : m[i] = l[i]
  BY <1>4, <1>5, OneMore
<1>7. SerializeAll(m) = SerializeAll(l) \o SerializeLogEntry(e)
  BY <1>4, <1>5, SerializeOneMore
<1>. HIDE DEF m
<1>8. log'[Leader] = m /\ \A n \in Node : n # Leader => log'[n] = log[n]
  BY <1>1, <1>2, <1>3
<1>9. log' \in [Node -> Seq(EntryType)]
  <2>. HIDE DEF EntryType
  <2>. QED  BY <1>1, <1>2, <1>6
<1>10. file' = [n \in Node |-> SerializeAll(log'[n])]
  <2>1. file'[Leader] = SerializeAll(m)
    BY <1>1, <1>2, <1>3, <1>7 DEF l
  <2>2. \A n \in Node : n # Leader => file'[n] = SerializeAll(log[n])
    BY <1>1, <1>2
  <2>3. file' = [n \in Node |-> file'[n]]
    BY <1>1, <1>2
  <2>4. \A n \in Node : file'[n] = SerializeAll(log'[n])
    BY <1>8, <2>1, <2>2
  <2>. QED  BY <2>3, <2>4
<1>11. \A i \in 1..Len(m) : m[i].index = i
  <2>1. ASSUME NEW i \in 1..Len(m) PROVE m[i].index = i
    <3>1. i \in 1..Len(l) \/ i = Len(l) + 1
      BY <1>5, <1>6
    <3>. QED  BY <1>1, <1>5, <1>6, <3>1
  <2>. QED  BY <2>1
<1>12. \A p \in Follower : Starts(log'[p], m)
  <2>1. ASSUME NEW p \in Follower PROVE Starts(log'[p], m)
    <3>1. log'[p] = log[p] /\ log[p] \in Seq(EntryType) /\ Starts(log[p], l)
      BY <1>1, <1>3, <1>8
    <3>2. Starts(l, m)
      BY <1>5, <1>6 DEF Starts
    <3>. QED  BY <1>4, <1>6, <3>1, <3>2, StartsTrans
  <2>. QED  BY <2>1
<1>13. LogsInv'
  BY <1>8, <1>9, <1>10, <1>11, <1>12 DEF LogsInv
<1>. QED  BY <1>6, <1>8, <1>13 DEF l

LEMMA ArgsTyped ==
  ASSUME WireInv, NEW p \in Follower
  PROVE  /\ Args(p) \in ArgsType
         /\ Args(p).prevLogIndex = nextIndex[p] - 1 /\ Args(p).prevLogIndex \in Nat
         /\ Args(p).prevLogIndex <= Len(log[Leader])
         /\ Args(p).prevLogIndex + Len(Args(p).entries) = Len(log[Leader])
         /\ \A k \in 1..Len(Args(p).entries) :
              Args(p).entries[k] = log[Leader][Args(p).prevLogIndex + k]
<1>. DEFINE l == log[Leader]
            prev == nextIndex[p] - 1
            es == SubSeq(l, nextIndex[p], Len(l))
<1>1. /\ term \in Nat /\ log \in [Node -> Seq(EntryType)] /\ nextIndex[p] \in 1 .. Len(l) + 1
      /\ commitIndex \in 0..Len(l)
  BY DEF WireInv, LogsInv, CountInv
<1>2. l \in Seq(EntryType)
  BY <1>1 DEF Node
<1>. HIDE DEF l
<1>3. Len(l) \in Nat
  BY <1>2
<1>4. prev \in Nat /\ prev <= Len(l) /\ prev + 1 = nextIndex[p] /\ commitIndex \in Nat
  BY <1>1, <1>3
<1>. HIDE DEF prev
<1>5. TermAt(l, prev) \in Nat
  <2>1. CASE prev \in 1..Len(l)
    <3>1. l[prev] \in EntryType
      BY <1>2, <2>1
    <3>. QED  BY <2>1, <3>1 DEF TermAt, EntryType
  <2>2. CASE prev \notin 1..Len(l)
    BY <2>2 DEF TermAt
  <2>. QED  BY <2>1, <2>2
<1>6. es \in Seq(EntryType) /\ Len(es) = Len(l) - prev /\ \A i \in 1 .. Len(l) - prev : es[i] = l[prev + i]
  BY <1>2, <1>4, LastPart
<1>. HIDE DEF es
<1>7. Args(p) = [term |-> term, leaderId |-> Leader, prevLogIndex |-> prev,
                 prevLogTerm |-> TermAt(l, prev), leaderCommit |-> commitIndex, entries |-> es]
  BY DEF Args, l, prev, es
<1>8. Args(p) \in ArgsType
  BY <1>1, <1>4, <1>5, <1>6, <1>7 DEF ArgsType
<1>9. prev + Len(es) = Len(l) /\ Len(es) = Len(l) - prev
  BY <1>3, <1>4, <1>6
<1>10. Args(p).prevLogIndex = prev /\ Args(p).entries = es
  BY <1>7
<1>. QED  BY <1>4, <1>6, <1>8, <1>9, <1>10 DEF l, prev

\* What a follower handles is what was meant.
LEMMA ReceivedIsArgs ==
  ASSUME WireInv, NEW p \in Follower, NEW k \in 1..Len(Sent(p)), RecvRpc(Arrived(p, k))
  PROVE  Received(p, k) = Args(p)
<1>. DEFINE body == SerializeAppendEntriesArgs(Args(p))
<1>1. Args(p) \in ArgsType
  BY ArgsTyped
<1>2. body \in Seq(WireCell) /\ DeserializeAppendEntriesArgs(body) = Args(p)
  BY <1>1, ArgsAreRead
<1>3. Sent(p) = Rpc(body)
  BY DEF Sent
<1>. HIDE DEF body
<1>4. k \in 0..Len(Rpc(body)) /\ RecvRpc(SubSeq(Rpc(body), 1, k))
  BY <1>3 DEF Arrived
<1>5. Body(SubSeq(Rpc(body), 1, k)) = body
  BY <1>2, <1>4, ArrivedIsSent
<1>. QED  BY <1>2, <1>3, <1>5 DEF Received, Arrived

\* A request that passes step 3 makes the follower's log the leader's.
LEMMA SuccessCopies ==
  ASSUME WireInv, NEW p \in Follower, Success(p, Args(p))
  PROVE  AppendLoop(log[p], Args(p).entries) = Loop(log[Leader], log[Leader] # log[p])
<1>. DEFINE l == log[Leader]
            m == log[p]
            es == Args(p).entries
            prev == Args(p).prevLogIndex
            r == Reconcile(m, es)
<1>1. /\ l \in Seq(EntryType) /\ m \in Seq(EntryType) /\ Starts(m, l)
      /\ \A i \in 1..Len(l) : l[i].index = i
  BY DEF WireInv, LogsInv, Node
<1>2. /\ Args(p) \in ArgsType /\ prev \in Nat /\ prev <= Len(l) /\ prev + Len(es) = Len(l)
      /\ \A k \in 1..Len(es) : es[k] = l[prev + k]
  BY ArgsTyped
<1>3. es \in Seq(EntryType)
  BY <1>2 DEF ArgsType
<1>4. prev > 0 => prev <= Len(m)
  BY DEF Success, PrevMatches
<1>. HIDE DEF l, m, es, prev
<1>5. Len(l) \in Nat /\ Len(m) \in Nat /\ Len(es) \in Nat /\ Len(m) <= Len(l) /\ prev <= Len(m)
  BY <1>1, <1>2, <1>3, <1>4 DEF Starts
<1>6. Follows(es, prev, m)
  <2>1. \A k \in 1..Len(es) : prev + k \in 1..Len(l)
    BY <1>2, <1>5
  <2>. QED  BY <1>1, <1>2, <1>5, <2>1 DEF Follows
<1>7. AppendLoop(m, es) = Loop(r, r # m)
  BY <1>1, <1>2, <1>3, <1>6, LoopReconciles
<1>8. r = l
  <2>1. CASE Differing(m, es) = {}
    <3>1. r = m
      BY <2>1, ReconcileNothing
    <3>2. Len(l) <= Len(m)
      <4>1. CASE Len(es) = 0
        BY <1>2, <1>5, <4>1
      <4>2. CASE Len(es) # 0
        <5>1. Len(es) \in 1..Len(es)
          BY <1>5, <4>2
        <5>2. ~(es[Len(es)].index > Len(m))
          BY <2>1, <5>1 DEF Differing
        <5>3. es[Len(es)].index = prev + Len(es)
          BY <1>6, <5>1 DEF Follows
        <5>. QED  BY <1>2, <1>5, <5>2, <5>3
      <4>. QED  BY <4>1, <4>2
    <3>3. Len(l) = Len(m) /\ \A i \in 1..Len(m) : l[i] = m[i]
      BY <1>1, <1>5, <3>2 DEF Starts
    <3>4. l = m
      BY <1>1, <3>3, SeqEqual
    <3>. QED  BY <3>1, <3>4
  <2>2. CASE Differing(m, es) # {}
    <3>1. PICK k \in Differing(m, es) : \A j \in Differing(m, es) : k <= j
      <4>1. Differing(m, es) \in SUBSET Nat
        BY <1>5 DEF Differing
      <4>. QED  BY <2>2, <4>1, LeastExists
    <3>2. k \in 1..Len(es) /\ (es[k].index > Len(m) \/ m[es[k].index].term # es[k].term)
      BY <3>1 DEF Differing
    <3>. DEFINE q == prev + k - 1
                a == SubSeq(m, 1, q)
                b == SubSeq(es, k, Len(es))
    <3>3. prev + k - 1 <= Len(m) /\ r = a \o b /\ r \in Seq(EntryType) /\ Len(r) = prev + Len(es)
      <4>1. /\ prev + k - 1 <= Len(m)
            /\ Reconcile(m, es) = SubSeq(m, 1, prev + k - 1) \o SubSeq(es, k, Len(es))
            /\ Reconcile(m, es) \in Seq(EntryType) /\ Len(Reconcile(m, es)) = prev + Len(es)
            /\ Reconcile(m, es) # m
        BY <1>1, <1>2, <1>3, <1>6, <3>1, ReconcileFirst, Zenon
      <4>. QED  BY <4>1
    <3>4. q \in Nat /\ q <= Len(m) /\ prev + k = q + 1 /\ k - 1 \in Nat /\ k - 1 <= Len(es) /\ (k - 1) + 1 = k
      <4>1. k \in Nat /\ k >= 1 /\ k <= Len(es)
        BY <1>5, <3>2
      <4>2. prev + k - 1 = prev + (k - 1)
        BY <1>2, <4>1
      <4>. QED  BY <1>2, <1>5, <3>3, <4>1, <4>2
    <3>. HIDE DEF q
    <3>5. a \in Seq(EntryType) /\ Len(a) = q /\ \A i \in 1..q : a[i] = m[i]
      BY <1>1, <3>4, FirstPart
    <3>6. b \in Seq(EntryType) /\ Len(b) = Len(es) - (k - 1) /\ \A i \in 1 .. Len(es) - (k - 1) : b[i] = es[k - 1 + i]
      BY <1>3, <3>4, LastPart
    <3>. HIDE DEF a, b, r
    <3>7. /\ \A i \in 1..Len(a) : (a \o b)[i] = a[i]
          /\ \A i \in 1..Len(b) : (a \o b)[Len(a) + i] = b[i]
      BY <3>5, <3>6, ConcatFacts
    <3>8. ASSUME NEW i \in 1..Len(l) PROVE r[i] = l[i]
      <4>1. CASE i <= q
        <5>1. i \in 1..q /\ i \in 1..Len(m) /\ i \in 1..Len(a)
          BY <1>5, <3>4, <3>5, <4>1
        <5>2. r[i] = m[i]
          BY <3>3, <3>5, <3>7, <5>1
        <5>. QED  BY <1>1, <5>1, <5>2 DEF Starts
      <4>2. CASE ~(i <= q)
        <5>. DEFINE d == i - q
        <5>1. /\ d \in 1 .. Len(es) - (k - 1) /\ d \in 1..Len(b) /\ q + d = i
              /\ k - 1 + d \in 1..Len(es) /\ prev + (k - 1 + d) = i
          <6>1. Len(l) = prev + Len(es) /\ q = prev + (k - 1) /\ Len(b) = Len(es) - (k - 1)
            BY <1>2, <1>5, <3>2, <3>4, <3>6 DEF q
          <6>. HIDE DEF b, r
          <6>. QED  BY <1>2, <1>5, <3>2, <3>4, <4>2, <6>1
        <5>. HIDE DEF d
        <5>2. r[i] = b[d]
          BY <3>3, <3>5, <3>7, <5>1
        <5>3. b[d] = es[k - 1 + d]
          BY <3>6, <5>1
        <5>4. es[k - 1 + d] = l[prev + (k - 1 + d)]
          BY <1>2, <5>1
        <5>. QED  BY <5>1, <5>2, <5>3, <5>4
      <4>. QED  BY <4>1, <4>2
    <3>9. Len(r) = Len(l)
      BY <1>2, <3>3
    <3>. QED  BY <1>1, <3>3, <3>8, <3>9, SeqEqual
  <2>. QED  BY <2>1, <2>2
<1>. QED  BY <1>7, <1>8 DEF l, m, es

-----------------------------------------------------------------------------
(* The steps *)

LEMMA NodesAreFinite ==
  IsFiniteSet(Node) /\ Majority \in Nat
<1>1. IsFiniteSet(Node)
  BY WireAssumption, FS_AddElement DEF Node
<1>2. Cardinality(Node) \in Nat
  BY <1>1, FS_CardinalityType
<1>. QED  BY <1>1, <1>2 DEF Majority

LEMMA MajorityGrows ==
  ASSUME NEW A, NEW B \in SUBSET Node, A \subseteq B, Cardinality(A) >= Majority
  PROVE  Cardinality(B) >= Majority
<1>1. IsFiniteSet(B)
  BY NodesAreFinite, FS_Subset
<1>2. IsFiniteSet(A) /\ Cardinality(A) <= Cardinality(B)
  BY <1>1, FS_Subset
<1>3. Cardinality(A) \in Nat /\ Cardinality(B) \in Nat /\ Majority \in Nat
  BY <1>1, <1>2, FS_CardinalityType, NodesAreFinite
<1>. QED  BY <1>2, <1>3

\* The leader is elected, or takes a command.
LEMMA ElectedInv ==
  ASSUME WireInv, Elected
  PROVE  WireInv'
<1>. DEFINE c == Command(OP_NOOP, <<>>, <<>>)
            L == Len(log[Leader])
<1>1. /\ LogsInv /\ term \in Nat /\ log \in [Node -> Seq(EntryType)]
      /\ commitIndex \in 0..L
      /\ commitIndex > 0 => Cardinality({n \in Node : commitIndex <= Len(log[n])}) >= Majority
  BY DEF WireInv, LogsInv, CountInv
<1>2. /\ term' = term + 1 /\ AppendEntry(c) /\ commitIndex' = commitIndex
      /\ nextIndex' = [p \in Follower |-> Len(log'[Leader]) + 1]
      /\ matchIndex' = [p \in Follower |-> 0]
  BY DEF Elected
<1>3. c \in CommandType
  <2>1. OP_NOOP \in Nat
    BY DEF OP_NOOP
  <2>. QED  BY <2>1, EmptyFits, CommandIsTyped
<1>. HIDE DEF c
<1>4. /\ LogsInv' /\ Len(log'[Leader]) = L + 1 /\ \A n \in Node : n # Leader => log'[n] = log[n]
  BY <1>1, <1>2, <1>3, AppendsInv
<1>5. \A n \in Node : Len(log[n]) \in Nat /\ Len(log'[n]) \in Nat /\ Len(log[n]) <= Len(log'[n])
  <2>1. \A n \in Node : Len(log[n]) \in Nat /\ Len(log'[n]) \in Nat
    BY <1>1, <1>4 DEF LogsInv
  <2>2. \A n \in Node : n = Leader \/ log'[n] = log[n]
    BY <1>4
  <2>. QED  BY <1>4, <2>1, <2>2
<1>6. Leader \in Node /\ \A p \in Follower : p \in Node
  BY DEF Node
<1>. HIDE DEF L
<1>7. L \in Nat
  BY <1>5, <1>6 DEF L
<1>8. /\ nextIndex' \in [Follower -> Nat] /\ matchIndex' \in [Follower -> Nat]
      /\ \A p \in Follower : /\ nextIndex'[p] \in 1 .. Len(log'[Leader]) + 1
                             /\ matchIndex'[p] <= Len(log'[p])
  BY <1>2, <1>4, <1>5, <1>6, <1>7
<1>9. commitIndex' \in 0..Len(log'[Leader])
  BY <1>1, <1>2, <1>4, <1>7
<1>10. ASSUME commitIndex' > 0 PROVE Cardinality({n \in Node : commitIndex' <= Len(log'[n])}) >= Majority
  <2>. DEFINE A == {n \in Node : commitIndex <= Len(log[n])}
              B == {n \in Node : commitIndex' <= Len(log'[n])}
  <2>1. commitIndex \in Nat
    BY <1>1, <1>7
  <2>2. A \subseteq B /\ B \in SUBSET Node
    BY <1>2, <1>5, <2>1
  <2>3. Cardinality(A) >= Majority
    BY <1>1, <1>2, <1>10
  <2>. HIDE DEF A, B
  <2>. QED  BY <2>2, <2>3, MajorityGrows DEF B
<1>11. CountInv'
  BY <1>8, <1>9, <1>10 DEF CountInv
<1>. QED  BY <1>4, <1>11 DEF WireInv

LEMMA PutInv ==
  ASSUME Fits, WireInv, NEW k \in Sizes, NEW v \in Sizes, Put(k, v)
  PROVE  WireInv'
<1>. DEFINE c == Command(OP_PUT, Text("key", k), Text("value", v))
            L == Len(log[Leader])
<1>1. /\ LogsInv /\ term \in Nat /\ log \in [Node -> Seq(EntryType)]
      /\ nextIndex \in [Follower -> Nat] /\ matchIndex \in [Follower -> Nat]
      /\ \A p \in Follower : nextIndex[p] \in 1 .. L + 1 /\ matchIndex[p] <= Len(log[p])
      /\ commitIndex \in 0..L
      /\ commitIndex > 0 => Cardinality({n \in Node : commitIndex <= Len(log[n])}) >= Majority
  BY DEF WireInv, LogsInv, CountInv
<1>2. /\ term' = term /\ AppendEntry(c) /\ commitIndex' = commitIndex
      /\ nextIndex' = nextIndex /\ matchIndex' = matchIndex
  BY DEF Put
<1>3. c \in CommandType
  <2>1. OP_PUT \in Nat /\ "key" \in {"key", "value"} /\ "value" \in {"key", "value"}
    BY DEF OP_PUT
  <2>2. /\ Text("key", k) \in Seq(Scalar) /\ Len(Text("key", k)) \in 0 .. LenMod - 1
        /\ Text("value", v) \in Seq(Scalar) /\ Len(Text("value", v)) \in 0 .. LenMod - 1
    BY <2>1, TextFits
  <2>. QED  BY <2>1, <2>2, CommandIsTyped
<1>. HIDE DEF c
<1>4. /\ LogsInv' /\ Len(log'[Leader]) = L + 1 /\ \A n \in Node : n # Leader => log'[n] = log[n]
  BY <1>1, <1>2, <1>3, AppendsInv
<1>5. Leader \in Node /\ \A p \in Follower : p \in Node
  BY DEF Node
<1>6. \A n \in Node : Len(log[n]) \in Nat /\ Len(log'[n]) \in Nat /\ Len(log[n]) <= Len(log'[n])
  <2>1. \A n \in Node : Len(log[n]) \in Nat /\ Len(log'[n]) \in Nat
    BY <1>1, <1>4 DEF LogsInv
  <2>2. \A n \in Node : n = Leader \/ log'[n] = log[n]
    BY <1>4
  <2>. QED  BY <1>4, <2>1, <2>2
<1>. HIDE DEF L
<1>7. L \in Nat
  BY <1>5, <1>6 DEF L
<1>8. \A p \in Follower : nextIndex'[p] \in 1 .. Len(log'[Leader]) + 1 /\ matchIndex'[p] <= Len(log'[p])
  <2>1. ASSUME NEW p \in Follower
        PROVE  nextIndex'[p] \in 1 .. Len(log'[Leader]) + 1 /\ matchIndex'[p] <= Len(log'[p])
    <3>1. nextIndex[p] \in 1 .. L + 1 /\ matchIndex[p] <= Len(log[p]) /\ matchIndex[p] \in Nat
      BY <1>1
    <3>2. Len(log[p]) \in Nat /\ Len(log'[p]) \in Nat /\ Len(log[p]) <= Len(log'[p])
      BY <1>5, <1>6
    <3>. QED  BY <1>2, <1>4, <1>7, <3>1, <3>2
  <2>. QED  BY <2>1
<1>9. commitIndex' \in 0..Len(log'[Leader])
  BY <1>1, <1>2, <1>4, <1>7
<1>10. ASSUME commitIndex' > 0 PROVE Cardinality({n \in Node : commitIndex' <= Len(log'[n])}) >= Majority
  <2>. DEFINE A == {n \in Node : commitIndex <= Len(log[n])}
              B == {n \in Node : commitIndex' <= Len(log'[n])}
  <2>1. commitIndex \in Nat
    BY <1>1, <1>7
  <2>2. A \subseteq B /\ B \in SUBSET Node
    BY <1>2, <1>6, <2>1
  <2>3. Cardinality(A) >= Majority
    BY <1>1, <1>2, <1>10
  <2>. HIDE DEF A, B
  <2>. QED  BY <2>2, <2>3, MajorityGrows DEF B
<1>11. CountInv'
  BY <1>1, <1>2, <1>8, <1>9, <1>10 DEF CountInv
<1>. QED  BY <1>4, <1>11 DEF WireInv

\* A follower handles what has arrived.
LEMMA HandleInv ==
  ASSUME WireInv, NEW p \in Follower, NEW k \in 1..Len(Sent(p)), Handle(p, k), term' = term
  PROVE  /\ LogsInv' /\ \A n \in Node : n # p => log'[n] = log[n]
         /\ Success(p, Args(p)) => log'[p] = log[Leader]
         /\ Len(log[p]) <= Len(log'[p])
<1>. DEFINE a == Received(p, k)
            l == IF Success(p, a) THEN AppendLoop(log[p], a.entries) ELSE Loop(log[p], FALSE)
            m == IF Success(p, Args(p)) THEN log[Leader] ELSE log[p]
<1>1. /\ RecvRpc(Arrived(p, k)) /\ log' = [log EXCEPT ![p] = l.log]
      /\ file' = [file EXCEPT ![p] = IF l.logChanged THEN SerializeAll(l.log) ELSE @]
  BY DEF Handle
<1>2. a = Args(p)
  BY <1>1, ReceivedIsArgs
<1>3. l.log = m /\ l.logChanged = (m # log[p])
  <2>. HIDE DEF a
  <2>1. CASE Success(p, Args(p))
    <3>1. l = Loop(log[Leader], log[Leader] # log[p])
      BY <1>2, <2>1, SuccessCopies
    <3>. HIDE DEF l
    <3>. QED  BY <2>1, <3>1 DEF Loop
  <2>2. CASE ~Success(p, Args(p))
    <3>1. l = Loop(log[p], FALSE) /\ m = log[p]
      BY <1>2, <2>2
    <3>. HIDE DEF l, m
    <3>. QED  BY <3>1 DEF Loop
  <2>. QED  BY <2>1, <2>2
<1>. HIDE DEF l, a
<1>4. /\ log \in [Node -> Seq(EntryType)] /\ file = [n \in Node |-> SerializeAll(log[n])]
      /\ term \in Nat /\ (\A i \in 1..Len(log[Leader]) : log[Leader][i].index = i)
      /\ \A q \in Follower : Starts(log[q], log[Leader])
  BY DEF WireInv, LogsInv
<1>5. Leader \in Node /\ p \in Node /\ p # Leader /\ \A q \in Follower : q \in Node
  BY WireAssumption DEF Node
<1>6. m \in Seq(EntryType) /\ Starts(m, log[Leader]) /\ Len(log[p]) <= Len(m)
  <2>1. log[p] \in Seq(EntryType) /\ log[Leader] \in Seq(EntryType) /\ Starts(log[p], log[Leader])
    BY <1>4, <1>5
  <2>2. Starts(log[Leader], log[Leader]) /\ Len(log[p]) <= Len(log[Leader]) /\ Len(log[p]) <= Len(log[p])
    BY <2>1 DEF Starts
  <2>. QED  BY <2>1, <2>2
<1>7. Success(p, Args(p)) => m = log[Leader]
  OBVIOUS
<1>. HIDE DEF m
<1>8. log'[p] = m /\ \A n \in Node : n # p => log'[n] = log[n]
  BY <1>1, <1>3, <1>4, <1>5
<1>9. log' \in [Node -> Seq(EntryType)]
  <2>. HIDE DEF EntryType
  <2>. QED  BY <1>1, <1>3, <1>4, <1>6
<1>10. file' = [n \in Node |-> SerializeAll(log'[n])]
  <2>1. file'[p] = SerializeAll(m)
    BY <1>1, <1>3, <1>4, <1>5
  <2>2. \A n \in Node : n # p => file'[n] = SerializeAll(log[n])
    BY <1>1, <1>4
  <2>3. file' = [n \in Node |-> file'[n]]
    BY <1>1, <1>4
  <2>4. \A n \in Node : file'[n] = SerializeAll(log'[n])
    BY <1>8, <2>1, <2>2
  <2>. QED  BY <2>3, <2>4
<1>11. log'[Leader] = log[Leader]
  BY <1>5, <1>8
<1>12. \A q \in Follower : Starts(log'[q], log'[Leader])
  BY <1>4, <1>5, <1>6, <1>8, <1>11
<1>13. LogsInv'
  BY <1>4, <1>9, <1>10, <1>11, <1>12 DEF LogsInv
<1>. QED  BY <1>6, <1>7, <1>8, <1>13

\* The logs of followers have grown, and the counters are as before, or count p.
LEMMA CommitKept ==
  ASSUME WireInv, LogsInv', log'[Leader] = log[Leader],
         \A n \in Node : Len(log[n]) <= Len(log'[n]), commitIndex' = commitIndex
  PROVE  /\ commitIndex' \in 0..Len(log'[Leader])
         /\ commitIndex' > 0 => Cardinality({n \in Node : commitIndex' <= Len(log'[n])}) >= Majority
<1>1. /\ commitIndex \in 0..Len(log[Leader])
      /\ commitIndex > 0 => Cardinality({n \in Node : commitIndex <= Len(log[n])}) >= Majority
      /\ log \in [Node -> Seq(EntryType)] /\ log' \in [Node -> Seq(EntryType)]
  BY DEF WireInv, LogsInv, CountInv
<1>. DEFINE A == {n \in Node : commitIndex <= Len(log[n])}
            B == {n \in Node : commitIndex' <= Len(log'[n])}
<1>2. \A n \in Node : Len(log[n]) \in Nat /\ Len(log'[n]) \in Nat
  BY <1>1
<1>3. commitIndex \in Nat
  BY <1>1
<1>4. A \subseteq B /\ B \in SUBSET Node
  BY <1>2, <1>3
<1>. HIDE DEF A, B
<1>5. commitIndex' > 0 => Cardinality(B) >= Majority
  <2>1. commitIndex' > 0 => Cardinality(A) >= Majority
    BY <1>1 DEF A
  <2>. QED  BY <1>4, <2>1, MajorityGrows
<1>. QED  BY <1>1, <1>5 DEF B

LEMMA UncountedInv ==
  ASSUME WireInv, LogsInv', log'[Leader] = log[Leader],
         \A n \in Node : Len(log[n]) <= Len(log'[n]),
         UNCHANGED <<matchIndex, commitIndex>>,
         nextIndex' \in [Follower -> Nat], \A p \in Follower : nextIndex'[p] \in 1 .. Len(log[Leader]) + 1
  PROVE  WireInv'
<1>1. /\ matchIndex \in [Follower -> Nat] /\ \A p \in Follower : matchIndex[p] <= Len(log[p])
      /\ log \in [Node -> Seq(EntryType)] /\ log' \in [Node -> Seq(EntryType)]
  BY DEF WireInv, LogsInv, CountInv
<1>2. \A n \in Node : Len(log[n]) \in Nat /\ Len(log'[n]) \in Nat
  BY <1>1
<1>3. \A p \in Follower : p \in Node
  BY DEF Node
<1>4. \A p \in Follower : matchIndex'[p] <= Len(log'[p])
  <2>1. ASSUME NEW p \in Follower PROVE matchIndex'[p] <= Len(log'[p])
    <3>1. /\ matchIndex'[p] = matchIndex[p] /\ matchIndex[p] \in Nat /\ matchIndex[p] <= Len(log[p])
          /\ Len(log[p]) <= Len(log'[p]) /\ Len(log[p]) \in Nat /\ Len(log'[p]) \in Nat
      BY <1>1, <1>2, <1>3
    <3>. QED  BY <3>1
  <2>. QED  BY <2>1
<1>5. /\ commitIndex' \in 0..Len(log'[Leader])
      /\ commitIndex' > 0 => Cardinality({n \in Node : commitIndex' <= Len(log'[n])}) >= Majority
  BY CommitKept
<1>6. CountInv'
  BY <1>1, <1>4, <1>5 DEF CountInv
<1>. QED  BY <1>6 DEF WireInv

LEMMA CountedInv ==
  ASSUME WireInv, LogsInv', log'[Leader] = log[Leader],
         \A n \in Node : Len(log[n]) <= Len(log'[n]),
         NEW p \in Follower, log'[p] = log[Leader], Count(p)
  PROVE  WireInv'
<1>. DEFINE L == Len(log[Leader])
            match == Max({matchIndex[p], Args(p).prevLogIndex + Len(Args(p).entries)})
            S == {commitIndex} \cup Committable(matchIndex')
<1>1. /\ matchIndex \in [Follower -> Nat] /\ (\A q \in Follower : matchIndex[q] <= Len(log[q]))
      /\ nextIndex \in [Follower -> Nat] /\ (\A q \in Follower : nextIndex[q] \in 1 .. L + 1)
      /\ commitIndex \in 0..L
      /\ log \in [Node -> Seq(EntryType)] /\ log' \in [Node -> Seq(EntryType)]
      /\ \A q \in Follower : Starts(log[q], log[Leader])
      /\ commitIndex > 0 => Cardinality({n \in Node : commitIndex <= Len(log[n])}) >= Majority
  BY DEF WireInv, LogsInv, CountInv
<1>2. /\ matchIndex' = [matchIndex EXCEPT ![p] = match]
      /\ nextIndex' = [nextIndex EXCEPT ![p] = match + 1]
      /\ commitIndex' = Max(S)
  BY DEF Count
<1>3. \A n \in Node : Len(log[n]) \in Nat /\ Len(log'[n]) \in Nat
  BY <1>1
<1>4. Leader \in Node /\ (\A q \in Follower : q \in Node)
  BY DEF Node
<1>5. L \in Nat
  BY <1>3, <1>4
<1>6. match = L
  <2>. DEFINE T == {matchIndex[p], L}
  <2>1. matchIndex[p] \in Nat /\ matchIndex[p] <= L
    BY <1>1, <1>3, <1>4, <1>5 DEF Starts
  <2>2. Args(p).prevLogIndex + Len(Args(p).entries) = L
    BY ArgsTyped
  <2>3. match = Max(T)
    BY <2>2
  <2>4. T \in SUBSET Nat /\ T # {} /\ L \in T /\ \A s \in T : s <= L
    BY <1>5, <2>1
  <2>. HIDE DEF T, L
  <2>5. Max(T) \in T /\ \A s \in T : s <= Max(T)
    BY <1>5, <2>4, MaxOf
  <2>6. Max(T) \in Nat /\ Max(T) <= L /\ L <= Max(T)
    BY <2>4, <2>5
  <2>7. Max(T) = L
    BY <1>5, <2>6
  <2>. QED  BY <2>3, <2>7
<1>. HIDE DEF match
<1>7. /\ matchIndex' \in [Follower -> Nat] /\ nextIndex' \in [Follower -> Nat]
      /\ matchIndex'[p] = L /\ nextIndex'[p] = L + 1
      /\ \A q \in Follower : q # p => matchIndex'[q] = matchIndex[q] /\ nextIndex'[q] = nextIndex[q]
  <2>. HIDE DEF L
  <2>. QED  BY <1>1, <1>2, <1>5, <1>6
<1>8. \A q \in Follower : nextIndex'[q] \in 1 .. Len(log'[Leader]) + 1 /\ matchIndex'[q] <= Len(log'[q])
  <2>1. ASSUME NEW q \in Follower
        PROVE  nextIndex'[q] \in 1 .. Len(log'[Leader]) + 1 /\ matchIndex'[q] <= Len(log'[q])
    <3>1. Len(log'[Leader]) = L
      OBVIOUS
    <3>2. CASE q = p
      <4>1. Len(log'[p]) = L
        OBVIOUS
      <4>. HIDE DEF L
      <4>. QED  BY <1>5, <1>7, <3>1, <3>2, <4>1
    <3>3. CASE q # p
      <4>1. /\ nextIndex'[q] = nextIndex[q] /\ matchIndex'[q] = matchIndex[q]
            /\ nextIndex[q] \in 1 .. L + 1 /\ matchIndex[q] \in Nat /\ matchIndex[q] <= Len(log[q])
        BY <1>1, <1>7, <3>3
      <4>2. Len(log[q]) \in Nat /\ Len(log'[q]) \in Nat /\ Len(log[q]) <= Len(log'[q])
        BY <1>3, <1>4
      <4>. HIDE DEF L
      <4>. QED  BY <3>1, <4>1, <4>2
    <3>. QED  BY <3>2, <3>3
  <2>. QED  BY <2>1
<1>9. commitIndex' \in S /\ S \subseteq 0..L
  <2>1. S \subseteq 0..L
    BY <1>1, <1>5 DEF Committable
  <2>. HIDE DEF S, L
  <2>2. S \in SUBSET Nat /\ \A s \in S : s <= L
    BY <1>5, <2>1
  <2>3. S # {}
    BY DEF S
  <2>4. Max(S) \in S /\ \A s \in S : s <= Max(S)
    BY <1>5, <2>2, <2>3, MaxOf
  <2>. QED  BY <1>2, <2>1, <2>4
<1>10. ASSUME commitIndex' > 0 PROVE Cardinality({n \in Node : commitIndex' <= Len(log'[n])}) >= Majority
  <2>. DEFINE B == {n \in Node : commitIndex' <= Len(log'[n])}
  <2>1. CASE commitIndex' = commitIndex
    BY <1>10, <2>1, CommitKept
  <2>2. CASE commitIndex' # commitIndex
    <3>. DEFINE H == Holding(commitIndex', matchIndex')
    <3>1. commitIndex' \in 1..L /\ Cardinality(H) >= Majority
      <4>1. commitIndex' \in Committable(matchIndex')
        BY <1>9, <2>2
      <4>. QED  BY <4>1 DEF Committable
    <3>2. H \subseteq B
      <4>1. ASSUME NEW n \in H PROVE n \in B
        <5>1. n = Leader \/ (n \in Follower /\ matchIndex'[n] >= commitIndex')
          BY DEF Holding
        <5>2. CASE n = Leader
          <6>1. Len(log'[Leader]) = L
            OBVIOUS
          <6>. HIDE DEF L
          <6>. QED  BY <1>4, <1>5, <3>1, <5>2, <6>1
        <5>3. CASE n \in Follower /\ matchIndex'[n] >= commitIndex'
          <6>1. matchIndex'[n] \in Nat /\ matchIndex'[n] <= Len(log'[n]) /\ n \in Node /\ Len(log'[n]) \in Nat
            BY <1>3, <1>4, <1>7, <1>8, <5>3
          <6>2. commitIndex' \in Nat
            BY <1>5, <3>1
          <6>. QED  BY <5>3, <6>1, <6>2
        <5>. QED  BY <5>1, <5>2, <5>3
      <4>. QED  BY <4>1
    <3>3. B \in SUBSET Node
      OBVIOUS
    <3>. HIDE DEF H, B
    <3>4. Cardinality(B) >= Majority
      BY <3>1, <3>2, <3>3, MajorityGrows
    <3>. QED  BY <3>4 DEF B
  <2>. QED  BY <2>1, <2>2
<1>11. commitIndex' \in 0..Len(log'[Leader])
  BY <1>9
<1>12. CountInv'
  BY <1>7, <1>8, <1>10, <1>11 DEF CountInv
<1>. QED  BY <1>12 DEF WireInv

LEMMA AppendEntriesInv ==
  ASSUME WireInv, NEW p \in Follower, NEW k \in 1..Len(Sent(p)), NEW j \in 0..3, AppendEntries(p, k, j)
  PROVE  WireInv'
<1>. DEFINE ok == Success(p, Received(p, k))
            reply == SubSeq(Rpc(SerializeAppendEntriesReply([term |-> term, success |-> ok])), 1, j)
<1>1. /\ Handle(p, k) /\ term' = term
      /\ \/ ~RecvRpc(reply) /\ UNCHANGED <<nextIndex, matchIndex, commitIndex>>
         \/ RecvRpc(reply) /\ DeserializeAppendEntriesReply(Body(reply)).success /\ Count(p)
         \/ RecvRpc(reply) /\ ~DeserializeAppendEntriesReply(Body(reply)).success /\ BackUp(p)
  BY DEF AppendEntries
<1>2. /\ LogsInv' /\ (\A n \in Node : n # p => log'[n] = log[n])
      /\ (Success(p, Args(p)) => log'[p] = log[Leader])
      /\ Len(log[p]) <= Len(log'[p])
  BY <1>1, HandleInv
<1>3. /\ term \in Nat /\ log \in [Node -> Seq(EntryType)] /\ nextIndex \in [Follower -> Nat]
      /\ \A q \in Follower : nextIndex[q] \in 1 .. Len(log[Leader]) + 1
  BY DEF WireInv, LogsInv, CountInv
<1>4. p # Leader /\ Leader \in Node
  BY WireAssumption DEF Node
<1>5. log'[Leader] = log[Leader] /\ Len(log[Leader]) \in Nat
  BY <1>2, <1>3, <1>4
<1>6. \A n \in Node : Len(log[n]) <= Len(log'[n])
  <2>1. \A n \in Node : Len(log[n]) <= Len(log[n])
    BY <1>3
  <2>. QED  BY <1>2, <2>1
<1>7. ok \in BOOLEAN
  BY DEF Success, PrevMatches
<1>8. ok => Success(p, Args(p))
  <2>1. RecvRpc(Arrived(p, k))
    BY <1>1 DEF Handle
  <2>2. Received(p, k) = Args(p)
    BY <2>1, ReceivedIsArgs
  <2>. QED  BY <2>2
<1>. HIDE DEF ok
<1>9. CASE UNCHANGED <<nextIndex, matchIndex, commitIndex>>
  BY <1>2, <1>3, <1>5, <1>6, <1>9, UncountedInv
<1>10. CASE RecvRpc(reply) /\ DeserializeAppendEntriesReply(Body(reply)).success /\ Count(p)
  <2>1. DeserializeAppendEntriesReply(Body(reply)).success = ok
    BY <1>3, <1>7, <1>10, ReplyIsRead
  <2>2. log'[p] = log[Leader]
    BY <1>2, <1>8, <1>10, <2>1
  <2>. QED  BY <1>2, <1>5, <1>6, <1>10, <2>2, CountedInv
<1>11. CASE BackUp(p)
  <2>1. /\ nextIndex' = [nextIndex EXCEPT ![p] = IF @ > 1 THEN @ - 1 ELSE @]
        /\ UNCHANGED <<matchIndex, commitIndex>>
    BY <1>11 DEF BackUp
  <2>2. nextIndex' \in [Follower -> Nat] /\ \A q \in Follower : nextIndex'[q] \in 1 .. Len(log[Leader]) + 1
    BY <1>3, <1>5, <2>1
  <2>. QED  BY <1>2, <1>5, <1>6, <2>1, <2>2, UncountedInv
<1>. QED  BY <1>1, <1>9, <1>10, <1>11

\* A restart reads what was there.
LEMMA RestartInv ==
  ASSUME WireInv, NEW p \in Follower, Restart(p)
  PROVE  WireInv'
<1>. DEFINE r == DeserializeLogEntry(file[p])
<1>1. /\ log' = [log EXCEPT ![p] = r.logs] /\ file' = [file EXCEPT ![p] = SubSeq(@, 1, r.valid_bytes)]
      /\ UNCHANGED <<term, nextIndex, matchIndex, commitIndex>>
  BY DEF Restart
<1>2. /\ log \in [Node -> Seq(EntryType)] /\ file = [n \in Node |-> SerializeAll(log[n])] /\ p \in Node
  BY DEF WireInv, LogsInv, Node
<1>3. file[p] = SerializeAll(log[p]) /\ log[p] \in Seq(EntryType)
  BY <1>2
<1>. DEFINE s == SerializeAll(log[p])
<1>4. s \in Seq(CellType) /\ r = State(log[p], Len(s))
  BY <1>3, FileIsRead
<1>. HIDE DEF r
<1>5. r.logs = log[p] /\ r.valid_bytes = Len(s)
  BY <1>4 DEF State
<1>6. SubSeq(s, 1, Len(s)) = s
  <2>. HIDE DEF s
  <2>1. Len(s) \in Nat /\ 0 + 1 = 1 /\ 0 + Len(s) = Len(s)
    BY <1>4
  <2>2. Within(s, s, 0)
    BY <1>4, <2>1 DEF Within
  <2>3. SubSeq(s, 0 + 1, 0 + Len(s)) = s
    BY <1>4, <2>2, WithinIsPart
  <2>. QED  BY <2>1, <2>3
<1>7. log' = log /\ file' = file
  <2>1. log' = log
    <3>. HIDE DEF EntryType
    <3>. QED  BY <1>1, <1>2, <1>5
  <2>2. file' = file
    BY <1>1, <1>2, <1>3, <1>5, <1>6
  <2>. QED  BY <2>1, <2>2
<1>. QED  BY <1>1, <1>7 DEF WireInv, LogsInv, CountInv

\* Logs, files and counters, for clients that send what fits.
THEOREM WireInvariant ==
  Fits => (Spec => []WireInv)
<1>. SUFFICES ASSUME Fits PROVE Spec => []WireInv
  OBVIOUS
<1>1. Init => WireInv
  BY InitWireInv
<1>2. WireInv /\ [Next]_vars => WireInv'
  <2>. SUFFICES ASSUME WireInv, [Next]_vars PROVE WireInv'
    OBVIOUS
  <2>1. CASE Elected
    BY <2>1, ElectedInv
  <2>2. ASSUME NEW k \in Sizes, NEW v \in Sizes, Put(k, v) PROVE WireInv'
    BY <2>2, PutInv
  <2>3. ASSUME NEW p \in Follower, NEW k \in 1..Len(Sent(p)), NEW j \in 0..3, AppendEntries(p, k, j)
        PROVE  WireInv'
    BY <2>3, AppendEntriesInv
  <2>4. ASSUME NEW p \in Follower, Restart(p) PROVE WireInv'
    BY <2>4, RestartInv
  <2>5. CASE UNCHANGED vars
    BY <2>5 DEF vars, WireInv, LogsInv, CountInv, Node, Majority
  <2>. QED  BY <2>1, <2>2, <2>3, <2>4, <2>5, Zenon DEF Next
<1>. QED  BY <1>1, <1>2, PTL DEF Spec

-----------------------------------------------------------------------------
(* What follows from it *)

LEMMA InvReadBack ==
  ASSUME WireInv
  PROVE  ReadBack
<1>1. ASSUME NEW n \in Node
      PROVE  DeserializeLogEntry(file[n]) = [logs |-> log[n], valid_bytes |-> Len(file[n])]
  <2>1. log[n] \in Seq(EntryType) /\ file[n] = SerializeAll(log[n])
    BY DEF WireInv, LogsInv
  <2>2. DeserializeLogEntry(SerializeAll(log[n])) = State(log[n], Len(SerializeAll(log[n])))
    BY <2>1, FileIsRead
  <2>. QED  BY <2>1, <2>2 DEF State
<1>. QED  BY <1>1 DEF ReadBack

LEMMA InvTornTail ==
  ASSUME WireInv
  PROVE  TornTailDropped
<1>1. NewEntry \in EntryType
  BY NewEntryIsTyped DEF WireInv, LogsInv
<1>. DEFINE r(n, k) == DeserializeLogEntry(SubSeq(file[n], 1, k))
            appended(n, k) == SubSeq(file[n], 1, r(n, k).valid_bytes) \o SerializeLogEntry(NewEntry)
<1>2. ASSUME NEW n \in Node, NEW k \in 0..Len(file[n])
      PROVE  /\ Len(r(n, k).logs) <= Len(log[n])
             /\ r(n, k).logs = SubSeq(log[n], 1, Len(r(n, k).logs))
             /\ DeserializeLogEntry(appended(n, k)).logs = Append(r(n, k).logs, NewEntry)
  <2>. DEFINE l == log[n]
              data == SerializeAll(l)
              kept(m) == SerializeAll(SubSeq(l, 1, m))
  <2>1. l \in Seq(EntryType) /\ file[n] = data
    BY DEF WireInv, LogsInv
  <2>2. k \in 0..Len(data)
    BY <2>1
  <2>3. PICK m \in 0..Len(l) :
          /\ DeserializeLogEntry(SubSeq(data, 1, k)) = State(SubSeq(l, 1, m), Len(kept(m)))
          /\ SubSeq(data, 1, Len(kept(m))) = kept(m)
    BY <2>1, <2>2, TornIsRead
  <2>. HIDE DEF l, data
  <2>4. m \in Nat /\ m <= Len(l)
    BY <2>1
  <2>. DEFINE pre == SubSeq(l, 1, m)
  <2>5. pre \in Seq(EntryType) /\ Len(pre) = m
    BY <2>1, <2>4, FirstPart
  <2>6. r(n, k) = State(pre, Len(kept(m)))
    BY <2>1, <2>3
  <2>7. r(n, k).logs = pre /\ r(n, k).valid_bytes = Len(kept(m))
    <3>. HIDE DEF r, pre, kept
    <3>. QED  BY <2>6 DEF State
  <2>8. appended(n, k) = SerializeAll(Append(pre, NewEntry))
    <3>1. SubSeq(file[n], 1, r(n, k).valid_bytes) = SerializeAll(pre)
      BY <2>1, <2>3, <2>7
    <3>. HIDE DEF pre, r
    <3>2. SerializeAll(Append(pre, NewEntry)) = SerializeAll(pre) \o SerializeLogEntry(NewEntry)
      BY <1>1, <2>5, SerializeOneMore
    <3>. QED  BY <3>1, <3>2
  <2>. HIDE DEF pre, r, appended, kept
  <2>9. Append(pre, NewEntry) \in Seq(EntryType)
    BY <1>1, <2>5, OneMore
  <2>10. DeserializeLogEntry(appended(n, k)).logs = Append(pre, NewEntry)
    <3>. DEFINE x == Append(pre, NewEntry)
    <3>. HIDE DEF x
    <3>1. x \in Seq(EntryType)
      BY <2>9 DEF x
    <3>2. DeserializeLogEntry(SerializeAll(x)) = State(x, Len(SerializeAll(x)))
      BY <3>1, FileIsRead
    <3>3. DeserializeLogEntry(SerializeAll(x)).logs = x
      BY <3>2 DEF State
    <3>. QED  BY <2>8, <3>3 DEF x
  <2>. QED  BY <2>4, <2>5, <2>7, <2>10 DEF pre, l
<1>. QED  BY <1>2 DEF TornTailDropped

LEMMA InvCounted ==
  ASSUME WireInv
  PROVE  CountedIsHeld
<1>1. ASSUME NEW p \in Follower
      PROVE  /\ matchIndex[p] <= Len(log[p])
             /\ SubSeq(log[p], 1, matchIndex[p]) = SubSeq(log[Leader], 1, matchIndex[p])
  <2>. DEFINE l == log[Leader]
              m == log[p]
              k == matchIndex[p]
  <2>1. /\ l \in Seq(EntryType) /\ m \in Seq(EntryType) /\ Starts(m, l)
        /\ k \in Nat /\ k <= Len(m)
    BY DEF WireInv, LogsInv, CountInv, Node
  <2>. HIDE DEF l, m, k
  <2>2. k <= Len(l) /\ \A i \in 1..k : m[i] = l[i]
    BY <2>1 DEF Starts
  <2>. DEFINE a == SubSeq(m, 1, k)
              b == SubSeq(l, 1, k)
  <2>3. a \in Seq(EntryType) /\ Len(a) = k /\ \A i \in 1..k : a[i] = m[i]
    BY <2>1, FirstPart
  <2>4. b \in Seq(EntryType) /\ Len(b) = k /\ \A i \in 1..k : b[i] = l[i]
    BY <2>1, <2>2, FirstPart
  <2>. HIDE DEF a, b
  <2>5. a = b
    BY <2>2, <2>3, <2>4, SeqEqual
  <2>. QED  BY <2>1, <2>5 DEF a, b, l, m, k
<1>. QED  BY <1>1 DEF CountedIsHeld

LEMMA InvCommitted ==
  ASSUME WireInv
  PROVE  CommittedIsHeld
<1>1. ASSUME NEW i \in 1..commitIndex
      PROVE  Cardinality({n \in Node : Len(log[n]) >= i /\ log[n][i] = log[Leader][i]}) >= Majority
  <2>. DEFINE A == {n \in Node : commitIndex <= Len(log[n])}
              B == {n \in Node : Len(log[n]) >= i /\ log[n][i] = log[Leader][i]}
  <2>1. /\ commitIndex \in 0..Len(log[Leader]) /\ log \in [Node -> Seq(EntryType)]
        /\ \A p \in Follower : Starts(log[p], log[Leader])
        /\ commitIndex > 0 => Cardinality(A) >= Majority
    BY DEF WireInv, LogsInv, CountInv
  <2>2. Leader \in Node /\ \A n \in Node : n = Leader \/ n \in Follower
    BY DEF Node
  <2>3. commitIndex \in Nat /\ commitIndex > 0
    BY <2>1, <2>2
  <2>4. ASSUME NEW n \in A PROVE n \in B
    <3>1. n \in Node /\ commitIndex <= Len(log[n]) /\ Len(log[n]) \in Nat
      BY <2>1
    <3>2. i \in 1..Len(log[n]) /\ Len(log[n]) >= i
      BY <2>3, <3>1
    <3>3. log[n][i] = log[Leader][i]
      BY <2>1, <2>2, <3>1, <3>2 DEF Starts
    <3>. QED  BY <3>1, <3>2, <3>3
  <2>5. A \subseteq B /\ B \in SUBSET Node
    BY <2>4
  <2>. HIDE DEF A, B
  <2>6. Cardinality(B) >= Majority
    BY <2>1, <2>3, <2>5, MajorityGrows
  <2>. QED  BY <2>6 DEF B
<1>. QED  BY <1>1 DEF CommittedIsHeld

LEMMA InvLoop ==
  ASSUME WireInv
  PROVE  LoopIsReconcile
<1>1. ASSUME NEW p \in Follower, NEW es \in Requests(log[p])
      PROVE  AppendLoop(log[p], es) = Loop(Reconcile(log[p], es), Reconcile(log[p], es) # log[p])
  <2>1. term \in Nat /\ log[p] \in Seq(EntryType)
    BY DEF WireInv, LogsInv, Node
  <2>2. PICK prev \in Nat : es \in Seq(EntryType) /\ Follows(es, prev, log[p])
    BY <2>1, RequestFollows
  <2>. QED  BY <2>1, <2>2, LoopReconciles
<1>. QED  BY <1>1 DEF LoopIsReconcile

LEMMA InvKeeps ==
  ASSUME WireInv
  PROVE  KeepsAgreed
<1>. DEFINE m(p, es) == AppendLoop(log[p], es).log
            conflicts(p, es) ==
              {k \in 1..Len(es) : Held(log[p], es[k]) /\ log[p][es[k].index].term # es[k].term}
<1>1. ASSUME NEW p \in Follower, NEW es \in Requests(log[p])
      PROVE  /\ \A k \in 1..Len(es) : Held(m(p, es), es[k]) /\ m(p, es)[es[k].index].term = es[k].term
             /\ \A i \in 1..Len(log[p]) :
                  (\A k \in 1..Len(es) : i < es[k].index) => m(p, es)[i] = log[p][i]
             /\ conflicts(p, es) = {} => SubSeq(m(p, es), 1, Len(log[p])) = log[p]
  <2>. DEFINE l == log[p]
              r == Reconcile(l, es)
  <2>1. term \in Nat /\ l \in Seq(EntryType)
    BY DEF WireInv, LogsInv, Node
  <2>2. PICK prev \in Nat : es \in Seq(EntryType) /\ Follows(es, prev, l)
    BY <2>1, RequestFollows
  <2>. HIDE DEF l
  <2>3. AppendLoop(l, es) = Loop(r, r # l)
    BY <2>1, <2>2, LoopReconciles
  <2>4. m(p, es) = r
    <3>. HIDE DEF r
    <3>. QED  BY <2>3 DEF Loop, l
  <2>5. /\ r \in Seq(EntryType) /\ prev + Len(es) <= Len(r)
        /\ (\A i \in 1..prev : r[i] = l[i])
        /\ (\A k \in 1..Len(es) : r[prev + k].term = es[k].term)
        /\ \/ \E k \in 1..Len(es) : prev + k <= Len(l) /\ l[prev + k].term # es[k].term
           \/ Len(l) <= Len(r) /\ \A i \in 1..Len(l) : r[i] = l[i]
    BY <2>1, <2>2, ReconcileKeeps
  <2>. HIDE DEF r, m
  <2>6. /\ prev <= Len(l) /\ Len(es) \in Nat /\ Len(l) \in Nat /\ Len(r) \in Nat
        /\ \A k \in 1..Len(es) : es[k].index = prev + k
    BY <2>1, <2>2, <2>5 DEF Follows
  <2>7. \A k \in 1..Len(es) : Held(r, es[k]) /\ r[es[k].index].term = es[k].term
    BY <2>5, <2>6 DEF Held
  <2>8. ASSUME NEW i \in 1..Len(l), \A k \in 1..Len(es) : i < es[k].index PROVE r[i] = l[i]
    <3>1. CASE Len(es) = 0
      <4>1. ~\E k \in 1..Len(es) : prev + k <= Len(l) /\ l[prev + k].term # es[k].term
        BY <3>1
      <4>. QED  BY <2>5, <4>1
    <3>2. CASE Len(es) # 0
      <4>1. 1 \in 1..Len(es)
        BY <2>6, <3>2
      <4>2. i < prev + 1
        BY <2>6, <2>8, <4>1
      <4>3. i \in 1..prev
        BY <2>6, <4>2
      <4>. QED  BY <2>5, <4>3
    <3>. QED  BY <3>1, <3>2
  <2>9. ASSUME conflicts(p, es) = {} PROVE SubSeq(r, 1, Len(l)) = l
    <3>1. ~\E k \in 1..Len(es) : prev + k <= Len(l) /\ l[prev + k].term # es[k].term
      <4>1. ASSUME NEW k \in 1..Len(es), prev + k <= Len(l), l[prev + k].term # es[k].term PROVE FALSE
        <5>1. k \in conflicts(p, es)
          BY <2>6, <4>1 DEF Held, l
        <5>. QED  BY <2>9, <5>1
      <4>. QED  BY <4>1
    <3>2. Len(l) <= Len(r) /\ \A i \in 1..Len(l) : r[i] = l[i]
      BY <2>5, <3>1
    <3>. DEFINE a == SubSeq(r, 1, Len(l))
    <3>3. a \in Seq(EntryType) /\ Len(a) = Len(l) /\ \A i \in 1..Len(l) : a[i] = r[i]
      BY <2>5, <2>6, <3>2, FirstPart
    <3>. HIDE DEF a
    <3>4. a = l
      BY <2>1, <3>2, <3>3, SeqEqual
    <3>. QED  BY <3>4 DEF a
  <2>. QED  BY <2>4, <2>7, <2>8, <2>9 DEF l
<1>. QED  BY <1>1 DEF KeepsAgreed

\* A file that was not cut gives the log, whatever its commands.
THEOREM FilesReadBack ==
  Fits => (Spec => []ReadBack)
<1>1. WireInv => ReadBack
  BY InvReadBack
<1>. QED  BY <1>1, WireInvariant, PTL

\* A file cut anywhere gives the entries that were whole, and takes new ones.
THEOREM TornTailsAreDropped ==
  Fits => (Spec => []TornTailDropped)
<1>1. WireInv => TornTailDropped
  BY InvTornTail
<1>. QED  BY <1>1, WireInvariant, PTL

\* Whatever connections lose, what the leader counts is in the follower's log.
THEOREM CountedAreHeld ==
  Fits => (Spec => []CountedIsHeld)
<1>1. WireInv => CountedIsHeld
  BY InvCounted
<1>. QED  BY <1>1, WireInvariant, PTL

\* What the run with overlong commands refutes holds of clients that send what fits.
THEOREM CommittedAreHeld ==
  Fits => (Spec => []CommittedIsHeld)
<1>1. WireInv => CommittedIsHeld
  BY InvCommitted
<1>. QED  BY <1>1, WireInvariant, PTL

\* The loop of handleAppendEntries is Reconcile, in the log and in logChanged.
THEOREM LoopReconciliation ==
  Fits => (Spec => []LoopIsReconcile)
<1>1. WireInv => LoopIsReconcile
  BY InvLoop
<1>. QED  BY <1>1, WireInvariant, PTL

\* A late request takes nothing back that it does not conflict with.
THEOREM AgreedIsKept ==
  Fits => (Spec => []KeepsAgreed)
<1>1. WireInv => KeepsAgreed
  BY InvKeeps
<1>. QED  BY <1>1, WireInvariant, PTL
=============================================================================
