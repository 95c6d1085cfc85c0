---------------------------- MODULE StorageProofs ----------------------------
(***************************************************************************)
(* What holds of module Storage for any values, sizes of records and       *)
(* bounds, while at most one power loss comes between two appends that     *)
(* succeed: the file is a chain of records with a clean rest behind it,    *)
(* reads return the log, and the file implements AbstractLog.              *)
(***************************************************************************)
EXTENDS Storage, TLAPS, SequenceTheorems, WellFoundedInduction

\* A non-empty set of numbers has a smallest one.
LEMMA Smallest ==
    ASSUME NEW S \in SUBSET Nat, S # {}
    PROVE  \E n \in S : \A m \in S : n <= m
<1> DEFINE R == OpToRel(<, Nat)
<1>1. IsWellFoundedOn(R, Nat)
  BY NatLessThanWellFounded
<1> HIDE DEF R
<1>2. PICK n \in S : \A m \in S : ~(<<m, n>> \in R)
  BY <1>1, WFMin
<1>3. \A x, y \in Nat : x < y => <<x, y>> \in R
  BY DEF R, OpToRel
<1>4. \A m \in S : n <= m
  <2> TAKE m \in S
  <2>1. ~(m < n)
    BY <1>2, <1>3, Zenon
  <2> QED BY <2>1
<1> QED BY <1>4

\* Induction up to n, and down from n, as a statement about a set.
LEMMA UpTo ==
    ASSUME NEW n \in Nat, NEW S, 0 \in S, \A k \in 0..n-1 : k + 1 \in S \/ k \notin S
    PROVE  0..n \subseteq S
<1> DEFINE Bad == {k \in 0..n : k \notin S}
<1> SUFFICES ASSUME Bad # {} PROVE FALSE
  OBVIOUS
<1>1. PICK k \in Bad : \A m \in Bad : k <= m
  <2>1. Bad \in SUBSET Nat
    OBVIOUS
  <2> HIDE DEF Bad
  <2> QED BY <2>1, Smallest
<1>2. k # 0 /\ k \in 0..n /\ k \notin S
  OBVIOUS
<1>3. k - 1 \in 0..n-1 /\ k - 1 \in 0..n /\ ~(k <= k - 1) /\ (k - 1) + 1 = k
  BY <1>2
<1>4. k - 1 \in S
  BY <1>1, <1>3
<1> QED BY <1>2, <1>3, <1>4

\* The same, down from n.
LEMMA DownTo ==
    ASSUME NEW n \in Nat, NEW S, n \in S, \A k \in 0..n-1 : k + 1 \in S => k \in S
    PROVE  0..n \subseteq S
<1> DEFINE T == {k \in 0..n : n - k \in S}
<1>1. 0 \in T
  OBVIOUS
<1>2. ASSUME NEW k \in 0..n-1
      PROVE  k + 1 \in T \/ k \notin T
  <2>1. n - (k + 1) \in 0..n-1 /\ (n - (k + 1)) + 1 = n - k /\ k + 1 \in 0..n
    OBVIOUS
  <2> QED BY <2>1
<1>3. 0..n \subseteq T
  <2> HIDE DEF T
  <2> QED BY <1>1, <1>2, UpTo
<1>4. \A k \in 0..n : n - k \in 0..n /\ n - (n - k) = k
  OBVIOUS
<1> QED BY <1>3, <1>4

\* A record takes at least one cell and ends within the file.
LEMMA RecordFits ==
    ASSUME NEW f \in Seq(Content), NEW pos \in Nat, IsRecord(f, pos)
    PROVE  LET r == RecordOf(f, pos)
           IN  /\ r.off \in Nat /\ r.val \in Value /\ r.at = pos
               /\ Size[r.val] \in Nat \ {0}
               /\ pos + 1 \in 1..Len(f) /\ pos + Size[r.val] \in pos+1..Len(f)
               /\ f[pos + 1] = <<r.off, r.val, 1>>
<1>1. pos + 1 <= Len(f)
  BY DEF IsRecord, Cell
<1>2. f[pos + 1] \in Nat \X Value \X (Nat \ {0})
  BY <1>1 DEF IsRecord, Cell, Content
<1>3. Size[f[pos + 1][2]] \in Nat \ {0} /\ f[pos + 1][2] \in Value /\ f[pos + 1][1] \in Nat
  BY <1>2, SizeAssumption
<1>4. pos + Size[f[pos + 1][2]] <= Len(f)
  BY <1>1 DEF IsRecord, Cell
<1>5. f[pos + 1] = <<f[pos + 1][1], f[pos + 1][2], 1>>
  BY <1>1, <1>3 DEF IsRecord, Cell
<1> QED BY <1>1, <1>3, <1>4, <1>5 DEF RecordOf

-----------------------------------------------------------------------------
(***************************************************************************)
(* What a scan returns                                                     *)
(***************************************************************************)
Kept(f, pos, o) ==
    IF RecordOf(f, pos).off < o THEN << >> ELSE <<RecordOf(f, pos)>>

\* g is a scan of f from k on.
ScanOf(f, o, k, g) ==
    g = [pos \in k..Len(f) |->
            IF IsRecord(f, pos) THEN Kept(f, pos, o) \o g[After(f, pos)] ELSE << >>]

\* A scan of what lies behind a position gives a scan from that position.
LEMMA ScanExtends ==
    ASSUME NEW f \in Seq(Content), NEW o, NEW k \in Nat, k <= Len(f),
           NEW g, ScanOf(f, o, k + 1, g)
    PROVE  \E h : ScanOf(f, o, k, h)
<1> DEFINE first == IF IsRecord(f, k) THEN Kept(f, k, o) \o g[After(f, k)] ELSE << >>
           h == [pos \in k..Len(f) |-> IF pos = k THEN first ELSE g[pos]]
<1>l. Len(f) \in Nat
  OBVIOUS
<1>1. ASSUME NEW pos \in k..Len(f), IsRecord(f, pos)
      PROVE  After(f, pos) \in k+1..Len(f) /\ h[After(f, pos)] = g[After(f, pos)]
  <2>1. pos \in Nat
    BY <1>l
  <2>2. After(f, pos) \in pos+1..Len(f)
    BY <1>1, <2>1, RecordFits DEF After
  <2>3. After(f, pos) \in k+1..Len(f)
    BY <1>l, <2>1, <2>2
  <2> HIDE DEF first
  <2> QED BY <1>l, <2>3
<1>2. ASSUME NEW pos \in k..Len(f)
      PROVE  h[pos] = IF IsRecord(f, pos) THEN Kept(f, pos, o) \o h[After(f, pos)] ELSE << >>
  <2>1. CASE pos = k
    BY <1>1, <2>1
  <2>2. CASE pos # k
    <3>1. pos \in k+1..Len(f) /\ h[pos] = g[pos]
      BY <1>l, <2>2
    <3>2. g[pos] = IF IsRecord(f, pos) THEN Kept(f, pos, o) \o g[After(f, pos)] ELSE << >>
      BY <3>1 DEF ScanOf
    <3> HIDE DEF h
    <3> QED BY <1>1, <3>1, <3>2
  <2> QED BY <2>1, <2>2
<1>3. h = [pos \in k..Len(f) |-> h[pos]]
  OBVIOUS
<1> HIDE DEF h
<1>4. ScanOf(f, o, k, h)
  BY <1>2, <1>3 DEF ScanOf
<1> QED BY <1>4

\* So a scan that starts anywhere in a file exists: the definition of ScanFrom, a
\* recursive function, describes one.
LEMMA ScanExists ==
    ASSUME NEW f \in Seq(Content), NEW o, NEW k \in 0..Len(f)+1
    PROVE  \E g : ScanOf(f, o, k, g)
<1> DEFINE Bad == {m \in 0..Len(f)+1 : ~\E g : ScanOf(f, o, Len(f) + 1 - m, g)}
<1>l. Len(f) \in Nat
  OBVIOUS
<1>1. Bad = {}
  <2> SUFFICES ASSUME Bad # {} PROVE FALSE
    OBVIOUS
  <2>1. Bad \in SUBSET Nat
    BY <1>l
  <2>2. PICK m \in Bad : \A i \in Bad : m <= i
    <3> HIDE DEF Bad
    <3> QED BY <2>1, Smallest
  <2>3. m \in 0..Len(f)+1 /\ ~\E g : ScanOf(f, o, Len(f) + 1 - m, g)
    OBVIOUS
  <2>4. m # 0
    <3> SUFFICES ASSUME m = 0 PROVE FALSE
      OBVIOUS
    <3>1. Len(f) + 1 - m = Len(f) + 1
      BY <1>l
    <3>2. ScanOf(f, o, Len(f) + 1, [pos \in Len(f)+1..Len(f) |-> << >>])
      <4>1. Len(f)+1..Len(f) = {}
        BY <1>l
      <4> QED BY <4>1 DEF ScanOf
    <3> QED BY <2>3, <3>1, <3>2
  <2>5. m - 1 \in 0..Len(f)+1 /\ ~(m <= m - 1)
    BY <1>l, <2>3, <2>4
  <2>6. PICK g : ScanOf(f, o, Len(f) + 1 - (m - 1), g)
    BY <2>2, <2>5
  <2> DEFINE j == Len(f) + 1 - m
  <2>7. j \in Nat /\ j <= Len(f) /\ Len(f) + 1 - (m - 1) = j + 1
    BY <1>l, <2>3, <2>4
  <2> HIDE DEF j
  <2>8. \E h : ScanOf(f, o, j, h)
    BY <2>6, <2>7, ScanExtends
  <2> QED BY <2>3, <2>8 DEF j
<1>2. Len(f) + 1 - k \in 0..Len(f)+1 /\ Len(f) + 1 - (Len(f) + 1 - k) = k
  BY <1>l
<1> QED BY <1>1, <1>2

\* A scan goes on behind the record it finds, and ends where there is none.
LEMMA ScanUnfolds ==
    ASSUME NEW f \in Seq(Content), NEW o, NEW pos \in 0..Len(f)
    PROVE  ScanFrom(f, o)[pos] =
             IF IsRecord(f, pos)
             THEN Kept(f, pos, o) \o ScanFrom(f, o)[After(f, pos)]
             ELSE << >>
<1>1. \E g : ScanOf(f, o, 0, g)
  <2>1. Len(f) \in Nat
    OBVIOUS
  <2>2. 0 \in 0..Len(f)+1
    BY <2>1
  <2> QED BY <2>2, ScanExists
<1>2. ScanFrom(f, o) = CHOOSE g : ScanOf(f, o, 0, g)
  BY DEF ScanFrom, ScanOf, Kept, After
<1>3. ScanOf(f, o, 0, ScanFrom(f, o))
  BY <1>1, <1>2
<1> QED BY <1>3 DEF ScanOf

-----------------------------------------------------------------------------
(***************************************************************************)
(* Chains of records                                                       *)
(***************************************************************************)
\* Every record of a chain lies behind the one before it, within the file.
LEMMA ChainStep ==
    ASSUME NEW f \in Seq(Content), NEW p \in [Nat -> Nat], NEW n \in Nat,
           Chain(f, p, n), NEW i \in 0..n-1
    PROVE  /\ IsRecord(f, p[i]) /\ p[i + 1] = After(f, p[i])
           /\ RecordOf(f, p[i]).off = i /\ RecordOf(f, p[i]).val \in Value
           /\ Size[RecordOf(f, p[i]).val] = p[i + 1] - p[i]
           /\ p[i] < p[i + 1] /\ p[i + 1] <= Len(f)
           /\ f[p[i] + 1] = <<i, RecordOf(f, p[i]).val, 1>>
<1>1. p[i] \in Nat /\ IsRecord(f, p[i]) /\ RecordOf(f, p[i]).off = i /\ p[i + 1] = After(f, p[i])
  BY DEF Chain
<1> DEFINE r == RecordOf(f, p[i])
<1>2. r.val \in Value /\ Size[r.val] \in Nat \ {0} /\ p[i] + Size[r.val] \in p[i]+1..Len(f)
      /\ f[p[i] + 1] = <<r.off, r.val, 1>>
  BY <1>1, RecordFits
<1>3. p[i + 1] = p[i] + Size[r.val]
  BY <1>1 DEF After
<1> HIDE DEF r
<1>4. Len(f) \in Nat
  OBVIOUS
<1> DEFINE w == Size[r.val]
           a == p[i]
           b == p[i + 1]
<1>5. w = b - a /\ a < b /\ b <= Len(f)
  <2>1. w \in Nat \ {0} /\ a + w \in a+1..Len(f)
    BY <1>2
  <2>2. a \in Nat /\ b = a + w
    BY <1>1, <1>3
  <2> HIDE DEF w, a, b
  <2> QED BY <1>4, <2>1, <2>2
<1> QED BY <1>1, <1>2, <1>5 DEF r

\* The positions of a chain grow, and stay within the file.
LEMMA ChainGrows ==
    ASSUME NEW f \in Seq(Content), NEW p \in [Nat -> Nat], NEW n \in Nat,
           Chain(f, p, n)
    PROVE  /\ \A i \in 0..n : p[i] <= p[n] /\ p[i] <= Len(f)
           /\ \A i \in 0..n-1 : p[i] < p[n]
<1> DEFINE Good == {i \in 0..n : p[i] <= p[n] /\ (i < n => p[i] < p[n])}
<1>1. n \in Good
  OBVIOUS
<1>2. ASSUME NEW k \in 0..n-1, k + 1 \in Good
      PROVE  k \in Good
  <2>1. p[k + 1] <= p[n]
    BY <1>2
  <2>2. p[k] < p[k + 1]
    BY ChainStep
  <2>3. p[k] \in Nat /\ p[k + 1] \in Nat /\ p[n] \in Nat
    <3>1. k \in Nat /\ k + 1 \in Nat
      OBVIOUS
    <3> QED BY <3>1
  <2>4. p[k] < p[n]
    BY <2>1, <2>2, <2>3
  <2> QED BY <2>3, <2>4
<1>3. 0..n \subseteq Good
  <2> HIDE DEF Good
  <2> QED BY <1>1, <1>2, DownTo
<1>4. p[n] <= Len(f)
  <2>1. CASE n = 0
    BY <2>1 DEF Chain
  <2>2. CASE n # 0
    <3>1. n - 1 \in 0..n-1 /\ (n - 1) + 1 = n
      BY <2>2
    <3> QED BY <3>1, ChainStep, ZenonT(30)
  <2> QED BY <2>1, <2>2
<1>5. Len(f) \in Nat /\ p[n] \in Nat
  OBVIOUS
<1>6. ASSUME NEW i \in 0..n
      PROVE  p[i] <= p[n] /\ p[i] <= Len(f) /\ (i < n => p[i] < p[n])
  <2>1. p[i] \in Nat /\ p[i] <= p[n] /\ (i < n => p[i] < p[n])
    BY <1>3, SMTT(30)
  <2> QED BY <1>4, <1>5, <2>1
<1>7. \A i \in 0..n-1 : i \in 0..n /\ i < n
  OBVIOUS
<1> QED BY <1>6, <1>7

\* A function on 1..n is a sequence of length n.
LEMMA FunctionIsSequence ==
    ASSUME NEW S, NEW n \in Nat, NEW s \in [1..n -> S]
    PROVE  s \in Seq(S) /\ Len(s) = n
<1>1. s \in Seq(S)
  BY SeqDef
<1>2. DOMAIN s = 1..n /\ DOMAIN s = 1..Len(s) /\ Len(s) \in Nat
  BY <1>1, LenProperties
<1> QED BY <1>1, <1>2

-----------------------------------------------------------------------------
\* The records i to n-1 of a chain.
Recs(f, p, i, n) == [k \in 1..n-i |-> RecordOf(f, p[i + k - 1])]

Found(f) == {RecordOf(f, pos) : pos \in Nat}

\* The records i to n-1 of a chain are a sequence of n - i records.
LEMMA RecsType ==
    ASSUME NEW f, NEW p \in [Nat -> Nat], NEW n \in Nat, NEW i \in 0..n
    PROVE  Recs(f, p, i, n) \in Seq(Found(f)) /\ Len(Recs(f, p, i, n)) = n - i
<1>1. \A k \in 1..n-i : i + k - 1 \in Nat /\ p[i + k - 1] \in Nat
  <2> TAKE k \in 1..n-i
  <2>1. i + k - 1 \in Nat
    OBVIOUS
  <2> QED BY <2>1
<1>2. Recs(f, p, i, n) \in [1..n-i -> Found(f)]
  BY <1>1 DEF Recs, Found
<1>3. n - i \in Nat
  OBVIOUS
<1> QED BY <1>2, <1>3, FunctionIsSequence

\* A chain's records are the first of them, then the rest.
LEMMA RecsUnfold ==
    ASSUME NEW f, NEW p \in [Nat -> Nat], NEW n \in Nat, NEW i \in 0..n-1
    PROVE  <<RecordOf(f, p[i])>> \o Recs(f, p, i + 1, n) = Recs(f, p, i, n)
<1> DEFINE one == <<RecordOf(f, p[i])>>
           rest == Recs(f, p, i + 1, n)
           all == Recs(f, p, i, n)
           S == Found(f)
<1>1. i \in Nat /\ i \in 0..n /\ i + 1 \in 0..n
  OBVIOUS
<1>2. rest \in Seq(S) /\ Len(rest) = n - (i + 1) /\ all \in Seq(S) /\ Len(all) = n - i
  BY <1>1, RecsType
<1>3. RecordOf(f, p[i]) \in S
  <2>1. p[i] \in Nat
    BY <1>1
  <2> QED BY <2>1 DEF Found
<1>4. one \in Seq(S) /\ Len(one) = 1 /\ one[1] = RecordOf(f, p[i])
  <2> HIDE DEF S
  <2> QED BY <1>3
<1>5. /\ one \o rest \in Seq(S)
      /\ Len(one \o rest) = Len(one) + Len(rest)
      /\ \A k \in 1..Len(one)+Len(rest) :
            (one \o rest)[k] = IF k <= Len(one) THEN one[k] ELSE rest[k - Len(one)]
  <2> HIDE DEF one, rest, S
  <2> QED BY <1>2, <1>4, ConcatProperties
<1>6. Len(one \o rest) = n - i
  <2> HIDE DEF one, rest
  <2> QED BY <1>2, <1>4, <1>5
<1>7. ASSUME NEW k \in 1..n-i
      PROVE  (one \o rest)[k] = all[k]
  <2>1. (one \o rest)[k] = IF k <= 1 THEN one[1] ELSE rest[k - 1]
    <3>1. k \in 1..Len(one)+Len(rest) /\ (k <= 1 => k = 1)
      <4> HIDE DEF one, rest
      <4> QED BY <1>2, <1>4
    <3> HIDE DEF one, rest
    <3> QED BY <1>4, <1>5, <3>1
  <2>2. all[k] = RecordOf(f, p[i + k - 1])
    BY DEF Recs
  <2>3. CASE k = 1
    <3>1. i + k - 1 = i /\ k <= 1
      BY <1>1, <2>3
    <3> HIDE DEF one, rest, all
    <3> QED BY <1>4, <2>1, <2>2, <3>1
  <2>4. CASE k # 1
    <3>1. k - 1 \in 1..n-(i+1) /\ ~(k <= 1)
      BY <1>1, <2>4
    <3>2. rest[k - 1] = RecordOf(f, p[(i + 1) + (k - 1) - 1])
      BY <3>1 DEF Recs
    <3>3. (i + 1) + (k - 1) - 1 = i + k - 1
      BY <1>1
    <3> HIDE DEF one, rest, all
    <3> QED BY <2>1, <2>2, <3>1, <3>2, <3>3
  <2> QED BY <2>3, <2>4
<1>8. \A k \in 1..Len(one \o rest) : (one \o rest)[k] = all[k]
  <2> HIDE DEF one, rest, all
  <2> QED BY <1>6, <1>7
<1>9. one \o rest = all
  <2>1. Len(one \o rest) = Len(all) /\ one \o rest \in Seq(S) /\ all \in Seq(S)
    BY <1>2, <1>5, <1>6
  <2> HIDE DEF one, rest, all, S
  <2> QED BY <1>8, <2>1, SeqEqual
<1> QED BY <1>9

\* A scan that starts at record i of a chain returns the records from there to
\* the last, if no record follows it.
LEMMA ScanChain ==
    ASSUME NEW f \in Seq(Content), NEW p \in [Nat -> Nat], NEW n \in Nat,
           Chain(f, p, n), ~IsRecord(f, p[n]), NEW o \in 0..n
    PROVE  \A i \in o..n : ScanFrom(f, o)[p[i]] = Recs(f, p, i, n)
<1> DEFINE Good == {i \in 0..n : i >= o => ScanFrom(f, o)[p[i]] = Recs(f, p, i, n)}
<1>1. ASSUME NEW i \in 0..n
      PROVE  p[i] \in 0..Len(f)
  <2>1. p[i] <= Len(f)
    BY ChainGrows
  <2>2. i \in Nat /\ p[i] \in Nat /\ Len(f) \in Nat
    BY SMTT(30)
  <2> QED BY <2>1, <2>2
<1>2. n \in Good
  <2>1. n \in 0..n /\ n - n = 0
    OBVIOUS
  <2>2. ScanFrom(f, o)[p[n]] = << >>
    BY <1>1, <2>1, ScanUnfolds
  <2>3. Recs(f, p, n, n) \in Seq(Found(f)) /\ Len(Recs(f, p, n, n)) = 0
    BY <2>1, RecsType
  <2>4. Recs(f, p, n, n) = << >>
    BY <2>3, EmptySeq
  <2> QED BY <2>1, <2>2, <2>4
<1>3. ASSUME NEW i \in 0..n-1, i + 1 \in Good
      PROVE  i \in Good
  <2> SUFFICES ASSUME i >= o PROVE ScanFrom(f, o)[p[i]] = Recs(f, p, i, n)
    OBVIOUS
  <2>1. i + 1 >= o /\ i \in 0..n
    OBVIOUS
  <2>2. ScanFrom(f, o)[p[i + 1]] = Recs(f, p, i + 1, n)
    BY <1>3, <2>1
  <2>3. IsRecord(f, p[i]) /\ RecordOf(f, p[i]).off = i /\ p[i + 1] = After(f, p[i])
    BY DEF Chain
  <2>4. ~(RecordOf(f, p[i]).off < o)
    BY <2>3
  <2>5. Kept(f, p[i], o) = <<RecordOf(f, p[i])>>
    BY <2>4 DEF Kept
  <2>6. ScanFrom(f, o)[p[i]] = Kept(f, p[i], o) \o ScanFrom(f, o)[After(f, p[i])]
    BY <1>1, <2>1, <2>3, ScanUnfolds
  <2>7. ScanFrom(f, o)[p[i]] = <<RecordOf(f, p[i])>> \o Recs(f, p, i + 1, n)
    BY <2>2, <2>3, <2>5, <2>6
  <2> QED BY <2>7, RecsUnfold
<1>4. 0..n \subseteq Good
  <2> HIDE DEF Good
  <2> QED BY <1>2, <1>3, DownTo
<1>5. \A i \in o..n : i \in 0..n /\ i >= o
  OBVIOUS
<1> QED BY <1>4, <1>5

\* It ends where that record ends.
LEMMA ScanEndChain ==
    ASSUME NEW f \in Seq(Content), NEW p \in [Nat -> Nat], NEW n \in Nat,
           Chain(f, p, n), ~IsRecord(f, p[n]), NEW i \in 0..n
    PROVE  ScanEnd(f, p[i]) = p[n]
<1>1. 0 \in 0..n /\ i \in 0..n /\ n - i \in Nat
  OBVIOUS
<1>2. Scan(f)[p[i]] = Recs(f, p, i, n)
  BY <1>1, ScanChain DEF Scan
<1>3. Recs(f, p, i, n) \in Seq(Found(f)) /\ Len(Recs(f, p, i, n)) = n - i
  BY RecsType
<1>4. CASE i = n
  <2>1. Recs(f, p, i, n) = << >>
    BY <1>3, <1>4, EmptySeq
  <2> QED BY <1>2, <1>4, <2>1 DEF ScanEnd
<1>5. CASE i # n
  <2>1. n - i \in 1..n-i /\ n - 1 \in 0..n-1 /\ i + (n - i) - 1 = n - 1 /\ (n - 1) + 1 = n
    BY <1>5
  <2>2. Recs(f, p, i, n)[n - i] = RecordOf(f, p[n - 1])
    BY <2>1 DEF Recs
  <2>3. Recs(f, p, i, n) # << >>
    BY <1>3, <2>1, EmptySeq
  <2>4. p[n] = After(f, p[n - 1])
    BY <2>1 DEF Chain
  <2>5. RecordOf(f, p[n - 1]).at = p[n - 1]
    BY DEF RecordOf
  <2> QED BY <1>2, <1>3, <2>2, <2>3, <2>4, <2>5 DEF ScanEnd, After
<1> QED BY <1>4, <1>5

-----------------------------------------------------------------------------
(***************************************************************************)
(* What can be behind a chain                                              *)
(***************************************************************************)
\* A record begins with the first cell of one.
LEMMA RecordStarts ==
    ASSUME NEW f \in Seq(Content), NEW pos \in Nat, IsRecord(f, pos)
    PROVE  pos + 1 \in 1..Len(f) /\ Starts(f[pos + 1])
<1>1. pos + 1 \in 1..Len(f) /\ f[pos + 1] = <<RecordOf(f, pos).off, RecordOf(f, pos).val, 1>>
  BY RecordFits
<1>2. f[pos + 1] # Hole
  BY <1>1 DEF IsRecord, Cell
<1> QED BY <1>1, <1>2 DEF Starts

\* Whether there is a record, and which, depends on its cells only.
LEMMA RecordAgrees ==
    ASSUME NEW f \in Seq(Content), NEW g \in Seq(Content), NEW pos \in Nat,
           IsRecord(f, pos), After(f, pos) <= Len(g),
           \A j \in pos+1..After(f, pos) : g[j] = f[j]
    PROVE  IsRecord(g, pos) /\ RecordOf(g, pos) = RecordOf(f, pos)
<1> DEFINE w == Size[RecordOf(f, pos).val]
<1>1. w \in Nat \ {0} /\ pos + w \in pos+1..Len(f) /\ After(f, pos) = pos + w
  BY RecordFits DEF After
<1>2. Len(g) \in Nat
  OBVIOUS
<1>3. pos + w <= Len(g) /\ \A j \in pos+1..pos+w : g[j] = f[j]
  BY <1>1
<1>4. w = Size[f[pos + 1][2]]
  BY DEF RecordOf
<1> HIDE DEF w
<1>5. pos + 1 \in pos+1..pos+w /\ pos + 1 <= Len(g) /\ pos + 1 <= Len(f)
  BY <1>1, <1>2, <1>3
<1>6. g[pos + 1] = f[pos + 1]
  BY <1>3, <1>5
<1>7. Cell(g, pos + 1) = f[pos + 1] /\ Cell(f, pos + 1) = f[pos + 1]
  BY <1>5, <1>6 DEF Cell
<1>8. f[pos + 1] # Hole /\ \A i \in 1..w : f[pos + i] = <<f[pos + 1][1], f[pos + 1][2], i>>
  BY <1>4, <1>7 DEF IsRecord
<1>9. \A i \in 1..w : g[pos + i] = f[pos + i]
  <2> TAKE i \in 1..w
  <2>1. pos + i \in pos+1..pos+w
    BY <1>1
  <2> QED BY <1>3, <2>1
<1>10. IsRecord(g, pos)
  BY <1>3, <1>4, <1>7, <1>8, <1>9 DEF IsRecord
<1> QED BY <1>6, <1>10 DEF RecordOf

\* A file that agrees on the cells of a chain has the same chain, and its records.
LEMMA ChainAgrees ==
    ASSUME NEW f \in Seq(Content), NEW g \in Seq(Content), NEW p \in [Nat -> Nat],
           NEW n \in Nat, Chain(f, p, n), p[n] <= Len(g),
           \A j \in 1..p[n] : g[j] = f[j]
    PROVE  Chain(g, p, n) /\ \A i \in 0..n-1 : RecordOf(g, p[i]) = RecordOf(f, p[i])
<1>1. ASSUME NEW i \in 0..n-1
      PROVE  IsRecord(g, p[i]) /\ RecordOf(g, p[i]) = RecordOf(f, p[i])
  <2>1. i \in Nat /\ i + 1 \in 0..n /\ i + 1 \in Nat
    OBVIOUS
  <2>2. p[i] \in Nat /\ p[i + 1] \in Nat /\ p[n] \in Nat /\ Len(g) \in Nat
    <3>1. p[i] \in Nat /\ p[i + 1] \in Nat /\ p[n] \in Nat
      BY <2>1, Zenon
    <3> QED BY <3>1, LenProperties, Zenon
  <2>3. IsRecord(f, p[i]) /\ p[i + 1] = After(f, p[i])
    BY DEF Chain
  <2>4. p[i + 1] <= p[n]
    BY <2>1, ChainGrows
  <2>5. After(f, p[i]) <= Len(g)
    BY <2>2, <2>3, <2>4
  <2>6. \A j \in p[i]+1..After(f, p[i]) : j \in 1..p[n]
    BY <2>2, <2>3, <2>4, SMTT(30)
  <2>7. \A j \in p[i]+1..After(f, p[i]) : g[j] = f[j]
    BY <2>6
  <2> QED BY <2>2, <2>3, <2>5, <2>7, RecordAgrees
<1>2. Chain(g, p, n)
  BY <1>1 DEF Chain, After
<1> QED BY <1>1, <1>2

\* Within a chain no record starts but its own.
LEMMA ChainStarts ==
    ASSUME NEW f \in Seq(Content), NEW p \in [Nat -> Nat], NEW n \in Nat,
           Chain(f, p, n), NEW j \in 1..p[n], Starts(f[j])
    PROVE  \E i \in 0..n-1 : j = p[i] + 1
<1> DEFINE Past == {i \in 0..n : j <= p[i]}
<1>1. n \in Past /\ Past \in SUBSET Nat
  OBVIOUS
<1>2. PICK i \in Past : \A k \in Past : i <= k
  <2> HIDE DEF Past
  <2> QED BY <1>1, Smallest
<1>3. i \in 0..n /\ j <= p[i]
  BY <1>2
<1>4. i # 0
  BY <1>3 DEF Chain
<1>5. PICK k \in 0..n-1 : i = k + 1
  <2>1. i - 1 \in 0..n-1 /\ i = (i - 1) + 1
    BY <1>3, <1>4
  <2> QED BY <2>1
<1>6. k \notin Past /\ k \in 0..n
  <2>1. ~(i <= k) /\ k \in 0..n
    BY <1>5
  <2> HIDE DEF Past
  <2> QED BY <1>2, <2>1
<1> DEFINE a == p[k]
           v == RecordOf(f, a).val
<1>7. a \in Nat /\ p[i] \in Nat /\ j \in Nat /\ ~(j <= a)
  <2>1. k \in Nat /\ i \in Nat /\ p[n] \in Nat
    BY <1>3, <1>6
  <2> QED BY <1>6, <2>1
<1>8. IsRecord(f, a) /\ Size[v] = p[i] - a
  BY <1>5, ChainStep
<1>9. a + 1 <= Len(f) /\ v = f[a + 1][2]
  BY <1>7, <1>8, RecordFits DEF RecordOf
<1>10. \A m \in 1..Size[v] : f[a + m] = <<f[a + 1][1], f[a + 1][2], m>>
  BY <1>8, <1>9 DEF IsRecord, Cell
<1> HIDE DEF a, v
<1>11. j - a \in 1..p[i]-a /\ a + (j - a) = j
  BY <1>3, <1>7
<1>12. f[j][3] = j - a
  <2>1. f[a + (j - a)] = <<f[a + 1][1], f[a + 1][2], j - a>>
    BY <1>8, <1>10, <1>11, Zenon
  <2>2. f[j] = <<f[a + 1][1], f[a + 1][2], j - a>>
    BY <1>11, <2>1, Zenon
  <2> QED BY <2>2
<1>13. f[j][3] = 1
  BY DEF Starts
<1>14. j = a + 1
  <2>1. \A x, y \in Nat : x - y = 1 => x = y + 1
    OBVIOUS
  <2> QED BY <1>7, <1>12, <1>13, <2>1, Zenon
<1> QED BY <1>14 DEF a

\* A chain with nothing but a clean rest behind it can be one record longer,
\* and no more.
LEMMA ChainExtends ==
    ASSUME NEW f \in Seq(Content), NEW p \in [Nat -> Nat], NEW n \in Nat, NEW V,
           Chain(f, p, n), Clean(f, p[n], n, V), IsRecord(f, p[n])
    PROVE  /\ RecordOf(f, p[n]).off = n /\ RecordOf(f, p[n]).val \in V
           /\ \E q \in [Nat -> Nat] :
                /\ \A i \in 0..n : q[i] = p[i]
                /\ q[n + 1] = After(f, p[n])
                /\ Chain(f, q, n + 1) /\ ~IsRecord(f, q[n + 1])
<1> DEFINE q == [p EXCEPT ![n + 1] = After(f, p[n])]
           r == RecordOf(f, p[n])
<1>1. p[n] \in Nat /\ n + 1 \in Nat /\ Len(f) \in Nat
  OBVIOUS
<1>2. /\ After(f, p[n]) \in p[n]+1..Len(f) /\ p[n] + 1 \in 1..Len(f)
      /\ f[p[n] + 1] = <<r.off, r.val, 1>>
  BY <1>1, RecordFits DEF After
<1>3. Starts(f[p[n] + 1])
  BY <1>1, RecordStarts
<1>4. r.off = n /\ r.val \in V
  <2>1. p[n] + 1 \in p[n]+1..Len(f)
    BY <1>1, <1>2
  <2>2. f[p[n] + 1][1] = n /\ f[p[n] + 1][2] \in V
    BY <1>3, <2>1 DEF Clean
  <2> QED BY <2>2 DEF RecordOf
<1>5. After(f, p[n]) \in Nat /\ After(f, p[n]) > p[n]
  <2>1. \A a, b \in Nat : \A c \in a+1..b : c \in Nat /\ c > a
    OBVIOUS
  <2> QED BY <1>1, <1>2, <2>1, Zenon
<1>6. q \in [Nat -> Nat] /\ q[n + 1] = After(f, p[n]) /\ \A i \in 0..n : q[i] = p[i]
  <2>1. \A i \in 0..n : i \in Nat /\ i # n + 1
    OBVIOUS
  <2> QED BY <1>1, <1>5, <2>1
<1> HIDE DEF q, r
<1>7. ~IsRecord(f, q[n + 1])
  <2> SUFFICES ASSUME IsRecord(f, q[n + 1]) PROVE FALSE
    OBVIOUS
  <2>1. q[n + 1] + 1 \in 1..Len(f) /\ Starts(f[q[n + 1] + 1])
    BY <1>5, <1>6, RecordStarts
  <2>2. q[n + 1] + 1 \in p[n]+1..Len(f)
    BY <1>1, <1>5, <1>6, <2>1
  <2>3. q[n + 1] + 1 = p[n] + 1
    BY <2>1, <2>2 DEF Clean
  <2> QED BY <1>1, <1>5, <1>6, <2>3
<1>8. Chain(f, q, n + 1)
  <2>1. q[0] = 0
    BY <1>6 DEF Chain
  <2>2. ASSUME NEW i \in 0..(n+1)-1
        PROVE  IsRecord(f, q[i]) /\ RecordOf(f, q[i]).off = i /\ q[i + 1] = After(f, q[i])
    <3>1. CASE i = n
      <4>1. q[i] = p[n] /\ q[i + 1] = After(f, p[n])
        BY <1>1, <1>6, <3>1
      <4> QED BY <1>4, <3>1, <4>1 DEF r
    <3>2. CASE i # n
      <4>1. i \in 0..n-1 /\ i \in 0..n /\ i + 1 \in 0..n
        BY <3>2
      <4> QED BY <1>6, <4>1 DEF Chain
    <3> QED BY <3>1, <3>2
  <2> QED BY <2>1, <2>2 DEF Chain
<1> QED BY <1>4, <1>6, <1>7, <1>8 DEF q, r

-----------------------------------------------------------------------------
(***************************************************************************)
(* The inductive invariant, and what it says of the records                *)
(***************************************************************************)
\* FileInv, with the places of the records as any function that fits.
IInv ==
    /\ Typed /\ Attempted
    /\ \E n \in Nat : \E p \in [Nat -> Nat] : Placed(p, n)

\* The records that are placed are all there are, or there is one more: behind
\* them, whole, and of an append that was tried and not acknowledged.
LEMMA AllPlaced ==
    ASSUME Typed, NEW n \in Nat, NEW p \in [Nat -> Nat], Placed(p, n)
    PROVE  \E m \in {n, n + 1}, q \in [Nat -> Nat] :
             /\ Chain(file, q, m) /\ ~IsRecord(file, q[m])
             /\ \A i \in 0..n : q[i] = p[i]
             /\ m = n + 1 => RecordOf(file, q[n]).val \in tried
<1>1. file \in Seq(Content) /\ Chain(file, p, n)
  BY DEF Typed, Placed
<1>2. CASE ~IsRecord(file, p[n])
  <2>1. n \in {n, n + 1} /\ (n = n + 1) = FALSE
    OBVIOUS
  <2>2. n = n + 1 => RecordOf(file, p[n]).val \in tried
    BY <2>1
  <2> QED BY <1>1, <1>2, <2>1, <2>2, Zenon
<1>3. CASE IsRecord(file, p[n])
  <2>1. Clean(file, p[n], n, tried)
    BY <1>3 DEF Placed
  <2>2. RecordOf(file, p[n]).val \in tried
    BY <1>1, <1>3, <2>1, ChainExtends
  <2>3. PICK q \in [Nat -> Nat] :
            /\ \A i \in 0..n : q[i] = p[i]
            /\ Chain(file, q, n + 1) /\ ~IsRecord(file, q[n + 1])
    BY <1>1, <1>3, <2>1, ChainExtends
  <2>4. n \in 0..n
    OBVIOUS
  <2> QED BY <2>2, <2>3, <2>4
<1> QED BY <1>2, <1>3

\* Nothing is behind the end of a file.
LEMMA CutIsClean ==
    ASSUME NEW f \in Seq(Content), NEW n, NEW V
    PROVE  Clean(f, Len(f), n, V)
<1>1. Len(f) \in Nat
  OBVIOUS
<1>2. Len(f)+1..Len(f) = {}
  BY <1>1
<1> QED BY <1>2 DEF Clean

\* What is on the disk stays the beginning of the log.
OnTheDisk(p, d) ==
    /\ p[d] <= Len(disk) /\ \A j \in 1..p[d] : disk[j] = file[j]
    /\ \A j \in p[d]+1..Len(disk) : ~Starts(disk[j])

\* The empty file has no record.
LEMMA InitFile == Init => IInv
<1> SUFFICES ASSUME Init PROVE IInv
  OBVIOUS
<1> DEFINE p == [i \in Nat |-> 0]
<1>1. /\ file = << >> /\ disk = << >> /\ Len(file) = 0 /\ Len(disk) = 0
      /\ file \in Seq(Content) /\ disk \in Seq(Content)
  BY EmptySeq DEF Init
<1>2. Typed
  <2>1. DOMAIN Empty = {} /\ 0..0-1 = {}
    BY DEF Empty
  <2>2. index = Empty /\ nextOff = 0
    BY DEF Init
  <2>3. DOMAIN index = 0..nextOff-1
    BY <2>1, <2>2
  <2>4. open \in BOOLEAN /\ nextOff = 0 /\ size = 0 /\ tried = {} /\ faults = 0 /\ losses = 0
    BY DEF Init
  <2> QED BY <1>1, <2>3, <2>4 DEF Typed
<1>3. Attempted
  BY <1>1 DEF Attempted, Init, NoOp
<1>4. p \in [Nat -> Nat] /\ p[0] = 0
  OBVIOUS
<1> HIDE DEF p
<1>5. Chain(file, p, 0)
  BY <1>4 DEF Chain
<1>6. Clean(file, p[0], 0, tried)
  BY <1>1, <1>4, CutIsClean
<1>7. OnTheDisk(p, 0)
  BY <1>1, <1>4 DEF OnTheDisk
<1>8. open = FALSE
  BY DEF Init
<1>9. Placed(p, 0)
  BY <1>5, <1>6, <1>7, <1>8 DEF Placed, OnTheDisk
<1> QED BY <1>2, <1>3, <1>4, <1>9 DEF IInv

\* The positions where replay finds the records of a chain.
LEMMA ReplayFinds ==
    ASSUME NEW f \in Seq(Content), NEW q \in [Nat -> Nat], NEW m \in Nat,
           Chain(f, q, m), ~IsRecord(f, q[m])
    PROVE  /\ Len(Scan(f)[0]) = m /\ DOMAIN Scan(f)[0] = 1..m
           /\ (Scan(f)[0] = << >>) <=> (m = 0)
           /\ \A i \in 1..m :
                /\ Scan(f)[0][i] = RecordOf(f, q[i - 1])
                /\ Scan(f)[0][i].off = i - 1 /\ Scan(f)[0][i].at = q[i - 1]
           /\ ScanEnd(f, 0) = q[m]
<1> DEFINE found == Scan(f)[0]
<1>1. q[0] = 0 /\ 0 \in 0..m
  BY DEF Chain
<1>2. found = Recs(f, q, 0, m)
  BY <1>1, ScanChain DEF Scan
<1>3. ScanEnd(f, 0) = q[m]
  BY <1>1, ScanEndChain
<1>4. found \in Seq(Found(f)) /\ Len(found) = m
  <2>1. Len(Recs(f, q, 0, m)) = m - 0 /\ Recs(f, q, 0, m) \in Seq(Found(f))
    BY <1>1, RecsType
  <2> QED BY <1>2, <2>1
<1>5. DOMAIN found = 1..m /\ ((found = << >>) <=> (m = 0))
  <2> HIDE DEF found
  <2>1. DOMAIN found = 1..m
    BY <1>4, LenProperties
  <2>2. (found = << >>) <=> (m = 0)
    BY <1>4, EmptySeq
  <2> QED BY <2>1, <2>2
<1>6. ASSUME NEW i \in 1..m
      PROVE  found[i] = RecordOf(f, q[i - 1]) /\ found[i].off = i - 1 /\ found[i].at = q[i - 1]
  <2>1. i \in 1..m-0 /\ 0 + i - 1 = i - 1 /\ i - 1 \in 0..m-1
    OBVIOUS
  <2>2. found[i] = RecordOf(f, q[i - 1])
    BY <1>2, <2>1 DEF Recs
  <2>3. RecordOf(f, q[i - 1]).off = i - 1
    BY <2>1 DEF Chain
  <2>4. RecordOf(f, q[i - 1]).at = q[i - 1]
    BY DEF RecordOf
  <2> HIDE DEF found
  <2> QED BY <2>2, <2>3, <2>4
<1> HIDE DEF found
<1> QED BY <1>3, <1>4, <1>5, <1>6 DEF found

-----------------------------------------------------------------------------
(***************************************************************************)
(* Every step keeps it                                                     *)
(***************************************************************************)
\* Replay cuts the file behind the last record: what is left are the records.
LEMMA OpenKeeps ==
    ASSUME IInv, Open
    PROVE  /\ IInv'
           /\ \E m \in Nat : \E q \in [Nat -> Nat] :
                /\ Chain(file, q, m) /\ ~IsRecord(file, q[m])
                /\ Placed(q, m)'
                /\ \A i \in 0..m-1 : RecordOf(file', q[i]) = RecordOf(file, q[i])
<1>1. PICK n \in Nat, p \in [Nat -> Nat] : Placed(p, n)
  BY DEF IInv
<1>2. Typed /\ Attempted /\ ~open /\ op = NoOp
  BY DEF IInv, Open, Attempted
<1>3. PICK m \in {n, n + 1}, q \in [Nat -> Nat] :
        /\ Chain(file, q, m) /\ ~IsRecord(file, q[m])
        /\ \A i \in 0..n : q[i] = p[i]
        /\ m = n + 1 => RecordOf(file, q[n]).val \in tried
  BY <1>1, <1>2, AllPlaced
<1>4. m \in Nat /\ n \in 0..m /\ m \in 0..m /\ q[m] \in Nat
  OBVIOUS
<1>5. file \in Seq(Content) /\ disk \in Seq(Content) /\ Len(file) \in Nat /\ Len(disk) \in Nat
  <2>1. file \in Seq(Content) /\ disk \in Seq(Content)
    BY <1>2 DEF Typed
  <2> QED BY <2>1, LenProperties
<1> DEFINE found == Scan(file)[0]
<1>6. /\ DOMAIN found = 1..m /\ ((found = << >>) <=> (m = 0)) /\ Len(found) = m
      /\ \A i \in 1..m : found[i].off = i - 1 /\ found[i].at = q[i - 1]
      /\ ScanEnd(file, 0) = q[m]
  <2>0. file \in Seq(Content) /\ q \in [Nat -> Nat] /\ m \in Nat /\ Chain(file, q, m) /\ ~IsRecord(file, q[m])
    BY <1>3, <1>4, <1>5
  <2>1. Len(Scan(file)[0]) = m
    BY <2>0, ReplayFinds
  <2>1a. DOMAIN Scan(file)[0] = 1..m
    BY <2>0, ReplayFinds, ZenonT(30)
  <2>1b. (Scan(file)[0] = << >>) <=> (m = 0)
    BY <2>0, ReplayFinds
  <2>2. \A i \in 1..m : Scan(file)[0][i].off = i - 1 /\ Scan(file)[0][i].at = q[i - 1]
    <3> TAKE i \in 1..m
    <3>1. Scan(file)[0][i] = RecordOf(file, q[i - 1])
      BY <2>0, ReplayFinds
    <3>2. Scan(file)[0][i].off = i - 1
      BY <2>0, ReplayFinds, ZenonT(30)
    <3>3. Scan(file)[0][i].at = q[i - 1]
      BY <3>1 DEF RecordOf
    <3> QED BY <3>2, <3>3
  <2>3. ScanEnd(file, 0) = q[m]
    BY <2>0, ReplayFinds
  <2> QED BY <2>1, <2>1a, <2>1b, <2>2, <2>3
<1>7. q[m] <= Len(file)
  BY <1>3, <1>4, <1>5, ChainGrows
<1>8. size' = q[m] /\ open' = TRUE /\ file' = SubSeq(file, 1, q[m])
  BY <1>6 DEF Open
<1>9. UNCHANGED <<disk, op, tried, writes, crashes, faults, losses>>
  BY DEF Open
<1>10. nextOff' = m
  <2>1. nextOff' = IF found = << >> THEN 0 ELSE found[Len(found)].off + 1
    BY DEF Open
  <2> HIDE DEF found
  <2>2. CASE m = 0
    BY <1>6, <2>1, <2>2
  <2>3. CASE m # 0
    <3>1. m \in 1..m /\ (m - 1) + 1 = m
      BY <1>4, <2>3
    <3> QED BY <1>6, <2>1, <2>3, <3>1
  <2> QED BY <2>2, <2>3
<1>11. DOMAIN index' = 0..m-1 /\ \A o \in 0..m-1 : index'[o] = q[o]
  <2> DEFINE At(o) == LET i == CHOOSE i \in DOMAIN found :
                                    /\ found[i].off = o
                                    /\ \A k \in DOMAIN found : found[k].off = o => k <= i
                      IN  found[i].at
  <2>1. index' = [o \in {found[i].off : i \in DOMAIN found} |-> At(o)]
    BY DEF Open
  <2>2. {found[i].off : i \in DOMAIN found} = 0..m-1
    <3> HIDE DEF found
    <3>1. \A i \in 1..m : i - 1 \in 0..m-1
      BY <1>4
    <3>2. \A o \in 0..m-1 : o + 1 \in 1..m /\ (o + 1) - 1 = o
      BY <1>4
    <3>3. ASSUME NEW i \in 1..m
          PROVE  found[i].off \in 0..m-1
      <4>1. found[i].off = i - 1
        BY <1>6
      <4> QED BY <3>1, <4>1
    <3>4. \A o \in 0..m-1 : o + 1 \in 1..m /\ found[o + 1].off = o
      BY <1>6, <3>2, Zenon
    <3>5. DOMAIN found = 1..m
      BY <1>6
    <3> QED BY <3>3, <3>4, <3>5
  <2>3. ASSUME NEW o \in 0..m-1
        PROVE  At(o) = q[o]
    <3> HIDE DEF found
    <3>1. o + 1 \in 1..m /\ (o + 1) - 1 = o
      BY <1>4
    <3>2. \A i \in 1..m : found[i].off = o => i = o + 1
      <4>1. \A i \in 1..m : i - 1 = o => i = o + 1
        BY <1>4
      <4> QED BY <1>6, <4>1, Zenon
    <3>3. found[o + 1].off = o /\ found[o + 1].at = q[o]
      BY <1>6, <3>1
    <3>4. \A k \in DOMAIN found : found[k].off = o => k <= o + 1
      <4>1. o + 1 <= o + 1
        BY <1>4
      <4> QED BY <1>6, <3>2, <4>1, Zenon
    <3>5. (CHOOSE i \in DOMAIN found :
                /\ found[i].off = o
                /\ \A k \in DOMAIN found : found[k].off = o => k <= i) = o + 1
      BY <1>6, <3>1, <3>2, <3>3, <3>4
    <3> QED BY <3>3, <3>5
  <2> HIDE DEF At, found
  <2> QED BY <2>1, <2>2, <2>3
<1>12. file' \in Seq(Content) /\ Len(file') = q[m] /\ \A j \in 1..q[m] : file'[j] = file[j]
  <2>1. \A j \in 1..q[m] : file[j] \in Content
    <3>1. \A j \in 1..q[m] : j \in 1..Len(file)
      BY <1>4, <1>5, <1>7
    <3> QED BY <1>5, <3>1, ElementOfSeq
  <2>2. /\ SubSeq(file, 1, q[m]) \in Seq(Content)
        /\ Len(SubSeq(file, 1, q[m])) = IF 1 <= q[m] THEN q[m]-1+1 ELSE 0
        /\ \A j \in 1..q[m]-1+1 : SubSeq(file, 1, q[m])[j] = file[1+j-1]
    BY <1>4, <2>1, SubSeqProperties
  <2>3. q[m]-1+1 = q[m] /\ (~(1 <= q[m]) => q[m] = 0) /\ \A j \in 1..q[m] : 1+j-1 = j
    BY <1>4
  <2> QED BY <1>8, <2>2, <2>3
<1>13. Chain(file', q, m) /\ \A i \in 0..m-1 : RecordOf(file', q[i]) = RecordOf(file, q[i])
  <2>1. q[m] <= Len(file')
    BY <1>4, <1>12
  <2> QED BY <1>3, <1>4, <1>5, <1>12, <2>1, ChainAgrees
<1>14. Clean(file', q[m], m, tried')
  BY <1>12, CutIsClean
<1>15. ASSUME losses' = 0
       PROVE  \E d \in 0..m : OnTheDisk(q, d)'
  <2>1. PICK d \in 0..n : OnTheDisk(p, d)
    BY <1>1, <1>9, <1>15 DEF Placed, OnTheDisk
  <2>2. d \in 0..m /\ q[d] = p[d] /\ q[d] \in Nat
    BY <1>3, <1>4
  <2>3. q[d] <= q[m]
    BY <1>3, <1>4, <1>5, <2>2, ChainGrows
  <2>4. \A j \in 1..q[d] : j \in 1..q[m]
    BY <1>4, <2>2, <2>3
  <2>5. OnTheDisk(q, d)'
    BY <1>9, <1>12, <2>1, <2>2, <2>4 DEF OnTheDisk
  <2> QED BY <2>2, <2>5
<1>16. Placed(q, m)'
  BY <1>8, <1>10, <1>11, <1>13, <1>14, <1>15 DEF Placed, OnTheDisk
<1>17. Typed'
  BY <1>2, <1>4, <1>8, <1>9, <1>10, <1>11, <1>12 DEF Typed
<1>18. Attempted'
  <2>1. op' = NoOp /\ op' \in [val : Value \cup {NoOp.val}, done : Nat]
    BY <1>2, <1>9 DEF Attempted, NoOp
  <2>0. op'.done = 0
    BY <2>1 DEF NoOp
  <2>2. size' + op'.done = Len(file') /\ Len(file') \in Nat
    <3>1. q[m] + 0 = q[m]
      BY <1>4
    <3> QED BY <1>4, <1>8, <1>12, <2>0, <3>1, Zenon
  <2>3. 1..op'.done = {}
    BY <2>0
  <2>4. size' + op'.done <= Len(file')
    <3>1. \A x, y : x = y /\ y \in Nat => x <= y
      OBVIOUS
    <3> QED BY <2>2, <3>1, Zenon
  <2> QED BY <2>1, <2>2, <2>3, <2>4 DEF Attempted
<1>19. IInv'
  BY <1>4, <1>16, <1>17, <1>18 DEF IInv
<1> QED BY <1>3, <1>4, <1>13, <1>16, <1>19

\* A process that closes the file or dies leaves the file as it is.
LEMMA ShutKeeps ==
    ASSUME IInv, open, Forget, op' = NoOp, UNCHANGED <<file, disk, tried, faults, losses>>
    PROVE  IInv'
<1>1. PICK n \in Nat, p \in [Nat -> Nat] : Placed(p, n)
  BY DEF IInv
<1>2. open' = FALSE /\ nextOff' = 0 /\ index' = Empty /\ size' = 0
  BY DEF Forget
<1>3. UNCHANGED <<file, disk, tried, faults, losses>>
  OBVIOUS
<1>4. Placed(p, n)'
  <2>1. Chain(file, p, n)'
    BY <1>1, <1>3 DEF Placed
  <2>2. \/ Clean(file, p[n], n, tried)'
        \/ (~open /\ losses > 0 /\ ~IsRecord(file, p[n]))'
    BY <1>1, <1>2, <1>3 DEF Placed
  <2>3. losses' = 0 => \E d \in 0..n : OnTheDisk(p, d)'
    BY <1>1, <1>3 DEF Placed, OnTheDisk
  <2> QED BY <1>2, <2>1, <2>2, <2>3 DEF Placed, OnTheDisk
<1>5. Typed'
  <2>1. DOMAIN Empty = {} /\ 0..0-1 = {}
    BY DEF Empty
  <2>2. DOMAIN index' = 0..nextOff'-1
    BY <1>2, <2>1
  <2> QED BY <1>2, <1>3, <2>2 DEF IInv, Typed
<1>6. Attempted'
  <2>1. NoOp.done = 0 /\ NoOp \in [val : Value \cup {NoOp.val}, done : Nat]
    BY DEF NoOp
  <2>2. 1..NoOp.done = {}
    BY <2>1
  <2> QED BY <1>2, <2>1, <2>2 DEF Attempted
<1> QED BY <1>4, <1>5, <1>6 DEF IInv

\* A new attempt writes nothing yet, and the value it tries counts from now on.
LEMMA AttemptKeeps ==
    ASSUME IInv, NEW v \in Value, AppendAt(v)
    PROVE  IInv'
<1>1. PICK n \in Nat, p \in [Nat -> Nat] : Placed(p, n)
  BY DEF IInv
<1>2. /\ open /\ op = NoOp /\ op' = [val |-> v, done |-> 0] /\ tried' = tried \cup {v}
      /\ UNCHANGED <<file, disk, open, nextOff, index, size, faults, losses>>
  BY DEF AppendAt, memVars
<1>3. Clean(file, p[n], n, tried')
  BY <1>1, <1>2 DEF Placed, Clean
<1>4. Placed(p, n)'
  BY <1>1, <1>2, <1>3 DEF Placed
<1>5. Typed'
  BY <1>2 DEF IInv, Typed
<1>6. Attempted'
  <2>1. op'.val = v /\ op'.done = 0 /\ op' \in [val : Value \cup {NoOp.val}, done : Nat]
    BY <1>2
  <2>2. Size[v] \in Nat
    BY SizeAssumption
  <2>3. op'.val \in tried' /\ op'.done \in 0..Size[op'.val] /\ 1..op'.done = {}
    BY <1>2, <2>1, <2>2
  <2>4. NoOp.done = 0
    BY DEF NoOp
  <2>5. size + 0 <= Len(file) /\ (faults = 0 => Len(file) = size + 0)
    BY <1>2, <2>4 DEF IInv, Attempted
  <2> QED BY <1>2, <2>1, <2>3, <2>5 DEF Attempted
<1> QED BY <1>4, <1>5, <1>6 DEF IInv

\* What WriteAt writes is behind the records.
LEMMA CellKeeps ==
    ASSUME IInv, WriteCell
    PROVE  /\ IInv' /\ size <= Len(file) /\ size <= Len(file')
           /\ \A j \in 1..size : file'[j] = file[j]
<1>1. PICK n \in Nat, p \in [Nat -> Nat] : Placed(p, n)
  BY DEF IInv
<1> DEFINE j == size + op.done + 1
           cell == <<nextOff, op.val, op.done + 1>>
           len == IF j > Len(file) THEN j ELSE Len(file)
<1>2. /\ op # NoOp /\ op.done < Size[op.val]
      /\ file' = [i \in 1..len |-> IF i = j THEN cell ELSE file[i]]
      /\ op' = [op EXCEPT !.done = @ + 1]
      /\ UNCHANGED <<disk, open, nextOff, index, size, tried, faults, losses>>
  BY DEF WriteCell, memVars
<1>3. /\ open /\ op.val \in tried /\ op.val \in Value /\ op.done \in Nat
      /\ size + op.done <= Len(file) /\ (faults = 0 => Len(file) = size + op.done)
      /\ op \in [val : Value \cup {NoOp.val}, done : Nat]
  BY <1>2 DEF IInv, Attempted, Typed
<1>4. file \in Seq(Content) /\ disk \in Seq(Content) /\ Len(file) \in Nat /\ size \in Nat /\ nextOff \in Nat
  <2>1. file \in Seq(Content) /\ disk \in Seq(Content) /\ size \in Nat /\ nextOff \in Nat
    BY DEF IInv, Typed
  <2> QED BY <2>1, LenProperties
<1>5. Size[op.val] \in Nat
  BY <1>3, SizeAssumption
<1>6. /\ j \in Nat /\ len \in Nat /\ size < j /\ j <= len /\ Len(file) <= len /\ size <= Len(file)
      /\ j - size = op.done + 1
      /\ \A i \in 1..len : i # j => i \in 1..Len(file)
      /\ (faults = 0 => len = size + (op.done + 1))
  <2> DEFINE d == op.done
             l == Len(file)
  <2>1. d \in Nat /\ l \in Nat /\ size \in Nat /\ size + d <= l /\ (faults = 0 => l = size + d)
    BY <1>3, <1>4
  <2>0. j = size + d + 1 /\ len = IF j > l THEN j ELSE l
    BY DEF d, l
  <2> HIDE DEF d, l, j, len
  <2>2. size + d + 1 \in Nat /\ (size + d + 1) - size = d + 1 /\ size < size + d + 1 /\ size <= l
    BY <2>1
  <2>3. /\ len \in Nat /\ j <= len /\ l <= len
        /\ \A i \in 1..len : i # j => i \in 1..l
        /\ (faults = 0 => len = size + (d + 1))
    BY <2>0, <2>1
  <2> QED BY <2>0, <2>2, <2>3 DEF d, l
<1>7. cell \in Content
  <2>1. op.done + 1 \in Nat \ {0}
    <3>1. \A d \in Nat : d + 1 \in Nat \ {0}
      OBVIOUS
    <3> QED BY <1>3, <3>1, Zenon
  <2> QED BY <1>3, <1>4, <2>1 DEF Content
<1>8. file' \in Seq(Content) /\ Len(file') = len
  <2>1. \A i \in 1..len : (IF i = j THEN cell ELSE file[i]) \in Content
    <3> HIDE DEF j, len, cell
    <3> QED BY <1>4, <1>6, <1>7, ElementOfSeq
  <2>2. file' \in [1..len -> Content]
    <3> HIDE DEF j, len, cell
    <3> QED BY <1>2, <2>1
  <2> HIDE DEF j, len, cell
  <2> QED BY <1>6, <2>2, FunctionIsSequence
<1> HIDE DEF len, cell
<1>9. \A i \in 1..len : file'[i] = IF i = j THEN cell ELSE file[i]
  <2> HIDE DEF j
  <2> QED BY <1>2
<1>10. \A i \in 1..size : i \in 1..len /\ i # j /\ file'[i] = file[i]
  <2>1. \A i \in 1..size : i \in 1..len /\ i # j
    <3> HIDE DEF j
    <3> QED BY <1>4, <1>6
  <2> HIDE DEF j
  <2> QED BY <1>9, <2>1
<1>11. n = nextOff /\ size = p[n] /\ Chain(file, p, n) /\ Clean(file, p[n], n, tried)
  BY <1>1, <1>3 DEF Placed
<1>12. size <= Len(file')
  <2> HIDE DEF j
  <2> QED BY <1>4, <1>6, <1>8
<1>13. Chain(file', p, n)
  BY <1>4, <1>8, <1>10, <1>11, <1>12, ChainAgrees
<1>14. Clean(file', p[n], n, tried')
  <2> SUFFICES ASSUME NEW i \in p[n]+1..Len(file'), Starts(file'[i])
               PROVE  i = p[n] + 1 /\ file'[i][1] = n /\ file'[i][2] \in tried'
    BY DEF Clean
  <2>0. i \in size+1..len /\ i \in Nat
    BY <1>4, <1>8, <1>11
  <2>1. i \in 1..len
    BY <1>4, <2>0
  <2>4. tried' = tried
    BY <1>2
  <2>2. CASE i = j
    <3>1. file'[i] = cell
      BY <1>9, <2>1, <2>2
    <3>2. cell[1] = nextOff /\ cell[2] = op.val /\ cell[3] = op.done + 1
      BY DEF cell
    <3>3. op.done + 1 = 1
      BY <3>1, <3>2 DEF Starts
    <3>4. i = size + 1
      <4>1. \A d \in Nat : d + 1 = 1 => size + d + 1 = size + 1
        BY <1>4
      <4> QED BY <1>3, <2>2, <3>3, <4>1, Zenon
    <3> QED BY <1>3, <1>11, <2>4, <3>1, <3>2, <3>4, Zenon
  <2>3. CASE i # j
    <3>1. file'[i] = file[i]
      BY <1>9, <2>1, <2>3
    <3>2. i \in p[n]+1..Len(file)
      <4> HIDE DEF j
      <4> QED BY <1>4, <1>6, <1>11, <2>0, <2>1, <2>3
    <3>3. i = p[n] + 1 /\ file[i][1] = n /\ file[i][2] \in tried
      BY <1>11, <3>1, <3>2 DEF Clean
    <3> QED BY <2>4, <3>1, <3>3, Zenon
  <2> QED BY <2>2, <2>3
<1>15. ASSUME losses' = 0
       PROVE  \E d \in 0..n : OnTheDisk(p, d)'
  <2>1. PICK d \in 0..n : OnTheDisk(p, d)
    BY <1>1, <1>2, <1>15 DEF Placed, OnTheDisk
  <2>2. p[d] <= size /\ p[d] \in Nat
    <3>1. p[d] <= p[n]
      BY <1>4, <1>11, ChainGrows
    <3>2. d \in Nat
      OBVIOUS
    <3> QED BY <1>11, <3>1, <3>2
  <2>3. \A i \in 1..p[d] : i \in 1..size
    BY <1>4, <2>2
  <2>4. OnTheDisk(p, d)'
    BY <1>2, <1>10, <2>1, <2>3 DEF OnTheDisk
  <2> QED BY <2>4
<1>16. Placed(p, n)'
  BY <1>1, <1>2, <1>3, <1>11, <1>13, <1>14, <1>15 DEF Placed, OnTheDisk
<1>17. Typed'
  BY <1>2, <1>8 DEF IInv, Typed
<1>18. Attempted'
  <2>0. op.done + 1 \in Nat
    BY <1>3, SMTT(30)
  <2>1. op'.val = op.val /\ op'.done = op.done + 1 /\ op' \in [val : Value \cup {NoOp.val}, done : Nat]
    <3>1. op' = [op EXCEPT !.done = @ + 1] /\ op \in [val : Value \cup {NoOp.val}, done : Nat]
      BY <1>2, <1>3
    <3> QED BY <2>0, <3>1
  <2>2. op'.done \in 0..Size[op'.val] /\ op'.val \in tried'
    <3>1. \A d, z \in Nat : d < z => d + 1 \in 0..z
      OBVIOUS
    <3> QED BY <1>2, <1>3, <1>5, <2>1, <3>1, Zenon
  <2>3. size' + op'.done <= Len(file')
    <3>1. size + (op.done + 1) <= len
      BY <1>3, <1>4, <1>6
    <3> HIDE DEF j
    <3> QED BY <1>2, <1>8, <2>1, <3>1
  <2>4. ASSUME NEW k \in 1..op'.done
        PROVE  file'[size' + k] = <<nextOff', op'.val, k>>
    <3>1. size + k \in 1..len
      BY <1>3, <1>4, <1>6, <2>1, SMTT(30)
    <3>2. CASE k = op.done + 1
      <4>1. size + k = j
        BY <1>3, <1>4, <3>2
      <4> QED BY <1>2, <1>9, <2>1, <3>1, <3>2, <4>1 DEF cell
    <3>3. CASE k # op.done + 1
      <4>1. size + k # j /\ k \in 1..op.done
        <5>1. \A s, d \in Nat : \A i \in 1..d+1 : i # d + 1 => s + i # s + d + 1 /\ i \in 1..d
          OBVIOUS
        <5> QED BY <1>3, <1>4, <2>1, <3>3, <5>1, Zenon
      <4>2. file'[size + k] = file[size + k]
        <5> HIDE DEF j
        <5> QED BY <1>9, <3>1, <4>1
      <4>3. file[size + k] = <<nextOff, op.val, k>>
        BY <4>1 DEF IInv, Attempted
      <4> QED BY <1>2, <2>1, <4>2, <4>3
    <3> QED BY <3>2, <3>3
  <2>5. open' /\ faults' = 0 => Len(file') = size' + op'.done
    <3> HIDE DEF j
    <3> QED BY <1>2, <1>6, <1>8, <2>1
  <2> QED BY <1>2, <1>3, <2>1, <2>2, <2>3, <2>4, <2>5 DEF Attempted
<1> HIDE DEF j
<1> QED BY <1>6, <1>10, <1>12, <1>16, <1>17, <1>18 DEF IInv

\* The record of an attempt that is complete is the one behind the log.
LEMMA AttemptIsRecord ==
    ASSUME IInv, op # NoOp, op.done = Size[op.val]
    PROVE  /\ open /\ op.val \in tried /\ op.val \in Value
           /\ IsRecord(file, size) /\ RecordOf(file, size).val = op.val
           /\ After(file, size) = size + Size[op.val]
<1>1. /\ open /\ op.val \in tried /\ op.val \in Value /\ op.done \in Nat
      /\ size + op.done <= Len(file)
      /\ \A k \in 1..op.done : file[size + k] = <<nextOff, op.val, k>>
  BY DEF IInv, Attempted, Typed
<1>2. file \in Seq(Content) /\ size \in Nat /\ Len(file) \in Nat /\ nextOff \in Nat
  <2>1. file \in Seq(Content) /\ size \in Nat /\ nextOff \in Nat
    BY DEF IInv, Typed
  <2> QED BY <2>1, LenProperties
<1> DEFINE w == Size[op.val]
<1>3. w \in Nat /\ w >= 1
  BY <1>1, SizeAssumption
<1>4. w = op.done
  OBVIOUS
<1> HIDE DEF w
<1>5. size + 1 <= Len(file) /\ 1 \in 1..w /\ size + w <= Len(file)
  BY <1>1, <1>2, <1>3, <1>4
<1>6. \A k \in 1..w : file[size + k] = <<nextOff, op.val, k>>
  BY <1>1, <1>4
<1>7. file[size + 1] = <<nextOff, op.val, 1>>
  BY <1>5, <1>6
<1>8. file[size + 1][1] = nextOff /\ file[size + 1][2] = op.val
  BY <1>7
<1>9. file[size + 1] # Hole
  BY <1>7 DEF Hole
<1>10. Cell(file, size + 1) = file[size + 1]
  BY <1>5 DEF Cell
<1>11. IsRecord(file, size)
  BY <1>5, <1>6, <1>8, <1>9, <1>10 DEF IsRecord, w
<1>12. RecordOf(file, size).val = op.val
  BY <1>8 DEF RecordOf
<1> QED BY <1>1, <1>11, <1>12 DEF After

\* An append that is synced makes its record one of the log, and the file and
\* the disk the same.
LEMMA CommitKeeps ==
    ASSUME IInv, Commit
    PROVE  IInv' /\ OnDisk' = nextOff'
<1>1. PICK n \in Nat, p \in [Nat -> Nat] : Placed(p, n)
  BY DEF IInv
<1>2. /\ op # NoOp /\ op.done = Size[op.val] /\ disk' = file
      /\ index' = [o \in DOMAIN index \cup {nextOff} |-> IF o = nextOff THEN size ELSE index[o]]
      /\ size' = size + Size[op.val] /\ nextOff' = nextOff + 1
      /\ op' = NoOp /\ tried' = {} /\ losses' = 0
      /\ file' = file /\ open' = open /\ faults' = faults
  BY DEF Commit
<1>3. /\ open /\ op.val \in tried /\ op.val \in Value /\ IsRecord(file, size)
      /\ After(file, size) = size + Size[op.val]
  BY <1>2, AttemptIsRecord
<1>4. /\ n = nextOff /\ size = p[n] /\ Chain(file, p, n) /\ Clean(file, p[n], n, tried)
      /\ \A o \in 0..n-1 : index[o] = p[o]
  BY <1>1, <1>3 DEF Placed
<1>5. file \in Seq(Content) /\ size \in Nat /\ Len(file) \in Nat
  <2>1. file \in Seq(Content) /\ size \in Nat
    BY DEF IInv, Typed
  <2> QED BY <2>1, LenProperties
<1>6. PICK q \in [Nat -> Nat] :
        /\ \A i \in 0..n : q[i] = p[i]
        /\ q[n + 1] = After(file, p[n])
        /\ Chain(file, q, n + 1) /\ ~IsRecord(file, q[n + 1])
  BY <1>3, <1>4, <1>5, ChainExtends
<1>7. size' = q[n + 1] /\ q[n + 1] \in Nat /\ q[n + 1] <= Len(file) /\ size < q[n + 1]
  <2>1. n + 1 \in Nat /\ n + 1 \in 0..n+1 /\ n \in 0..(n+1)-1 /\ n \in 0..n
    OBVIOUS
  <2>2. q[n + 1] <= Len(file) /\ q[n] < q[n + 1]
    BY <1>5, <1>6, <2>1, ChainGrows
  <2>3. q[n] = p[n] /\ q[n + 1] \in Nat
    BY <1>6, <2>1
  <2>4. size' = q[n + 1]
    BY <1>2, <1>3, <1>4, <1>6, Zenon
  <2> QED BY <1>4, <2>2, <2>3, <2>4
<1>8. \A j \in q[n+1]+1..Len(file) : ~Starts(file[j])
  <2> SUFFICES ASSUME NEW j \in q[n+1]+1..Len(file), Starts(file[j]) PROVE FALSE
    OBVIOUS
  <2>1. j \in p[n]+1..Len(file) /\ j # p[n] + 1
    <3>1. \A a, b, c \in Nat : a < b => \A k \in b+1..c : k \in a+1..c /\ k # a + 1
      OBVIOUS
    <3> QED BY <1>4, <1>5, <1>7, <3>1, ZenonT(30)
  <2> QED BY <1>4, <2>1 DEF Clean
<1>9. Clean(file', q[n + 1], n + 1, tried')
  BY <1>2, <1>8 DEF Clean
<1>10. n + 1 \in Nat /\ n + 1 \in 0..n+1 /\ (n + 1) - 1 = n
  OBVIOUS
<1>11. OnTheDisk(q, n + 1)'
  BY <1>2, <1>5, <1>7, <1>8 DEF OnTheDisk
<1>12. DOMAIN index' = 0..nextOff'-1 /\ \A o \in 0..(n+1)-1 : index'[o] = q[o]
  <2>1. DOMAIN index = 0..nextOff-1 /\ nextOff \in Nat
    BY DEF IInv, Typed
  <2>2. 0..nextOff-1 \cup {nextOff} = 0..nextOff'-1
    <3>1. \A k \in Nat : (0..k-1) \cup {k} = 0..(k+1)-1
      OBVIOUS
    <3> QED BY <1>2, <2>1, <3>1, Zenon
  <2>3. DOMAIN index' = 0..nextOff'-1
    BY <1>2, <2>1, <2>2
  <2>4. ASSUME NEW o \in 0..(n+1)-1
        PROVE  index'[o] = q[o]
    <3>0. o \in 0..n /\ o \in (0..n-1) \cup {n}
      OBVIOUS
    <3>1. o \in 0..n /\ q[o] = p[o] /\ o \in DOMAIN index \cup {nextOff}
      BY <1>4, <1>6, <2>1, <3>0, Zenon
    <3>2. index'[o] = IF o = nextOff THEN size ELSE index[o]
      BY <1>2, <3>1
    <3>3. CASE o = n
      BY <1>4, <3>1, <3>2, <3>3
    <3>4. CASE o # n
      <4>1. o \in 0..n-1
        BY <3>1, <3>4
      <4> QED BY <1>4, <3>1, <3>2, <3>4, <4>1
    <3> QED BY <3>3, <3>4
  <2> QED BY <2>3, <2>4
<1>13. Placed(q, n + 1)'
  <2>1. Chain(file', q, n + 1)
    BY <1>2, <1>6
  <2>2. n + 1 = nextOff' /\ size' = q[n + 1] /\ \A o \in 0..(n+1)-1 : index'[o] = q[o]
    BY <1>2, <1>4, <1>7, <1>12
  <2> QED BY <1>9, <1>10, <1>11, <2>1, <2>2 DEF Placed, OnTheDisk
<1>14. Typed'
  <2>1. nextOff' \in Nat /\ size' \in Nat
    BY <1>2, <1>4, <1>7, <1>10
  <2>2. open' /\ open' \in BOOLEAN /\ faults' \in Nat
    BY <1>2, <1>3 DEF IInv, Typed
  <2>3. file' \in Seq(Content) /\ disk' \in Seq(Content)
    BY <1>2, <1>5
  <2>4. tried' \subseteq Value /\ losses' \in 0..1
    BY <1>2
  <2> QED BY <1>12, <2>1, <2>2, <2>3, <2>4 DEF Typed
<1>15. Attempted'
  <2>1. NoOp.done = 0 /\ NoOp \in [val : Value \cup {NoOp.val}, done : Nat]
    BY DEF NoOp
  <2>2. size' + 0 = size' /\ 1..0 = {}
    BY <1>7
  <2>3. faults = 0 => Len(file) = size + op.done
    BY <1>3 DEF IInv, Attempted
  <2> QED BY <1>2, <1>7, <2>1, <2>2, <2>3 DEF Attempted
<1>16. OnDisk' = nextOff'
  <2>1. Len(Scan(file)[0]) = n + 1
    BY <1>5, <1>6, <1>10, ReplayFinds
  <2> QED BY <1>2, <1>4, <2>1 DEF OnDisk
<1> QED BY <1>10, <1>13, <1>14, <1>15, <1>16 DEF IInv

\* A failed append leaves in the file what it wrote: cells of one attempt.
LEMMA FailKeeps ==
    ASSUME IInv, AppendFails
    PROVE  IInv'
<1>1. PICK n \in Nat, p \in [Nat -> Nat] : Placed(p, n)
  BY DEF IInv
<1>2. /\ op # NoOp /\ op' = NoOp /\ faults' = faults + 1
      /\ UNCHANGED <<file, disk, open, nextOff, index, size, tried, losses>>
  BY DEF AppendFails, memVars
<1>3. Placed(p, n)'
  BY <1>1, <1>2 DEF Placed
<1>4. Typed'
  BY <1>2 DEF IInv, Typed
<1>5. Attempted'
  <2>1. NoOp.done = 0 /\ NoOp \in [val : Value \cup {NoOp.val}, done : Nat]
    BY DEF NoOp
  <2>2. size \in Nat /\ op.done \in Nat /\ size + op.done <= Len(file) /\ faults \in Nat
    BY <1>2 DEF IInv, Attempted, Typed
  <2>3. Len(file) \in Nat
    BY LenProperties DEF IInv, Typed
  <2>4. size + 0 <= Len(file) /\ 1..0 = {} /\ faults' # 0
    <3>1. \A d, l \in Nat : size + d <= l => size + 0 <= l
      BY <2>2
    <3>2. faults' # 0
      BY <1>2, <2>2
    <3>3. 1..0 = {}
      OBVIOUS
    <3> QED BY <2>2, <2>3, <3>1, <3>2, <3>3, Zenon
  <2> QED BY <1>2, <2>1, <2>4 DEF Attempted
<1> QED BY <1>3, <1>4, <1>5 DEF IInv

-----------------------------------------------------------------------------
(***************************************************************************)
(* Power losses                                                            *)
(***************************************************************************)
\* A non-empty set of numbers up to n has a largest one.
LEMMA Largest ==
    ASSUME NEW n \in Nat, NEW S \in SUBSET (0..n), S # {}
    PROVE  \E m \in S : \A k \in S : k <= m
<1> DEFINE T == {x \in 0..n : n - x \in S}
<1>1. T \in SUBSET Nat /\ \A k \in S : n - k \in T /\ n - (n - k) = k
  OBVIOUS
<1>2. T # {}
  BY <1>1
<1>3. PICK x \in T : \A y \in T : x <= y
  <2> HIDE DEF T
  <2> QED BY <1>1, <1>2, Smallest
<1>4. n - x \in S /\ x \in 0..n
  BY <1>3
<1>5. ASSUME NEW k \in S
      PROVE  k <= n - x
  <2>1. x <= n - k /\ k \in 0..n
    BY <1>1, <1>3
  <2> QED BY <1>4, <2>1
<1> QED BY <1>4, <1>5

\* f may be the file after a power loss.
MayBeLeft(f) ==
    \E S \in SUBSET Dirty : \E len \in {Len(file), Len(disk)} : f = Survivor(S, len)

\* A record starts in the file after a power loss only where one started before,
\* and it is the same.
LEMMA StartsSurvive ==
    ASSUME Typed, NEW p \in [Nat -> Nat], NEW d \in Nat, OnTheDisk(p, d), p[d] <= Len(file),
           NEW f, MayBeLeft(f)
    PROVE  /\ f \in Seq(Content) /\ p[d] <= Len(f) /\ \A j \in 1..p[d] : f[j] = file[j]
           /\ \A j \in 1..Len(f) : Starts(f[j]) => j \in 1..Len(file) /\ f[j] = file[j]
<1>1. PICK S \in SUBSET Dirty, len \in {Len(file), Len(disk)} :
        f = [j \in 1..len |-> IF j \in S THEN Cell(file, j) ELSE Cell(disk, j)]
  BY DEF MayBeLeft, Survivor
<1>2. file \in Seq(Content) /\ disk \in Seq(Content)
  BY DEF Typed
<1>3. Len(file) \in Nat /\ Len(disk) \in Nat /\ p[d] \in Nat /\ len \in Nat
  <2>1. Len(file) \in Nat /\ Len(disk) \in Nat
    BY <1>2, LenProperties
  <2> QED BY <2>1
<1>4. ASSUME NEW g \in Seq(Content), NEW j \in Nat \ {0}
      PROVE  Cell(g, j) \in Content /\ (j \in 1..Len(g) => Cell(g, j) = g[j])
             /\ (Starts(Cell(g, j)) => j \in 1..Len(g))
  <2>1. Len(g) \in Nat
    BY LenProperties
  <2>2. CASE j <= Len(g)
    <3>1. j \in 1..Len(g) /\ Cell(g, j) = g[j]
      BY <2>1, <2>2 DEF Cell
    <3>2. g[j] \in Content
      BY <3>1, ElementOfSeq
    <3> QED BY <3>1, <3>2
  <2>3. CASE ~(j <= Len(g))
    <3>1. Cell(g, j) = Hole /\ j \notin 1..Len(g)
      BY <2>1, <2>3 DEF Cell
    <3> QED BY <3>1 DEF Content, Starts
  <2> QED BY <2>2, <2>3
<1>5. \A j \in 1..len : j \in Nat \ {0} /\ f[j] = IF j \in S THEN Cell(file, j) ELSE Cell(disk, j)
  BY <1>1, <1>3
<1>6. f \in Seq(Content) /\ Len(f) = len
  <2>1. \A j \in 1..len : (IF j \in S THEN Cell(file, j) ELSE Cell(disk, j)) \in Content
    BY <1>2, <1>4, <1>5
  <2>2. f \in [1..len -> Content]
    BY <1>1, <2>1
  <2> QED BY <1>3, <2>2, FunctionIsSequence
<1>7. p[d] <= len /\ p[d] <= Len(disk)
  BY <1>3 DEF OnTheDisk
<1>8. ASSUME NEW j \in 1..p[d]
      PROVE  f[j] = file[j]
  <2>1. j \in 1..len /\ j \in 1..Len(file) /\ j \in 1..Len(disk)
    <3>1. \A a, b \in Nat : a <= b => \A k \in 1..a : k \in 1..b
      OBVIOUS
    <3> QED BY <1>3, <1>7, <3>1, Zenon
  <2>2. Cell(file, j) = file[j] /\ Cell(disk, j) = disk[j] /\ disk[j] = file[j]
    BY <1>2, <1>4, <1>5, <2>1 DEF OnTheDisk
  <2> QED BY <1>5, <2>1, <2>2
<1>9. ASSUME NEW j \in 1..Len(f), Starts(f[j])
      PROVE  j \in 1..Len(file) /\ f[j] = file[j]
  <2>1. j \in 1..len /\ j \in Nat \ {0}
    BY <1>5, <1>6
  <2>2. CASE j \in 1..p[d]
    <3>1. j \in 1..Len(file)
      BY <1>3, <2>2
    <3> QED BY <1>8, <2>2, <3>1
  <2>3. CASE j \notin 1..p[d]
    <3>1. ~Starts(Cell(disk, j))
      <4> SUFFICES ASSUME Starts(Cell(disk, j)) PROVE FALSE
        OBVIOUS
      <4>1. j \in 1..Len(disk) /\ Cell(disk, j) = disk[j]
        BY <1>2, <1>4, <2>1
      <4>2. j \in p[d]+1..Len(disk)
        BY <1>3, <2>1, <2>3, <4>1
      <4> QED BY <4>1, <4>2 DEF OnTheDisk
    <3>2. f[j] = Cell(file, j)
      BY <1>5, <1>9, <2>1, <3>1
    <3> QED BY <1>2, <1>4, <1>9, <2>1, <3>2
  <2> QED BY <2>2, <2>3
<1> QED BY <1>6, <1>7, <1>8, <1>9

\* A power loss leaves a first part of the log, with everything that is on the
\* disk, and behind it no record that is not the last attempt.
LEMMA LogSurvives ==
    ASSUME Typed, NEW n \in Nat, NEW p \in [Nat -> Nat], Placed(p, n),
           Clean(file, p[n], n, tried), NEW d \in 0..n, OnTheDisk(p, d),
           NEW f, MayBeLeft(f)
    PROVE  /\ f \in Seq(Content)
           /\ \E m \in d..n :
                /\ Chain(f, p, m)
                /\ \A i \in 0..m-1 : RecordOf(f, p[i]) = RecordOf(file, p[i])
                /\ ~IsRecord(f, p[m]) \/ (m = n /\ Clean(f, p[m], m, tried))
<1>1. file \in Seq(Content) /\ Chain(file, p, n) /\ Len(file) \in Nat
  <2>1. file \in Seq(Content) /\ Chain(file, p, n)
    BY DEF Typed, Placed
  <2> QED BY <2>1, LenProperties
<1>2. d \in Nat /\ p[d] <= Len(file)
  <2>1. \A i \in 0..n : p[i] <= p[n] /\ p[i] <= Len(file)
    BY <1>1, ChainGrows
  <2> QED BY <2>1
<1>3. /\ f \in Seq(Content) /\ p[d] <= Len(f) /\ \A j \in 1..p[d] : f[j] = file[j]
      /\ \A j \in 1..Len(f) : Starts(f[j]) => j \in 1..Len(file) /\ f[j] = file[j]
  <2>1. f \in Seq(Content)
    BY <1>2, StartsSurvive
  <2>2. p[d] <= Len(f)
    BY <1>2, StartsSurvive
  <2>3. \A j \in 1..p[d] : f[j] = file[j]
    BY <1>2, StartsSurvive
  <2>4. \A j \in 1..Len(f) : Starts(f[j]) => j \in 1..Len(file) /\ f[j] = file[j]
    BY <1>2, StartsSurvive
  <2> QED BY <2>1, <2>2, <2>3, <2>4
<1>4. ASSUME NEW k \in 0..n
      PROVE  Chain(file, p, k)
  <2>1. \A i \in 0..k-1 : i \in 0..n-1
    OBVIOUS
  <2> QED BY <1>1, <2>1 DEF Chain
<1>5. Chain(f, p, d)
  BY <1>1, <1>2, <1>3, <1>4, ChainAgrees
<1> DEFINE M == {k \in d..n : Chain(f, p, k)}
<1>6. d \in M /\ M \in SUBSET (0..n)
  BY <1>5
<1>7. PICK m \in M : \A k \in M : k <= m
  <2> HIDE DEF M
  <2> QED BY <1>6, Largest
<1>8. m \in d..n /\ m \in Nat /\ Chain(f, p, m)
  BY <1>7
\* The record of f that starts where one of the log does is that one.
<1>9. ASSUME NEW i \in 0..n, IsRecord(f, p[i])
      PROVE  RecordOf(f, p[i]) = RecordOf(file, p[i])
  <2>1. p[i] \in Nat
    <3>1. i \in Nat
      OBVIOUS
    <3> QED BY <3>1, Zenon
  <2>2. p[i] + 1 \in 1..Len(f) /\ Starts(f[p[i] + 1])
    BY <1>3, <1>9, <2>1, RecordStarts
  <2>3. f[p[i] + 1] = file[p[i] + 1]
    BY <1>3, <2>2
  <2> QED BY <2>3 DEF RecordOf
<1>10. ASSUME NEW i \in 0..m-1
       PROVE  RecordOf(f, p[i]) = RecordOf(file, p[i])
  <2>1. i \in 0..n /\ IsRecord(f, p[i])
    BY <1>8 DEF Chain
  <2> QED BY <1>9, <2>1
<1>11. CASE m = n
  <2>1. Clean(f, p[n], n, tried)
    <3> SUFFICES ASSUME NEW j \in p[n]+1..Len(f), Starts(f[j])
                 PROVE  j = p[n] + 1 /\ f[j][1] = n /\ f[j][2] \in tried
      BY DEF Clean
    <3>1. p[n] \in Nat /\ Len(f) \in Nat
      BY <1>3, LenProperties
    <3>2. j \in 1..Len(f)
      BY <3>1
    <3>3. j \in 1..Len(file) /\ f[j] = file[j]
      BY <1>3, <3>2
    <3>4. j \in p[n]+1..Len(file)
      BY <1>1, <3>1, <3>3
    <3> QED BY <3>3, <3>4 DEF Clean
  <2> QED BY <1>3, <1>8, <1>10, <1>11, <2>1
<1>12. CASE m # n
  <2>1. m \in 0..n-1 /\ m \in 0..n /\ m + 1 \in d..n /\ ~(m + 1 <= m)
    BY <1>8, <1>12
  <2>2. ~IsRecord(f, p[m])
    <3> SUFFICES ASSUME IsRecord(f, p[m]) PROVE FALSE
      OBVIOUS
    <3>1. RecordOf(f, p[m]) = RecordOf(file, p[m])
      BY <1>9, <2>1
    <3>2. RecordOf(f, p[m]).off = m /\ p[m + 1] = After(f, p[m])
      BY <1>1, <2>1, <3>1 DEF Chain, After
    <3>3. Chain(f, p, m + 1)
      <4>1. \A i \in 0..(m+1)-1 : i \in 0..m-1 \/ i = m
        BY <1>8
      <4> QED BY <1>8, <3>2, <4>1 DEF Chain
    <3>4. m + 1 \in M
      BY <2>1, <3>3
    <3> HIDE DEF M
    <3> QED BY <1>7, <2>1, <3>4
  <2> QED BY <1>3, <1>8, <1>10, <2>2
<1> QED BY <1>11, <1>12

\* A power loss leaves the first m records of the log, all d of those on the disk,
\* and no more than one record behind them that could be taken for another.
LEMMA LossKeeps ==
    ASSUME IInv, PowerLoss, MaxLoss <= 1
    PROVE  /\ IInv' /\ disk' = file'
           /\ \E n \in Nat : \E p \in [Nat -> Nat] : \E d \in 0..n : \E m \in d..n :
                /\ Placed(p, n) /\ OnTheDisk(p, d) /\ Placed(p, m)'
                /\ \A i \in 0..m-1 : RecordOf(file', p[i]) = RecordOf(file, p[i])
<1>1. PICK n \in Nat, p \in [Nat -> Nat] : Placed(p, n)
  BY DEF IInv
<1>2. losses = 0
  BY LimitAssumption DEF IInv, Typed, PowerLoss
<1>3. PICK f : MayBeLeft(f) /\ file' = f /\ disk' = f
  BY DEF PowerLoss, MayBeLeft
<1>4. /\ open' = FALSE /\ nextOff' = 0 /\ index' = Empty /\ size' = 0 /\ op' = NoOp
      /\ losses' = 1 /\ tried' = tried /\ faults' = faults
  BY <1>2 DEF PowerLoss, Forget
<1>5. Typed /\ Clean(file, p[n], n, tried)
  BY <1>1, <1>2 DEF Placed, IInv
<1>6. PICK d \in 0..n : OnTheDisk(p, d)
  BY <1>1, <1>2 DEF Placed, OnTheDisk
<1>7. /\ f \in Seq(Content)
      /\ \E m \in d..n :
            /\ Chain(f, p, m)
            /\ \A i \in 0..m-1 : RecordOf(f, p[i]) = RecordOf(file, p[i])
            /\ ~IsRecord(f, p[m]) \/ (m = n /\ Clean(f, p[m], m, tried))
  BY <1>1, <1>3, <1>5, <1>6, LogSurvives
<1>8. PICK m \in d..n :
        /\ Chain(f, p, m)
        /\ \A i \in 0..m-1 : RecordOf(f, p[i]) = RecordOf(file, p[i])
        /\ ~IsRecord(f, p[m]) \/ (m = n /\ Clean(f, p[m], m, tried))
  BY <1>7
<1>9. Placed(p, m)'
  BY <1>3, <1>4, <1>8 DEF Placed
<1>10. Typed'
  <2>1. DOMAIN Empty = {} /\ 0..0-1 = {}
    BY DEF Empty
  <2>2. DOMAIN index' = 0..nextOff'-1
    BY <1>4, <2>1
  <2>3. open' \in BOOLEAN /\ nextOff' \in Nat /\ size' \in Nat /\ losses' \in 0..1
    <3>1. FALSE \in BOOLEAN /\ 0 \in Nat /\ 1 \in 0..1
      OBVIOUS
    <3> QED BY <1>4, <3>1, Zenon
  <2>4. tried' \subseteq Value /\ faults' \in Nat
    BY <1>4, <1>5 DEF Typed
  <2> QED BY <1>3, <1>4, <1>7, <2>2, <2>3, <2>4 DEF Typed
<1>11. Attempted'
  <2>1. NoOp.done = 0 /\ NoOp \in [val : Value \cup {NoOp.val}, done : Nat]
    BY DEF NoOp
  <2>2. 1..NoOp.done = {}
    BY <2>1
  <2> QED BY <1>4, <2>1, <2>2 DEF Attempted
<1>12. m \in Nat
  OBVIOUS
<1>13. IInv'
  BY <1>9, <1>10, <1>11, <1>12 DEF IInv
<1>14. \A i \in 0..m-1 : RecordOf(file', p[i]) = RecordOf(file, p[i])
  BY <1>3, <1>8
<1>15. disk' = file'
  BY <1>3
<1> QED BY <1>1, <1>6, <1>9, <1>13, <1>14, <1>15

-----------------------------------------------------------------------------
\* The step of the invariance proof, action by action.
LEMMA NextFile ==
    ASSUME IInv, [Next]_vars, MaxLoss <= 1
    PROVE  IInv'
<1>1. CASE Open
  BY <1>1, OpenKeeps
<1>2. CASE Close
  <2>1. open /\ Forget /\ op' = NoOp /\ UNCHANGED <<file, disk, tried, faults, losses>>
    BY <1>2 DEF Close
  <2> QED BY <2>1, ShutKeeps
<1>3. CASE \E v \in Value : AppendAt(v)
  BY <1>3, AttemptKeeps
<1>4. CASE WriteCell
  BY <1>4, CellKeeps
<1>5. CASE Commit
  BY <1>5, CommitKeeps
<1>6. CASE AppendFails
  BY <1>6, FailKeeps
<1>7. CASE ProcessCrash
  <2>1. open /\ Forget /\ op' = NoOp /\ UNCHANGED <<file, disk, tried, faults, losses>>
    BY <1>7 DEF ProcessCrash
  <2> QED BY <2>1, ShutKeeps
<1>8. CASE PowerLoss
  BY <1>8, LossKeeps
<1>9. CASE UNCHANGED vars
  <2>1. UNCHANGED <<file, disk, open, nextOff, index, size, op, tried, faults, losses>>
    BY <1>9 DEF vars, memVars
  <2>2. PICK n \in Nat, p \in [Nat -> Nat] : Placed(p, n)
    BY DEF IInv
  <2>3. Placed(p, n)'
    BY <2>1, <2>2 DEF Placed
  <2>4. Typed' /\ Attempted'
    BY <2>1 DEF IInv, Typed, Attempted
  <2> QED BY <2>3, <2>4 DEF IInv
<1> QED BY <1>1, <1>2, <1>3, <1>4, <1>5, <1>6, <1>7, <1>8, <1>9 DEF Next

\* IInv is an invariant.
LEMMA FileHolds ==
    ASSUME MaxLoss <= 1
    PROVE  Spec => []IInv
<1>1. Init => IInv
  BY InitFile
<1>2. IInv /\ [Next]_vars => IInv'
  BY NextFile
<1> QED BY <1>1, <1>2, PTL DEF Spec

-----------------------------------------------------------------------------
(***************************************************************************)
(* What it is good for                                                     *)
(***************************************************************************)
\* A chain within the file gives the types of the index.
LEMMA TypeFollows == IInv => TypeOK
<1> SUFFICES ASSUME IInv PROVE TypeOK
  OBVIOUS
<1>1. PICK n \in Nat, p \in [Nat -> Nat] : Placed(p, n)
  BY DEF IInv
<1>2. Typed /\ Attempted /\ Chain(file, p, n)
  BY <1>1 DEF IInv, Placed
<1>3. file \in Seq(Content) /\ disk \in Seq(Content) /\ Len(file) \in Nat /\ size \in Nat /\ nextOff \in Nat
  <2>1. file \in Seq(Content) /\ disk \in Seq(Content) /\ size \in Nat /\ nextOff \in Nat
    BY <1>2 DEF Typed
  <2> QED BY <2>1, LenProperties
<1>4. ASSUME NEW f \in {file, disk}, NEW j \in 1..Len(f)
      PROVE  f[j] = Hole \/ f[j][2] \in Value
  <2>1. f[j] \in Content
    BY <1>3, ElementOfSeq
  <2> QED BY <2>1 DEF Content
<1>5. size \in 0..Len(file)
  <2>1. CASE open
    <3>1. size + op.done <= Len(file) /\ op.done \in Nat
      BY <1>2, <2>1 DEF Attempted
    <3>2. \A d \in Nat : size + d <= Len(file) => size \in 0..Len(file)
      BY <1>3
    <3> QED BY <3>1, <3>2, Zenon
  <2>2. CASE ~open
    BY <1>2, <1>3, <2>2 DEF Typed
  <2> QED BY <2>1, <2>2
<1>6. DOMAIN index = 0..nextOff-1
  BY <1>2 DEF Typed
<1>7. ASSUME NEW o \in DOMAIN index
      PROVE  index[o] \in 0..size-1
  <2>1. CASE open
    <3>1. n = nextOff /\ size = p[n] /\ \A i \in 0..n-1 : index[i] = p[i]
      BY <1>1, <2>1 DEF Placed
    <3>2. o \in 0..n-1 /\ o \in Nat /\ index[o] = p[o]
      BY <1>3, <1>6, <3>1
    <3>3. p[o] \in Nat /\ p[o] < p[n]
      BY <1>2, <1>3, <3>2, ChainGrows
    <3> QED BY <1>3, <3>1, <3>2, <3>3
  <2>2. CASE ~open
    <3>1. nextOff = 0
      BY <1>2, <2>2 DEF Typed
    <3> QED BY <1>6, <3>1
  <2> QED BY <2>1, <2>2
<1>8. op = NoOp \/ (open /\ op.val \in Value /\ op.done \in 0..Size[op.val])
  BY <1>2 DEF Attempted, Typed
<1> QED BY <1>2, <1>3, <1>4, <1>5, <1>6, <1>7, <1>8 DEF TypeOK, Typed

\* With Placed of any places that agree on the records.
LEMMA InvFollows == IInv => FileInv
<1> SUFFICES ASSUME IInv PROVE FileInv
  OBVIOUS
<1>1. PICK n \in Nat, p \in [Nat -> Nat] : Placed(p, n)
  BY DEF IInv
<1>2. Typed /\ Attempted /\ file \in Seq(Content)
  BY DEF IInv, Typed
<1>3. PICK m \in {n, n + 1}, q \in [Nat -> Nat] :
        /\ Chain(file, q, m) /\ ~IsRecord(file, q[m])
        /\ \A i \in 0..n : q[i] = p[i]
        /\ m = n + 1 => RecordOf(file, q[n]).val \in tried
  BY <1>1, <1>2, AllPlaced
<1>4. m \in Nat /\ n \in 0..m
  OBVIOUS
<1> DEFINE r == Places(file)
<1>5. DOMAIN r = 0..m /\ \A i \in 0..m : r[i] = q[i]
  <2>1. Len(Scan(file)[0]) = m
    BY <1>2, <1>3, <1>4, ReplayFinds
  <2>2. DOMAIN r = 0..m /\ \A i \in 0..m : r[i] = IF i = 0 THEN 0 ELSE After(file, Scan(file)[0][i].at)
    BY <2>1 DEF Places
  <2>3. ASSUME NEW i \in 0..m
        PROVE  r[i] = q[i]
    <3>1. CASE i = 0
      BY <1>3, <2>2, <3>1 DEF Chain
    <3>2. CASE i # 0
      <4>1. i \in 1..m /\ i - 1 \in 0..m-1 /\ (i - 1) + 1 = i
        BY <1>4, <3>2
      <4>2. Scan(file)[0][i].at = q[i - 1]
        <5>1. Scan(file)[0][i] = RecordOf(file, q[i - 1])
          BY <1>2, <1>3, <1>4, <4>1, ReplayFinds
        <5> QED BY <5>1 DEF RecordOf
      <4>3. q[(i - 1) + 1] = After(file, q[i - 1])
        BY <1>3, <4>1 DEF Chain
      <4> HIDE DEF r
      <4> QED BY <2>2, <3>2, <4>1, <4>2, <4>3
    <3> QED BY <3>1, <3>2
  <2> QED BY <2>2, <2>3
<1>6. \A i \in 0..n : i \in 0..m /\ r[i] = p[i]
  <2>1. \A i \in 0..n : i \in 0..m
    BY <1>4
  <2> HIDE DEF r
  <2> QED BY <1>3, <1>5, <2>1
<1> HIDE DEF r
<1>7. \A i \in 0..n-1 : i \in 0..n /\ i + 1 \in 0..n
  OBVIOUS
<1>8. 0 \in 0..n /\ n \in 0..n
  OBVIOUS
<1>9. Chain(file, r, n)
  BY <1>1, <1>6, <1>7, <1>8 DEF Placed, Chain
<1>10. Placed(r, n)
  BY <1>1, <1>6, <1>7, <1>8, <1>9 DEF Placed
<1> QED BY <1>2, <1>4, <1>5, <1>10 DEF FileInv, r

-----------------------------------------------------------------------------
(***************************************************************************)
(* Reads                                                                   *)
(***************************************************************************)
\* What a read of an offset the log has returns: the records from there on, as
\* many as it may, and the one of a complete attempt behind them.
LEMMA ReadReturns ==
    ASSUME IInv, open, NEW max \in Nat, NEW o \in 0..nextOff-1,
           NEW m \in Nat, NEW q \in [Nat -> Nat], nextOff <= m,
           Chain(file, q, m), ~IsRecord(file, q[m]), index[o] = q[o]
    PROVE  /\ Len(ReadFrom(o, max).recs) = IF max > 0 /\ max <= m - o THEN max ELSE m - o
           /\ \A i \in 1..Len(ReadFrom(o, max).recs) :
                ReadFrom(o, max).recs[i] = RecordOf(file, q[o + i - 1])
           /\ ReadFrom(o, max).err => q[m] # Len(file)
<1>1. file \in Seq(Content) /\ DOMAIN index = 0..nextOff-1 /\ nextOff \in Nat
  BY DEF IInv, Typed
<1>2. o \in DOMAIN index /\ o \in 0..m /\ o \in o..m /\ m - o \in Nat /\ ~(o >= nextOff) /\ o \in Nat
  BY <1>1
<1> DEFINE found == ScanFrom(file, o)[q[o]]
<1>3. found = Recs(file, q, o, m) /\ found \in Seq(Found(file)) /\ Len(found) = m - o
  <2>1. found = Recs(file, q, o, m)
    BY <1>1, <1>2, ScanChain
  <2> HIDE DEF found
  <2> QED BY <1>2, <2>1, RecsType
<1>4. \A i \in 1..m-o : found[i] = RecordOf(file, q[o + i - 1])
  <2> HIDE DEF found
  <2> QED BY <1>3 DEF Recs
<1>5. ScanEnd(file, q[o]) = q[m]
  BY <1>1, <1>2, ScanEndChain
<1>6. ReadFrom(o, max) =
        IF max > 0 /\ Len(found) >= max
        THEN [recs |-> SubSeq(found, 1, max), err |-> FALSE]
        ELSE [recs |-> found, err |-> ScanEnd(file, q[o]) # Len(file)]
  BY <1>2 DEF ReadFrom
<1> HIDE DEF found
<1>7. CASE max > 0 /\ max <= m - o
  <2>1. Len(found) >= max
    BY <1>2, <1>3, <1>7
  <2>2. ReadFrom(o, max).recs = SubSeq(found, 1, max) /\ ReadFrom(o, max).err = FALSE
    BY <1>6, <1>7, <2>1
  <2>3. \A i \in 1..max : i \in 1..m-o /\ i \in 1..Len(found) /\ 1+i-1 = i
    BY <1>2, <1>3, <1>7
  <2>4. \A i \in 1..max : found[i] \in Found(file)
    BY <1>3, <2>3, ElementOfSeq
  <2>5. Len(SubSeq(found, 1, max)) = max
    <3>1. Len(SubSeq(found, 1, max)) = IF 1 <= max THEN max-1+1 ELSE 0
      BY <2>4, SubSeqProperties
    <3> QED BY <1>7, <3>1
  <2>6. \A i \in 1..max : SubSeq(found, 1, max)[i] = found[i]
    <3>1. \A i \in 1..max-1+1 : SubSeq(found, 1, max)[i] = found[1+i-1]
      BY <2>4, SubSeqProperties
    <3>2. max-1+1 = max
      OBVIOUS
    <3> QED BY <2>3, <3>1, <3>2
  <2>7. \A i \in 1..max : SubSeq(found, 1, max)[i] = RecordOf(file, q[o + i - 1])
    BY <1>4, <2>3, <2>6
  <2> QED BY <1>7, <2>2, <2>5, <2>7
<1>8. CASE ~(max > 0 /\ max <= m - o)
  <2>1. ~(max > 0 /\ Len(found) >= max)
    BY <1>2, <1>3, <1>8
  <2>2. ReadFrom(o, max).recs = found /\ (ReadFrom(o, max).err => q[m] # Len(file))
    <3>1. ReadFrom(o, max) = [recs |-> found, err |-> ScanEnd(file, q[o]) # Len(file)]
      BY <1>6, <2>1
    <3>2. ReadFrom(o, max).recs = found
      BY <3>1
    <3>3. ASSUME q[m] = Len(file)
          PROVE  ReadFrom(o, max).err = FALSE
      <4>1. (ScanEnd(file, q[o]) # Len(file)) = FALSE
        BY <1>5, <3>3
      <4>2. ReadFrom(o, max) = [recs |-> found, err |-> FALSE]
        BY <3>1, <4>1, Zenon
      <4> QED BY <4>2
    <3> QED BY <3>2, <3>3
  <2> QED BY <1>3, <1>4, <1>8, <2>2
<1> QED BY <1>7, <1>8

\* What a read returns, from what is in the file.
LEMMA ReadsFollow == IInv => ReadsTheLog /\ ReadsOnlyTheLog
<1> SUFFICES ASSUME IInv, open, op = NoOp PROVE ReadsTheLog /\ ReadsOnlyTheLog
  BY DEF ReadsTheLog, ReadsOnlyTheLog
<1>1. PICK n \in Nat, p \in [Nat -> Nat] : Placed(p, n)
  BY DEF IInv
<1>2. Typed /\ Attempted /\ file \in Seq(Content)
  BY DEF IInv, Typed
<1>3. PICK m \in {n, n + 1}, q \in [Nat -> Nat] :
        /\ Chain(file, q, m) /\ ~IsRecord(file, q[m])
        /\ \A i \in 0..n : q[i] = p[i]
        /\ m = n + 1 => RecordOf(file, q[n]).val \in tried
  BY <1>1, <1>2, AllPlaced
<1>4. m \in Nat /\ n = nextOff /\ nextOff <= m /\ size = p[n] /\ \A o \in 0..n-1 : index[o] = p[o]
  <2>1. n = nextOff /\ size = p[n] /\ \A o \in 0..n-1 : index[o] = p[o]
    BY <1>1 DEF Placed
  <2>2. m \in Nat /\ n <= m
    OBVIOUS
  <2> QED BY <2>1, <2>2
<1>5. \A o \in 0..n-1 : o \in 0..n /\ index[o] = q[o]
  BY <1>3, <1>4
<1>6. LogRecords = [i \in 1..n |-> RecordOf(file, index[i - 1]).val]
  BY <1>4 DEF LogRecords
\* Reads behind the log return nothing.
<1>7. ASSUME NEW max \in 0..2
      PROVE  ReadFrom(n, max) = [recs |-> << >>, err |-> FALSE]
  <2>1. n \notin DOMAIN index /\ n >= nextOff
    BY <1>2, <1>4 DEF Typed
  <2> QED BY <2>1 DEF ReadFrom
<1>8. ASSUME NEW o \in 0..n-1, NEW max \in 0..2
      PROVE  LET rr == ReadFrom(o, max).recs
             IN  /\ Len(rr) = IF max > 0 /\ max <= m - o THEN max ELSE m - o
                 /\ \A i \in 1..Len(rr) : rr[i] = RecordOf(file, q[o + i - 1])
                 /\ ReadFrom(o, max).err => q[m] # Len(file)
  <2>1. max \in Nat /\ o \in 0..nextOff-1 /\ index[o] = q[o]
    BY <1>4, <1>5
  <2> QED BY <1>3, <1>4, <2>1, ReadReturns
<1>9. ReadsTheLog
  <2> SUFFICES ASSUME NEW o \in 0..nextOff, NEW max \in 0..2
               PROVE  LET r == ReadFrom(o, max).recs
                          due == IF max > 0 /\ max < nextOff - o THEN max ELSE nextOff - o
                      IN  /\ Len(r) >= due
                          /\ \A i \in 1..due : r[i].off = o + i - 1 /\ r[i].val = LogRecords[o + i]
                          /\ \A i \in 1..Len(r) :
                                o + i > nextOff => /\ o + i = nextOff + 1
                                                   /\ r[i].off = nextOff
                                                   /\ r[i].val \in tried
    BY DEF ReadsTheLog
  <2> DEFINE r == ReadFrom(o, max).recs
             due == IF max > 0 /\ max < nextOff - o THEN max ELSE nextOff - o
  <2>1. CASE o = n
    <3>1. Len(r) = 0
      <4>1. ReadFrom(o, max) = [recs |-> << >>, err |-> FALSE]
        BY <1>7, <2>1
      <4> QED BY <4>1
    <3>2. due = 0
      BY <1>4, <2>1
    <3> HIDE DEF r, due
    <3>3. Len(r) >= due /\ 1..due = {} /\ 1..Len(r) = {}
      BY <3>1, <3>2
    <3> QED BY <3>3 DEF r, due
  <2>2. CASE o # n
    <3>1. o \in 0..n-1
      BY <1>4, <2>2
    <3>2. /\ Len(r) = IF max > 0 /\ max <= m - o THEN max ELSE m - o
          /\ \A i \in 1..Len(r) : r[i] = RecordOf(file, q[o + i - 1])
      BY <1>8, <3>1
    <3> HIDE DEF r
    <3>3. due \in Nat /\ due <= n - o /\ due <= Len(r) /\ Len(r) \in Nat
      <4>2. max \in Nat /\ n - o \in Nat /\ m - o \in Nat /\ n - o <= m - o
        BY <1>4, <3>1
      <4>3. due = IF max > 0 /\ max < n - o THEN max ELSE n - o
        BY <1>4
      <4> HIDE DEF due
      <4>4. Len(r) = IF max > 0 /\ max <= m - o THEN max ELSE m - o
        BY <3>2
      <4> DEFINE k == n - o
                 l == m - o
      <4>5. k \in Nat /\ l \in Nat /\ k <= l /\ max \in Nat
        BY <4>2
      <4>6. due = IF max > 0 /\ max < k THEN max ELSE k
        BY <4>3
      <4>7. Len(r) = IF max > 0 /\ max <= l THEN max ELSE l
        BY <4>4
      <4> HIDE DEF k, l
      <4>8. due \in Nat /\ due <= k
        BY <4>5, <4>6
      <4>9. Len(r) \in Nat
        BY <4>5, <4>7
      <4>10. due <= Len(r)
        <5>1. CASE max > 0 /\ max < k
          <6>1. due = max /\ Len(r) = max
            BY <4>5, <4>6, <4>7, <5>1
          <6> QED BY <4>5, <6>1
        <5>2. CASE ~(max > 0 /\ max < k)
          <6>1. due = k
            BY <4>6, <5>2
          <6>2. k <= IF max > 0 /\ max <= l THEN max ELSE l
            BY <4>5, <5>2
          <6> QED BY <4>7, <6>1, <6>2
        <5> QED BY <5>1, <5>2
      <4> QED BY <4>8, <4>9, <4>10 DEF k
    <3> HIDE DEF due
    <3>4. ASSUME NEW i \in 1..due
          PROVE  r[i].off = o + i - 1 /\ r[i].val = LogRecords[o + i]
      <4>1. i \in 1..Len(r) /\ o + i - 1 \in 0..n-1 /\ o + i \in 1..n /\ (o + i) - 1 = o + i - 1
        <5>1. \A y, z \in Nat : y <= n - o /\ y <= z =>
                \A k \in 1..y : k \in 1..z /\ o + k - 1 \in 0..n-1 /\ o + k \in 1..n /\ (o + k) - 1 = o + k - 1
          BY <3>1
        <5> QED BY <3>3, <5>1, Zenon
      <4>2. r[i] = RecordOf(file, q[o + i - 1])
        BY <3>2, <4>1
      <4>3. o + i - 1 \in 0..m-1
        BY <1>4, <4>1
      <4>4. RecordOf(file, q[o + i - 1]).off = o + i - 1
        BY <1>3, <4>3 DEF Chain
      <4>5. LogRecords[o + i] = RecordOf(file, index[o + i - 1]).val
        BY <1>6, <4>1
      <4>6. index[o + i - 1] = q[o + i - 1]
        BY <1>5, <4>1
      <4> QED BY <4>2, <4>4, <4>5, <4>6
    <3>5. Len(r) >= due
      BY <3>3
    \* Beyond the log there is the record of one refused append, or nothing.
    <3>6. ASSUME NEW i \in 1..Len(r), o + i > n
          PROVE  o + i = n + 1 /\ r[i].off = n /\ r[i].val \in tried
      <4>1. i \in Nat /\ i <= m - o /\ o \in Nat
        <5>1. Len(r) <= m - o
          <6>1. max \in Nat /\ m - o \in Nat
            BY <1>4, <3>1
          <6> QED BY <3>2, <6>1
        <5>2. m - o \in Int
          BY <1>4, <3>1
        <5> QED BY <3>1, <3>3, <3>6, <5>1, <5>2
      <4>2. m = n + 1 /\ o + i = n + 1 /\ o + i - 1 = n /\ n \in 0..m-1
        <5>1. n \in Nat /\ o \in Nat /\ i \in Nat /\ m \in {n, n + 1} /\ i <= m - o /\ o + i > n
          BY <3>6, <4>1
        <5>2. \A a, b, c, d \in Nat : d \in {a, a + 1} /\ c <= d - b /\ b + c > a =>
                d = a + 1 /\ b + c = a + 1 /\ b + c - 1 = a /\ a \in 0..d-1
          OBVIOUS
        <5>3. m \in Nat
          BY <1>4
        <5> QED BY <5>1, <5>2, <5>3, Zenon
      <4>3. r[i] = RecordOf(file, q[n])
        BY <3>2, <4>2
      <4>4. RecordOf(file, q[n]).off = n
        BY <1>3, <4>2 DEF Chain
      <4>5. RecordOf(file, q[n]).val \in tried
        BY <1>3, <4>2
      <4> QED BY <4>2, <4>3, <4>4, <4>5
    <3>7. \A i \in 1..Len(r) :
            o + i > nextOff => o + i = nextOff + 1 /\ r[i].off = nextOff /\ r[i].val \in tried
      BY <1>4, <3>6
    <3> QED BY <3>4, <3>5, <3>7 DEF r, due
  <2> QED BY <2>1, <2>2
\* With no failed write in the file, nothing is behind the log.
<1>10. ReadsOnlyTheLog
  <2> SUFFICES ASSUME faults = 0, NEW o \in 0..nextOff, NEW max \in 0..2
               PROVE  ~ReadFrom(o, max).err /\ Len(ReadFrom(o, max).recs) <= nextOff - o
    BY DEF ReadsOnlyTheLog
  <2>1. Len(file) = p[n] /\ p[n] \in Nat
    <3>1. Len(file) = size + op.done /\ op.done = 0
      BY <1>2 DEF Attempted, NoOp
    <3>2. p[n] \in Nat
      OBVIOUS
    <3> QED BY <1>4, <3>1, <3>2
  <2>2. ~IsRecord(file, p[n])
    <3>1. p[n] + 1 \notin 1..Len(file)
      BY <2>1
    <3> QED BY <1>2, <2>1, <3>1, RecordStarts
  <2>3. m = n /\ q[m] = Len(file)
    <3>1. CASE m = n
      BY <1>3, <2>1, <3>1
    <3>2. CASE m = n + 1
      <4>1. n \in 0..m-1 /\ n \in 0..n
        BY <3>2
      <4> QED BY <1>3, <2>2, <4>1 DEF Chain
    <3> QED BY <3>1, <3>2
  <2>4. CASE o = n
    <3>1. nextOff - o = 0
      BY <1>4, <2>4
    <3>2. ReadFrom(o, max) = [recs |-> << >>, err |-> FALSE]
      BY <1>7, <2>4
    <3>3. Len(ReadFrom(o, max).recs) = 0
      BY <3>2
    <3>4. ReadFrom(o, max).err = FALSE
      BY <3>2
    <3> QED BY <3>1, <3>3, <3>4
  <2>5. CASE o # n
    <3>1. o \in 0..n-1
      BY <1>4, <2>5
    <3>2. /\ Len(ReadFrom(o, max).recs) = IF max > 0 /\ max <= m - o THEN max ELSE m - o
          /\ ReadFrom(o, max).err => q[m] # Len(file)
      BY <1>8, <3>1
    <3>3. Len(ReadFrom(o, max).recs) <= n - o
      BY <2>3, <3>1, <3>2
    <3> QED BY <1>4, <2>3, <3>2, <3>3
  <2> QED BY <2>4, <2>5
<1> QED BY <1>9, <1>10

\* The inductive invariant holds however many values, writes, crashes and faults
\* there are, while at most one power loss comes between two appends that succeed.
THEOREM FileStays ==
    ASSUME MaxLoss <= 1
    PROVE  Spec => []FileInv
<1>1. IInv => FileInv
  BY InvFollows
<1>2. Spec => []IInv
  BY FileHolds
<1> QED BY <1>1, <1>2, PTL

\* The Log object is consistent with the file: the offsets are indexed without a
\* gap, and every position is one of the file (replay and appendLocked).
THEOREM TypeCorrect ==
    ASSUME MaxLoss <= 1
    PROVE  Spec => []TypeOK
<1>1. IInv => TypeOK
  BY TypeFollows
<1>2. Spec => []IInv
  BY FileHolds
<1> QED BY <1>1, <1>2, PTL

\* A read returns the records of the log at its offsets, and all of them, with the
\* remains of failed appends behind the last one, of which it returns at most the
\* record of one refused append, under the offset it asked for (ReadFrom).
THEOREM ReadsLog ==
    ASSUME MaxLoss <= 1
    PROVE  Spec => []ReadsTheLog
<1>1. IInv => ReadsTheLog
  BY ReadsFollow
<1>2. Spec => []IInv
  BY FileHolds
<1> QED BY <1>1, <1>2, PTL

\* Until a write or a sync fails, a read returns no error and nothing beyond the
\* log: replay has cut off what crashes left (replay and ReadFrom).
THEOREM ReadsNoMore ==
    ASSUME MaxLoss <= 1
    PROVE  Spec => []ReadsOnlyTheLog
<1>1. IInv => ReadsOnlyTheLog
  BY ReadsFollow
<1>2. Spec => []IInv
  BY FileHolds
<1> QED BY <1>1, <1>2, PTL

-----------------------------------------------------------------------------
(***************************************************************************)
(* The log that clients see, and the refinement                            *)
(***************************************************************************)
\* The log that replay will find is the records of the chain that ends in none.
LEMMA LogClosed ==
    ASSUME Typed, ~open, NEW m \in Nat, NEW q \in [Nat -> Nat],
           Chain(file, q, m), ~IsRecord(file, q[m])
    PROVE  /\ LogRecords \in Seq(Value) /\ Len(LogRecords) = m
           /\ \A i \in 1..m : LogRecords[i] = RecordOf(file, q[i - 1]).val
<1>1. file \in Seq(Content)
  BY DEF Typed
<1> DEFINE found == Scan(file)[0]
<1>2. Len(found) = m
  BY <1>1, ReplayFinds
<1>3. \A i \in 1..m : found[i] = RecordOf(file, q[i - 1])
  <2> TAKE i \in 1..m
  <2> QED BY <1>1, ReplayFinds
<1> HIDE DEF found
<1>4. LogRecords = [i \in 1..m |-> found[i].val]
  BY <1>2 DEF LogRecords, found
<1>5. \A i \in 1..m : LogRecords[i] = RecordOf(file, q[i - 1]).val
  BY <1>3, <1>4
<1>6. \A i \in 1..m : RecordOf(file, q[i - 1]).val \in Value
  <2>1. \A i \in 1..m : i - 1 \in 0..m-1
    OBVIOUS
  <2> QED BY <1>1, <2>1, ChainStep
<1>7. LogRecords \in [1..m -> Value]
  BY <1>3, <1>4, <1>6
<1> QED BY <1>5, <1>7, FunctionIsSequence

\* What the places of the records say of the log: it is these records, and while
\* the file is closed perhaps the one of a complete attempt.
LogMatches(p, n) ==
    /\ LogRecords \in Seq(Value)
    /\ Len(LogRecords) = n \/ (~open /\ Len(LogRecords) = n + 1 /\ LogRecords[n + 1] \in tried)
    /\ \A i \in 1..n : LogRecords[i] = RecordOf(file, p[i - 1]).val

\* LogRecords are the records of the chain, and behind them at most one attempt.
LEMMA LogIs ==
    ASSUME Typed, NEW n \in Nat, NEW p \in [Nat -> Nat], Placed(p, n)
    PROVE  LogMatches(p, n)
<1>1. file \in Seq(Content) /\ Chain(file, p, n) /\ tried \subseteq Value
  BY DEF Typed, Placed
<1>2. \A i \in 1..n : i - 1 \in 0..n-1
  OBVIOUS
<1>3. \A i \in 1..n : RecordOf(file, p[i - 1]).val \in Value
  BY <1>1, <1>2, ChainStep
<1>4. CASE open
  <2>1. n = nextOff /\ \A o \in 0..n-1 : index[o] = p[o]
    BY <1>4 DEF Placed
  <2>2. LogRecords = [i \in 1..n |-> RecordOf(file, index[i - 1]).val]
    BY <1>4, <2>1 DEF LogRecords
  <2>3. \A i \in 1..n : index[i - 1] = p[i - 1]
    BY <1>2, <2>1
  <2>4. \A i \in 1..n : LogRecords[i] = RecordOf(file, p[i - 1]).val
    BY <2>2, <2>3
  <2>5. LogRecords \in [1..n -> Value]
    BY <1>3, <2>2, <2>3
  <2>6. LogRecords \in Seq(Value) /\ Len(LogRecords) = n
    BY <2>5, FunctionIsSequence
  <2> QED BY <2>4, <2>6 DEF LogMatches
<1>5. CASE ~open
  <2>1. PICK m \in {n, n + 1}, q \in [Nat -> Nat] :
          /\ Chain(file, q, m) /\ ~IsRecord(file, q[m])
          /\ \A i \in 0..n : q[i] = p[i]
          /\ m = n + 1 => RecordOf(file, q[n]).val \in tried
    BY AllPlaced
  <2>2. m \in Nat /\ n <= m
    OBVIOUS
  <2>7. \A i \in 1..m : LogRecords[i] = RecordOf(file, q[i - 1]).val
    <3> TAKE i \in 1..m
    <3> QED BY <1>5, <2>1, <2>2, LogClosed
  <2>10. LogRecords \in Seq(Value) /\ Len(LogRecords) = m
    BY <1>5, <2>1, <2>2, LogClosed
  <2>11. \A i \in 1..n : LogRecords[i] = RecordOf(file, p[i - 1]).val
    <3>1. \A i \in 1..n : i \in 1..m /\ i - 1 \in 0..n
      BY <2>2
    <3> QED BY <2>1, <2>7, <3>1
  <2>12. m = n + 1 => LogRecords[n + 1] \in tried
    <3> SUFFICES ASSUME m = n + 1 PROVE LogRecords[n + 1] \in tried
      OBVIOUS
    <3>1. n + 1 \in 1..m /\ (n + 1) - 1 = n
      OBVIOUS
    <3> QED BY <2>1, <2>7, <3>1
  <2> QED BY <1>5, <2>10, <2>11, <2>12 DEF LogMatches
<1> QED BY <1>4, <1>5

\* A scan of any file returns a sequence.
LEMMA ScanType ==
    ASSUME NEW f \in Seq(Content)
    PROVE  Len(Scan(f)[0]) \in Nat
<1> DEFINE Good == {k \in 0..Len(f) : \A pos \in k..Len(f) : Scan(f)[pos] \in Seq(Found(f))}
<1>l. Len(f) \in Nat
  BY LenProperties
<1>1. ASSUME NEW pos \in 0..Len(f)
      PROVE  /\ IsRecord(f, pos) =>
                  /\ Scan(f)[pos] = Kept(f, pos, 0) \o Scan(f)[After(f, pos)]
                  /\ Kept(f, pos, 0) \in Seq(Found(f))
                  /\ After(f, pos) \in pos+1..Len(f)
             /\ ~IsRecord(f, pos) => Scan(f)[pos] = << >>
  <2>1. CASE IsRecord(f, pos)
    <3>1. Scan(f)[pos] = Kept(f, pos, 0) \o Scan(f)[After(f, pos)]
      BY <2>1, ScanUnfolds DEF Scan
    <3>2. pos \in Nat
      BY <1>l
    <3>3. RecordOf(f, pos) \in Found(f)
      BY <3>2 DEF Found
    <3>4. Kept(f, pos, 0) \in Seq(Found(f))
      <4>1. << >> \in Seq(Found(f)) /\ <<RecordOf(f, pos)>> \in Seq(Found(f))
        BY <3>3
      <4> QED BY <4>1 DEF Kept
    <3>5. After(f, pos) \in pos+1..Len(f)
      BY <2>1, <3>2, RecordFits DEF After
    <3> QED BY <2>1, <3>1, <3>4, <3>5
  <2>2. CASE ~IsRecord(f, pos)
    BY <2>2, ScanUnfolds DEF Scan
  <2> QED BY <2>1, <2>2
<1>2. Len(f) \in Good
  <2>1. ASSUME NEW pos \in Len(f)..Len(f)
        PROVE  Scan(f)[pos] \in Seq(Found(f))
    <3>1. pos \in 0..Len(f) /\ pos+1..Len(f) = {}
      BY <1>l
    <3>2. Scan(f)[pos] = << >>
      BY <1>1, <3>1
    <3> QED BY <3>2
  <2> QED BY <1>l, <2>1
<1>3. ASSUME NEW k \in 0..Len(f)-1, k + 1 \in Good
      PROVE  k \in Good
  <2>1. ASSUME NEW pos \in k..Len(f)
        PROVE  Scan(f)[pos] \in Seq(Found(f))
    <3>1. pos \in 0..Len(f) /\ \A x \in pos+1..Len(f) : x \in k+1..Len(f)
      BY <1>l
    <3>2. \A x \in pos+1..Len(f) : Scan(f)[x] \in Seq(Found(f))
      BY <1>3, <3>1
    <3>3. CASE IsRecord(f, pos)
      <4>1. Scan(f)[After(f, pos)] \in Seq(Found(f))
        BY <1>1, <3>1, <3>2, <3>3
      <4>2. Kept(f, pos, 0) \in Seq(Found(f)) /\ Scan(f)[pos] = Kept(f, pos, 0) \o Scan(f)[After(f, pos)]
        BY <1>1, <3>1, <3>3
      <4> QED BY <4>1, <4>2, ConcatProperties
    <3>4. CASE ~IsRecord(f, pos)
      <4>1. Scan(f)[pos] = << >>
        BY <1>1, <3>1, <3>4
      <4> QED BY <4>1
    <3> QED BY <3>3, <3>4
  <2>2. k \in 0..Len(f)
    BY <1>l
  <2> QED BY <2>1, <2>2
<1>4. 0..Len(f) \subseteq Good
  <2> HIDE DEF Good
  <2> QED BY <1>l, <1>2, <1>3, DownTo
<1>5. 0 \in 0..Len(f)
  BY <1>l
<1>6. Scan(f)[0] \in Seq(Found(f))
  BY <1>4, <1>5
<1> QED BY <1>6, LenProperties

\* Two sequences that agree up to m have the same first part.
LEMMA SamePrefix ==
    ASSUME NEW s \in Seq(Value), NEW t \in Seq(Value), NEW m \in Nat,
           m <= Len(s), m <= Len(t), \A i \in 1..m : s[i] = t[i]
    PROVE  SubSeq(s, 1, m) = SubSeq(t, 1, m)
<1> DEFINE a == SubSeq(s, 1, m)
           b == SubSeq(t, 1, m)
<1>1. ASSUME NEW r \in Seq(Value), m <= Len(r)
      PROVE  /\ SubSeq(r, 1, m) \in Seq(Value) /\ Len(SubSeq(r, 1, m)) = m
             /\ \A i \in 1..m : SubSeq(r, 1, m)[i] = r[i]
  <2>1. \A i \in 1..m : i \in 1..Len(r)
    <3>1. Len(r) \in Nat
      BY LenProperties
    <3> QED BY <1>1, <3>1
  <2>2. \A i \in 1..m : r[i] \in Value
    BY <2>1, ElementOfSeq
  <2>3. SubSeq(r, 1, m) \in Seq(Value)
    BY <2>2, SubSeqProperties
  <2>4. Len(SubSeq(r, 1, m)) = IF 1 <= m THEN m-1+1 ELSE 0
    BY <2>2, SubSeqProperties
  <2>5. \A i \in 1..m-1+1 : SubSeq(r, 1, m)[i] = r[1+i-1]
    BY <2>2, SubSeqProperties
  <2>6. m-1+1 = m /\ (~(1 <= m) => m = 0) /\ \A i \in 1..m : 1+i-1 = i
    OBVIOUS
  <2> QED BY <2>3, <2>4, <2>5, <2>6
<1>2. a \in Seq(Value) /\ Len(a) = m /\ \A i \in 1..m : a[i] = s[i]
  BY <1>1
<1>3. b \in Seq(Value) /\ Len(b) = m /\ \A i \in 1..m : b[i] = t[i]
  BY <1>1
<1> HIDE DEF a, b
<1>4. \A i \in 1..Len(a) : a[i] = b[i]
  BY <1>2, <1>3
<1>5. a = b
  BY <1>2, <1>3, <1>4, SeqEqual
<1> QED BY <1>5 DEF a, b

\* A log that keeps its first m records, all of those on the disk, and gains
\* nothing but attempts, has made an abstract Stop.
LEMMA StopStep ==
    ASSUME LogRecords \in Seq(Value), LogRecords' \in Seq(Value),
           NEW m \in Nat, Durable \in Nat, Durable <= m, m <= Len(LogRecords), m <= Len(LogRecords'),
           \A i \in 1..m : LogRecords'[i] = LogRecords[i],
           \A i \in m+1..Len(LogRecords') : LogRecords'[i] \in tried,
           Durable' \in Durable..Len(LogRecords'), tried' = tried
    PROVE  Abstract!Stop
<1>1. SubSeq(LogRecords', 1, m) = SubSeq(LogRecords, 1, m)
  BY SamePrefix
<1>2. Len(LogRecords) \in Nat
  BY LenProperties
<1>3. m \in Durable..Len(LogRecords)
  BY <1>2
<1> QED BY <1>1, <1>3 DEF Abstract!Stop

\* The empty file is the empty log.
LEMMA InitRefines == Init => Abstract!Init
<1> SUFFICES ASSUME Init PROVE Abstract!Init
  OBVIOUS
<1>1. /\ file = << >> /\ disk = << >> /\ open = FALSE /\ tried = {}
      /\ << >> \in Seq(Content) /\ Len(<< >>) = 0 /\ 0 \in 0..0
  BY EmptySeq DEF Init
<1>2. ~IsRecord(<< >>, 0)
  BY DEF IsRecord, Cell
<1>3. Scan(<< >>)[0] = << >>
  <2> DEFINE f == << >>
  <2>1. f \in Seq(Content) /\ 0 \in 0..Len(f) /\ ~IsRecord(f, 0)
    BY <1>1, <1>2
  <2> HIDE DEF f
  <2>2. Scan(f)[0] = << >>
    BY <2>1, ScanUnfolds DEF Scan
  <2> QED BY <2>2 DEF f
<1>4. LogRecords = << >>
  <2>1. LogRecords = [i \in 1..0 |-> Scan(<< >>)[0][i].val]
    BY <1>1, <1>3 DEF LogRecords
  <2>2. LogRecords \in [1..0 -> Value]
    BY <2>1
  <2>3. LogRecords \in Seq(Value) /\ Len(LogRecords) = 0
    BY <2>2, FunctionIsSequence
  <2> QED BY <2>3, EmptySeq
<1>5. Durable = 0
  BY <1>1, <1>3, <1>4 DEF Durable, OnDisk
<1> QED BY <1>1, <1>4, <1>5 DEF Abstract!Init

\* How many records are on the disk.
LEMMA DurableType ==
    ASSUME Typed, LogRecords \in Seq(Value)
    PROVE  OnDisk \in Nat /\ Durable \in Nat /\ Durable <= Len(LogRecords)
<1>1. Len(LogRecords) \in Nat
  BY LenProperties
<1>2. OnDisk \in Nat
  BY ScanType DEF Typed, OnDisk
<1> QED BY <1>1, <1>2 DEF Durable

\* The records that replay would find on the disk are the d that are on it.
LEMMA OnDiskIs ==
    ASSUME Typed, NEW n \in Nat, NEW p \in [Nat -> Nat], Placed(p, n),
           NEW d \in 0..n, OnTheDisk(p, d)
    PROVE  OnDisk = d
<1>1. file \in Seq(Content) /\ disk \in Seq(Content) /\ Chain(file, p, n)
  BY DEF Typed, Placed
<1>2. Chain(file, p, d) /\ d \in Nat /\ p[d] \in Nat
  <2>1. \A i \in 0..d-1 : i \in 0..n-1
    OBVIOUS
  <2>2. d \in Nat
    OBVIOUS
  <2> QED BY <1>1, <2>1, <2>2 DEF Chain
<1>3. Chain(disk, p, d)
  BY <1>1, <1>2, ChainAgrees DEF OnTheDisk
<1>4. ~IsRecord(disk, p[d])
  <2> SUFFICES ASSUME IsRecord(disk, p[d]) PROVE FALSE
    OBVIOUS
  <2>1. p[d] + 1 \in 1..Len(disk) /\ Starts(disk[p[d] + 1])
    BY <1>1, <1>2, RecordStarts
  <2>2. p[d] + 1 \in p[d]+1..Len(disk)
    BY <1>2, <2>1
  <2> QED BY <2>1, <2>2 DEF OnTheDisk
<1> QED BY <1>1, <1>2, <1>3, <1>4, ReplayFinds DEF OnDisk

LogFits ==
    /\ \A n \in Nat : \A p \in [Nat -> Nat] : Placed(p, n) => LogMatches(p, n)
    /\ LogRecords \in Seq(Value) /\ Len(LogRecords) \in Nat
    /\ OnDisk \in Nat /\ Durable \in Nat /\ Durable <= Len(LogRecords)

\* What the refinement needs of LogRecords and Durable, in every state.
LEMMA LogFitsAlways == IInv => LogFits
<1> SUFFICES ASSUME IInv PROVE LogFits
  OBVIOUS
<1>1. Typed
  BY DEF IInv
<1>2. PICK n \in Nat, p \in [Nat -> Nat] : Placed(p, n)
  BY DEF IInv
<1>3. LogRecords \in Seq(Value)
  BY <1>1, <1>2, LogIs DEF LogMatches
<1>4. Len(LogRecords) \in Nat
  BY <1>3, LenProperties
<1> QED BY <1>1, <1>3, <1>4, LogIs, DurableType DEF LogFits

\* Replay shows the log it found.
LEMMA OpenRefines ==
    ASSUME IInv, Open, LogFits, LogFits'
    PROVE  UNCHANGED Abstract!vars
<1>1. PICK m \in Nat, q \in [Nat -> Nat] :
        /\ Chain(file, q, m) /\ ~IsRecord(file, q[m]) /\ Placed(q, m)'
        /\ \A i \in 0..m-1 : RecordOf(file', q[i]) = RecordOf(file, q[i])
  BY OpenKeeps
<1>2. Typed /\ ~open /\ open' = TRUE /\ disk' = disk /\ tried' = tried
  BY DEF IInv, Open
<1>3. /\ LogRecords \in Seq(Value) /\ Len(LogRecords) = m
      /\ \A i \in 1..m : LogRecords[i] = RecordOf(file, q[i - 1]).val
  BY <1>1, <1>2, LogClosed
<1>4. LogMatches(q, m)'
  BY <1>1 DEF LogFits
<1>5. /\ LogRecords' \in Seq(Value) /\ Len(LogRecords') = m
      /\ \A i \in 1..m : LogRecords'[i] = RecordOf(file', q[i - 1]).val
  BY <1>2, <1>4 DEF LogMatches
<1>6. \A i \in 1..m : i - 1 \in 0..m-1
  OBVIOUS
<1>7. \A i \in 1..m : LogRecords'[i] = LogRecords[i]
  BY <1>1, <1>3, <1>5, <1>6
<1>8. LogRecords' = LogRecords
  BY <1>3, <1>5, <1>7, SeqEqual
<1>9. Durable' = Durable
  BY <1>2, <1>8 DEF Durable, OnDisk
<1> QED BY <1>2, <1>8, <1>9 DEF Abstract!vars

\* What WriteAt writes is not in the log yet.
LEMMA CellRefines ==
    ASSUME IInv, WriteCell
    PROVE  UNCHANGED Abstract!vars
<1>1. PICK n \in Nat, p \in [Nat -> Nat] : Placed(p, n)
  BY DEF IInv
<1>2. /\ open /\ open' = open /\ nextOff' = nextOff /\ index' = index
      /\ disk' = disk /\ tried' = tried
  BY DEF IInv, Attempted, WriteCell, memVars
<1>3. n = nextOff /\ size = p[n] /\ Chain(file, p, n) /\ \A o \in 0..n-1 : index[o] = p[o]
  BY <1>1, <1>2 DEF Placed
<1>4. file \in Seq(Content)
  BY DEF IInv, Typed
<1>5. ASSUME NEW i \in 1..nextOff
      PROVE  RecordOf(file', index[i - 1]) = RecordOf(file, index[i - 1])
  <2>1. i - 1 \in 0..n-1 /\ i - 1 \in Nat
    BY <1>3
  <2>2. p[i - 1] \in Nat /\ p[i - 1] < p[n] /\ p[n] \in Nat
    BY <1>3, <1>4, <2>1, ChainGrows
  <2>3. p[i - 1] + 1 \in 1..size
    BY <1>3, <2>2
  <2>4. file'[p[i - 1] + 1] = file[p[i - 1] + 1]
    BY <2>3, CellKeeps
  <2>5. index[i - 1] = p[i - 1]
    BY <1>3, <2>1
  <2> QED BY <2>4, <2>5 DEF RecordOf
<1>6. LogRecords = [i \in 1..nextOff |-> RecordOf(file, index[i - 1]).val]
  BY <1>2 DEF LogRecords
<1>7. LogRecords' = [i \in 1..nextOff |-> RecordOf(file', index[i - 1]).val]
  BY <1>2 DEF LogRecords
<1>8. LogRecords' = LogRecords
  BY <1>5, <1>6, <1>7
<1>9. Durable' = Durable
  BY <1>2, <1>8 DEF Durable, OnDisk
<1> QED BY <1>2, <1>8, <1>9 DEF Abstract!vars

\* A number is determined by the interval that it ends.
LEMMA SameUpTo ==
    ASSUME NEW a \in Nat, NEW b \in Nat, 1..a = 1..b
    PROVE  a = b
<1>1. CASE a < b
  <2>1. b \in 1..b /\ b \notin 1..a
    BY <1>1
  <2> QED BY <2>1
<1>2. CASE b < a
  <2>1. a \in 1..a /\ a \notin 1..b
    BY <1>2
  <2> QED BY <2>1
<1> QED BY <1>1, <1>2

\* A synced append acknowledges the value it tried.
LEMMA CommitRefines ==
    ASSUME IInv, IInv', Commit, LogFits, LogFits'
    PROVE  Abstract!Acknowledge(op.val) /\ op.val \in Value
<1>1. /\ op # NoOp /\ op.done = Size[op.val] /\ file' = file /\ open' = open
      /\ index' = [o \in DOMAIN index \cup {nextOff} |-> IF o = nextOff THEN size ELSE index[o]]
      /\ nextOff' = nextOff + 1 /\ tried' = {}
  BY DEF Commit
<1>2. open /\ op.val \in tried /\ op.val \in Value /\ RecordOf(file, size).val = op.val
  BY <1>1, AttemptIsRecord
<1>3. DOMAIN index = 0..nextOff-1 /\ nextOff \in Nat
  BY DEF IInv, Typed
<1>4. LogRecords = [i \in 1..nextOff |-> RecordOf(file, index[i - 1]).val]
  BY <1>2 DEF LogRecords
<1>5. LogRecords' = [i \in 1..nextOff+1 |-> RecordOf(file, index'[i - 1]).val]
  BY <1>1, <1>2 DEF LogRecords
<1>6. LogRecords \in Seq(Value) /\ LogRecords' \in Seq(Value)
  BY DEF LogFits
<1>7. Len(LogRecords) = nextOff
  <2>1. DOMAIN LogRecords = 1..Len(LogRecords) /\ Len(LogRecords) \in Nat
    BY <1>6, LenProperties
  <2>2. 1..nextOff = 1..Len(LogRecords)
    BY <1>4, <2>1
  <2> QED BY <1>3, <2>1, <2>2, SameUpTo
<1>8. Len(LogRecords') = nextOff + 1
  <2>1. DOMAIN LogRecords' = 1..Len(LogRecords') /\ Len(LogRecords') \in Nat
    BY <1>6, LenProperties
  <2>2. 1..nextOff+1 = 1..Len(LogRecords')
    BY <1>5, <2>1
  <2>3. nextOff + 1 \in Nat
    BY <1>3
  <2> QED BY <2>1, <2>2, <2>3, SameUpTo
<1>9. ASSUME NEW i \in 1..nextOff+1
      PROVE  LogRecords'[i] = IF i = nextOff + 1 THEN op.val ELSE LogRecords[i]
  <2>1. i - 1 \in (0..nextOff-1) \cup {nextOff} /\ (i - 1 = nextOff <=> i = nextOff + 1)
    BY <1>3
  <2>2. index'[i - 1] = IF i - 1 = nextOff THEN size ELSE index[i - 1]
    BY <1>1, <1>3, <2>1
  <2>3. CASE i = nextOff + 1
    BY <1>2, <1>5, <2>1, <2>2, <2>3
  <2>4. CASE i # nextOff + 1
    <3>1. i \in 1..nextOff
      BY <1>3, <2>4
    <3> QED BY <1>4, <1>5, <2>1, <2>2, <2>4, <3>1
  <2> QED BY <2>3, <2>4
<1>10. LogRecords' = Append(LogRecords, op.val)
  <2> DEFINE t == Append(LogRecords, op.val)
  <2>1. t \in Seq(Value) /\ Len(t) = nextOff + 1
    BY <1>2, <1>6, <1>7
  <2>2. \A i \in 1..nextOff+1 : t[i] = IF i = nextOff + 1 THEN op.val ELSE LogRecords[i]
    BY <1>2, <1>3, <1>6, <1>7
  <2> HIDE DEF t
  <2>3. \A i \in 1..nextOff+1 : LogRecords'[i] = t[i]
    BY <1>9, <2>2
  <2>4. LogRecords' = t
    BY <1>6, <1>8, <2>1, <2>3, SeqEqual
  <2> QED BY <2>4 DEF t
<1>11. Durable' = Len(LogRecords) + 1
  <2>1. OnDisk' = nextOff + 1
    BY <1>1, CommitKeeps
  <2> QED BY <1>7, <1>8, <2>1 DEF Durable
<1> QED BY <1>1, <1>2, <1>10, <1>11 DEF Abstract!Acknowledge

\* A process that ends may leave one attempt more in the file.
LEMMA ShutRefines ==
    ASSUME IInv, open, Forget, UNCHANGED <<file, disk, tried, losses>>, LogFits, LogFits'
    PROVE  Abstract!Stop
<1>1. PICK n \in Nat, p \in [Nat -> Nat] : Placed(p, n)
  BY DEF IInv
<1>2. open' = FALSE /\ file' = file /\ disk' = disk /\ tried' = tried /\ losses' = losses
  BY DEF Forget
<1>3. Placed(p, n)'
  <2>1. Chain(file, p, n)' /\ (Clean(file, p[n], n, tried) => Clean(file, p[n], n, tried)')
    BY <1>1, <1>2, Zenon DEF Placed
  <2>2. Clean(file, p[n], n, tried) \/ (losses > 0 /\ ~IsRecord(file, p[n]))
    BY <1>1 DEF Placed
  <2>3. losses > 0 /\ ~IsRecord(file, p[n]) => (losses > 0 /\ ~IsRecord(file, p[n]))'
    BY <1>2, Zenon
  <2>4. losses = 0 => \E d \in 0..n :
            /\ p[d] <= Len(disk) /\ \A j \in 1..p[d] : disk[j] = file[j]
            /\ \A j \in p[d]+1..Len(disk) : ~Starts(disk[j])
    BY <1>1, Zenon DEF Placed
  <2>5. (losses = 0 => \E d \in 0..n :
              /\ p[d] <= Len(disk) /\ \A j \in 1..p[d] : disk[j] = file[j]
              /\ \A j \in p[d]+1..Len(disk) : ~Starts(disk[j]))'
    BY <1>2, <2>4, Zenon
  <2>6. (Clean(file, p[n], n, tried) \/ (~open /\ losses > 0 /\ ~IsRecord(file, p[n])))'
    BY <1>2, <2>1, <2>2, <2>3, Zenon
  <2> QED BY <1>2, <2>1, <2>5, <2>6, Zenon DEF Placed
<1>4. LogMatches(p, n) /\ LogMatches(p, n)'
  BY <1>1, <1>3 DEF LogFits
<1>5. /\ LogRecords \in Seq(Value) /\ LogRecords' \in Seq(Value)
      /\ Len(LogRecords) = n
      /\ Len(LogRecords') = n \/ (Len(LogRecords') = n + 1 /\ LogRecords'[n + 1] \in tried)
  BY <1>2, <1>4 DEF LogMatches
<1>6. \A i \in 1..n : LogRecords'[i] = LogRecords[i]
  BY <1>2, <1>4 DEF LogMatches
<1>7. OnDisk' = OnDisk /\ OnDisk \in Nat /\ Durable \in Nat /\ Durable <= n
  BY <1>2, <1>5 DEF LogFits, OnDisk
<1>8. Durable' \in Durable..Len(LogRecords')
  <2>1. \A o \in Nat : \A l \in {n, n + 1} :
            (IF o < l THEN o ELSE l) \in (IF o < n THEN o ELSE n)..l
    OBVIOUS
  <2>2. Len(LogRecords') \in {n, n + 1}
    BY <1>5
  <2>3. /\ Durable = IF OnDisk < n THEN OnDisk ELSE n
        /\ Durable' = IF OnDisk < Len(LogRecords') THEN OnDisk ELSE Len(LogRecords')
    BY <1>5, <1>7 DEF Durable
  <2> QED BY <1>7, <2>1, <2>2, <2>3, Zenon
<1>9. \A i \in n+1..Len(LogRecords') : LogRecords'[i] \in tried
  <2>1. \A i \in n+1..Len(LogRecords') : i = n + 1 /\ Len(LogRecords') = n + 1
    BY <1>5
  <2> QED BY <1>5, <2>1, SMTT(30)
<1>10. n <= Len(LogRecords) /\ n <= Len(LogRecords')
  BY <1>5
<1> QED BY <1>2, <1>5, <1>6, <1>7, <1>8, <1>9, <1>10, StopStep

\* A power loss takes nothing from the log that is on the disk.
LEMMA LossRefines ==
    ASSUME IInv, PowerLoss, MaxLoss <= 1, LogFits, LogFits'
    PROVE  Abstract!Stop
<1>a. PICK n \in Nat, p \in [Nat -> Nat] : \E d \in 0..n : \E m \in d..n :
        /\ Placed(p, n) /\ OnTheDisk(p, d) /\ Placed(p, m)'
        /\ \A i \in 0..m-1 : RecordOf(file', p[i]) = RecordOf(file, p[i])
  BY LossKeeps
<1>b. PICK d \in 0..n : \E m \in d..n :
        /\ Placed(p, n) /\ OnTheDisk(p, d) /\ Placed(p, m)'
        /\ \A i \in 0..m-1 : RecordOf(file', p[i]) = RecordOf(file, p[i])
  BY <1>a
<1>1. PICK m \in d..n :
        /\ Placed(p, n) /\ OnTheDisk(p, d) /\ Placed(p, m)'
        /\ \A i \in 0..m-1 : RecordOf(file', p[i]) = RecordOf(file, p[i])
  BY <1>b
<1>2. disk' = file' /\ open' = FALSE /\ tried' = tried
  BY LossKeeps DEF PowerLoss, Forget
<1>3. m \in Nat /\ d \in Nat /\ d <= m /\ m <= n
  OBVIOUS
<1>4. LogMatches(p, n) /\ LogMatches(p, m)'
  BY <1>1, <1>3 DEF LogFits
<1>5. /\ LogRecords \in Seq(Value) /\ LogRecords' \in Seq(Value)
      /\ Len(LogRecords) \in Nat /\ n <= Len(LogRecords)
      /\ Len(LogRecords') = m \/ (Len(LogRecords') = m + 1 /\ LogRecords'[m + 1] \in tried)
  BY <1>2, <1>4, SMTT(30) DEF LogMatches, LogFits
<1>6. \A i \in 1..m : LogRecords'[i] = LogRecords[i]
  <2>1. \A i \in 1..m : i \in 1..n /\ i - 1 \in 0..m-1
    BY <1>3
  <2>2. \A i \in 1..m : LogRecords'[i] = RecordOf(file', p[i - 1]).val
    BY <1>4 DEF LogMatches
  <2>3. \A i \in 1..n : LogRecords[i] = RecordOf(file, p[i - 1]).val
    BY <1>4 DEF LogMatches
  <2> QED BY <1>1, <2>1, <2>2, <2>3
<1>7. Durable = d
  <2>1. OnDisk = d
    BY <1>1, OnDiskIs DEF IInv
  <2> QED BY <1>3, <1>5, <2>1 DEF Durable
<1>8. Durable' = Len(LogRecords')
  <2>1. OnDisk' = Len(LogRecords')
    <3>1. LogRecords' = [i \in 1..Len(Scan(file')[0]) |-> Scan(file')[0][i].val]
      BY <1>2 DEF LogRecords
    <3>2. OnDisk' = Len(Scan(file')[0]) /\ OnDisk' \in Nat /\ Len(LogRecords') \in Nat
      BY <1>2 DEF OnDisk, LogFits
    <3>3. DOMAIN LogRecords' = 1..Len(LogRecords')
      BY <1>5, LenProperties
    <3>4. 1..OnDisk' = 1..Len(LogRecords')
      BY <3>1, <3>2, <3>3
    <3> QED BY <3>2, <3>4, SameUpTo
  <2> QED BY <2>1 DEF Durable
<1>9. \A i \in m+1..Len(LogRecords') : LogRecords'[i] \in tried
  <2>1. \A l \in {m, m + 1} : \A i \in m+1..l : i = m + 1 /\ l # m
    BY <1>3
  <2>2. Len(LogRecords') \in {m, m + 1}
    BY <1>5
  <2>3. \A i \in m+1..Len(LogRecords') : i = m + 1 /\ Len(LogRecords') # m
    BY <2>1, <2>2, Zenon
  <2> QED BY <1>5, <2>3, Zenon
<1>10. m <= Len(LogRecords) /\ m <= Len(LogRecords') /\ Durable' \in Durable..Len(LogRecords')
  <2>1. \A l \in {m, m + 1} : m <= l /\ l \in d..l
    BY <1>3
  <2>2. Len(LogRecords') \in {m, m + 1}
    BY <1>5
  <2>3. \A l \in Nat : n <= l => m <= l
    BY <1>3
  <2> QED BY <1>5, <1>7, <1>8, <2>1, <2>2, <2>3, Zenon
<1> QED BY <1>2, <1>3, <1>5, <1>6, <1>7, <1>9, <1>10, StopStep

\* Every step of the file is one of the log, or none.
LEMMA StepRefines ==
    ASSUME IInv, IInv', [Next]_vars, MaxLoss <= 1
    PROVE  [Abstract!Next]_Abstract!vars
<1>1. LogFits
  BY LogFitsAlways
<1>2. LogFits'
  <2>1. (IInv => LogFits)'
    BY LogFitsAlways, PTL
  <2> QED BY <2>1
<1>3. CASE Open
  BY <1>1, <1>2, <1>3, OpenRefines
<1>4. CASE Close
  <2>1. open /\ Forget /\ UNCHANGED <<file, disk, tried, losses>>
    BY <1>4 DEF Close
  <2> QED BY <1>1, <1>2, <2>1, ShutRefines DEF Abstract!Next
<1>5. ASSUME NEW v \in Value, AppendAt(v)
      PROVE  Abstract!Try(v)
  <2>1. /\ open' = open /\ file' = file /\ disk' = disk /\ nextOff' = nextOff /\ index' = index
        /\ tried' = tried \cup {v}
    BY <1>5 DEF AppendAt, memVars
  <2>2. LogRecords' = LogRecords
    BY <2>1 DEF LogRecords
  <2>3. Durable' = Durable
    BY <2>1, <2>2 DEF Durable, OnDisk
  <2> QED BY <2>1, <2>2, <2>3 DEF Abstract!Try
<1>6. CASE WriteCell
  BY <1>6, CellRefines
<1>7. CASE Commit
  <2>1. Abstract!Acknowledge(op.val) /\ op.val \in Value
    BY <1>1, <1>2, <1>7, CommitRefines
  <2> QED BY <2>1 DEF Abstract!Next
<1>8. CASE AppendFails \/ UNCHANGED vars
  <2>1. /\ open' = open /\ file' = file /\ disk' = disk /\ nextOff' = nextOff /\ index' = index
        /\ tried' = tried
    BY <1>8 DEF AppendFails, vars, memVars
  <2>2. LogRecords' = LogRecords
    BY <2>1 DEF LogRecords
  <2>3. Durable' = Durable
    BY <2>1, <2>2 DEF Durable, OnDisk
  <2> QED BY <2>1, <2>2, <2>3 DEF Abstract!vars
<1>9. CASE ProcessCrash
  <2>1. open /\ Forget /\ UNCHANGED <<file, disk, tried, losses>>
    BY <1>9 DEF ProcessCrash
  <2> QED BY <1>1, <1>2, <2>1, ShutRefines DEF Abstract!Next
<1>10. CASE PowerLoss
  BY <1>1, <1>2, <1>10, LossRefines DEF Abstract!Next
<1>11. CASE \E v \in Value : AppendAt(v)
  <2>1. PICK v \in Value : AppendAt(v)
    BY <1>11
  <2>2. Abstract!Try(v)
    BY <1>5, <2>1
  <2> QED BY <2>2 DEF Abstract!Next
<1> QED BY <1>3, <1>4, <1>6, <1>7, <1>8, <1>9, <1>10, <1>11 DEF Next

\* The file implements the log of AbstractLog: whatever torn writes, failed syncs,
\* crashes and cuts that never reached the disk leave in it, an acknowledged
\* append is never lost, and replay adds only whole records that were tried since
\* (internal/storage/log.go).
THEOREM FileImplements ==
    ASSUME MaxLoss <= 1
    PROVE  Spec => Implements
<1>1. Init => Abstract!Init
  BY InitRefines
<1>2. IInv /\ IInv' /\ [Next]_vars => [Abstract!Next]_Abstract!vars
  BY StepRefines
<1>3. Spec => []IInv
  BY FileHolds
<1> QED BY <1>1, <1>2, <1>3, PTL DEF Spec, Implements, Abstract!Spec
=============================================================================
