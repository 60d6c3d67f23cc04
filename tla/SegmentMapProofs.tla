-------------------------- MODULE SegmentMapProofs --------------------------
(***************************************************************************)
(* What the operators of SegmentMap preserve, for every file size, any     *)
(* alignment, any smallest part and any number of segments.                *)
(***************************************************************************)
EXTENDS SegmentMap, TLAPS, FiniteSetTheorems, WellFoundedInduction

(***************************************************************************)
(* Least and greatest elements                                             *)
(***************************************************************************)

\* A set of naturals that is not empty has a least element.
LEMMA LeastNat ==
  ASSUME NEW S \in SUBSET Nat, S # {}
  PROVE  \E m \in S : \A x \in S : m <= x
<1>1. PICK m \in S : \A x \in S : ~(<<x, m>> \in OpToRel(<, Nat))
  BY NatLessThanWellFounded, WFMin
<1>2. \A x \in S : x < m => <<x, m>> \in OpToRel(<, Nat)
  BY <1>1 DEF OpToRel
<1>3. ASSUME NEW x \in S PROVE m <= x
  <2>1. ~ (x < m)
    BY <1>1, <1>2
  <2>2. m \in Nat /\ x \in Nat
    OBVIOUS
  <2> QED
    BY <2>1, <2>2
<1> QED
  BY <1>3

\* A bounded one has a greatest element.
LEMMA GreatestNat ==
  ASSUME NEW n \in Nat, NEW S \in SUBSET (0 .. n), S # {}
  PROVE  \E m \in S : \A x \in S : x <= m
<1> DEFINE T == {n - x : x \in S}
<1>1. T \in SUBSET Nat /\ T # {}
  <2>1. \A x \in S : x \in 0 .. n
    OBVIOUS
  <2>2. \A x \in 0 .. n : n - x \in Nat
    OBVIOUS
  <2> QED
    BY <2>1, <2>2
<1>2. PICK m \in T : \A x \in T : m <= x
  BY <1>1, LeastNat
<1>3. PICK y \in S : m = n - y
  OBVIOUS
<1>4. ASSUME NEW x \in S PROVE x <= y
  <2>1. n - x \in T
    OBVIOUS
  <2>2. n - y <= n - x
    BY <1>2, <1>3, <2>1
  <2>3. x \in Nat /\ y \in Nat
    OBVIOUS
  <2> QED
    BY <2>2, <2>3
<1> QED
  BY <1>4

(***************************************************************************)
(* Division and alignment                                                  *)
(***************************************************************************)

\* The quotient is the largest number whose multiple fits.
LEMMA Quotient ==
  ASSUME NEW a \in Nat, NEW k \in Nat \ {0}
  PROVE  /\ a \div k \in Nat
         /\ k * (a \div k) <= a
         /\ a < k * (a \div k) + k
OBVIOUS

\* Two products compare as their factors do.
LEMMA ProductOrder ==
  ASSUME NEW a \in Nat, NEW b \in Nat, NEW k \in Nat, a <= b
  PROVE  k * a <= k * b
OBVIOUS

LEMMA FactorOrder ==
  ASSUME NEW a \in Int, NEW b \in Int, NEW k \in Nat \ {0}, k * a < k * b
  PROVE  a < b
OBVIOUS

\* Rounding up goes up by less than the alignment.
LEMMA AlignUpBounds ==
  ASSUME SizeAssumption, NEW v \in Nat
  PROVE  AlignUp(v) \in Nat /\ v <= AlignUp(v) /\ AlignUp(v) <= v + Align - 1
<1>1. Align \in Nat \ {0} /\ v + Align - 1 \in Nat
  BY DEF SizeAssumption
<1> DEFINE q == (v + Align - 1) \div Align
<1>2. q \in Nat /\ Align * q <= v + Align - 1 /\ v + Align - 1 < Align * q + Align
  BY <1>1, Quotient
<1>3. AlignUp(v) = q * Align
  BY DEF AlignUp
<1>4. q * Align = Align * q /\ Align * q \in Nat
  BY <1>1, <1>2
<1> QED
  BY <1>1, <1>2, <1>3, <1>4

\* No need to round what is aligned already.
LEMMA AlignUpIsAligned ==
  ASSUME SizeAssumption
  PROVE  AlignUp(0) = 0
<1>1. Align \in Nat \ {0}
  BY DEF SizeAssumption
<1>2. (Align - 1) \div Align = 0
  BY <1>1, Quotient, Align - 1 \in Nat, ProductOrder
<1> QED
  BY <1>1, <1>2 DEF AlignUp

(***************************************************************************)
(* The initial map                                                         *)
(***************************************************************************)

\* A request for n segments makes at least one, and no more than leave each
\* of them MinSplit bytes.
LEMMA SegmentCountBounds ==
  ASSUME SizeAssumption, NEW n \in Nat
  PROVE  /\ SegmentCount(n) \in Nat \ {0}
         /\ SegmentCount(n) > 1 => SegmentCount(n) * MinSplit <= Total
<1> DEFINE c == MaxOf(n, 1)
           d == Total \div MaxOf(MinSplit, 1)
           k == SegmentCount(n)
<1>1. Total \in Nat /\ MinSplit \in Nat \ {0} /\ MaxOf(MinSplit, 1) = MinSplit
  BY DEF SizeAssumption, MaxOf
<1>2. d \in Nat /\ MinSplit * d <= Total
  BY <1>1, Quotient
<1>3. c \in Nat \ {0}
  BY DEF MaxOf
<1>4. k = IF Total = 0 THEN 1 ELSE MinOf(c, MaxOf(d, 1))
  BY DEF SegmentCount
<1>5. k \in Nat \ {0} /\ (k > 1 => k <= d)
  BY <1>2, <1>3, <1>4 DEF MinOf, MaxOf
<1>6. k > 1 => MinSplit * k <= MinSplit * d
  BY <1>1, <1>2, <1>5, ProductOrder
<1>7. k * MinSplit = MinSplit * k /\ MinSplit * k \in Nat /\ MinSplit * d \in Nat
  BY <1>1, <1>2, <1>5
<1> QED
  BY <1>1, <1>2, <1>5, <1>6, <1>7

\* The boundaries increase: shares are at least MinSplit bytes, and rounding
\* moves each of them by less than the alignment.
LEMMA BoundariesIncrease ==
  ASSUME SizeAssumption, NEW k \in Nat \ {0}, k > 1 => k * MinSplit <= Total,
         NEW i \in 0 .. k, NEW j \in 0 .. k, i < j, Total > 0
  PROVE  Boundary(i, k) < Boundary(j, k)
<1> DEFINE p == (Total * i) \div k
           q == (Total * j) \div k
<1>1. Total \in Nat /\ MinSplit \in Nat /\ Align \in Nat \ {0} /\ MinSplit >= Align
  BY DEF SizeAssumption
<1>2. Total * i \in Nat /\ Total * j \in Nat /\ Total * i + Total <= Total * j /\ Total * j <= Total * k
  <2>1. Total * (i + 1) <= Total * j
    BY <1>1, ProductOrder, i + 1 <= j, i + 1 \in Nat, j \in Nat
  <2>2. Total * j <= Total * k
    BY <1>1, ProductOrder
  <2> QED
    BY <1>1, <2>1, <2>2
<1>3. /\ p \in Nat /\ k * p <= Total * i /\ Total * i < k * p + k
      /\ q \in Nat /\ k * q <= Total * j /\ Total * j < k * q + k
  BY <1>2, Quotient
<1>4. CASE k = 1
  <2>1. i = 0 /\ j = k
    BY <1>4
  <2>2. p = 0
    BY <1>1, <1>4, <2>1
  <2>3. Boundary(i, k) = MinOf(AlignUp(0), Total) /\ Boundary(j, k) = Total
    BY <2>1, <2>2 DEF Boundary
  <2>4. AlignUp(0) = 0
    BY <1>1, AlignUpIsAligned
  <2> QED
    BY <1>1, <2>3, <2>4 DEF MinOf
<1>5. CASE k > 1
  <2>1. k * MinSplit <= Total
    BY <1>5
  <2>2. p + MinSplit <= q
    <3>1. k * (p + MinSplit) = k * p + k * MinSplit /\ k * (q + 1) = k * q + k
      BY <1>1, <1>3
    <3>2. k * (p + MinSplit) < k * (q + 1)
      BY <1>1, <1>2, <1>3, <2>1, <3>1
    <3>3. p + MinSplit < q + 1
      BY <1>1, <1>3, <3>2, FactorOrder
    <3> QED
      BY <1>1, <1>3, <3>3
  <2>3. /\ AlignUp(p) \in Nat /\ AlignUp(p) <= p + Align - 1
        /\ AlignUp(q) \in Nat /\ q <= AlignUp(q)
    BY <1>3, AlignUpBounds
  <2>4. AlignUp(p) < AlignUp(q)
    BY <1>1, <1>3, <2>2, <2>3
  <2>5. q <= Total
    <3>1. k * q < k * (Total + 1)
      BY <1>1, <1>2, <1>3
    <3> QED
      BY <1>1, <1>3, <3>1, FactorOrder
  <2>6. AlignUp(p) < Total
    BY <1>1, <1>3, <2>2, <2>3, <2>5
  <2>7. Boundary(i, k) = AlignUp(p)
    BY <1>1, <2>3, <2>6 DEF Boundary, MinOf
  <2>8. Boundary(j, k) = Total \/ Boundary(j, k) = AlignUp(q)
    BY DEF Boundary, MinOf
  <2> QED
    BY <2>4, <2>6, <2>7, <2>8
<1> QED
  BY <1>4, <1>5

\* What the boundaries delimit: the first is 0, the last the size, all within.
LEMMA BoundaryRange ==
  ASSUME SizeAssumption, NEW k \in Nat \ {0}, NEW i \in 0 .. k
  PROVE  /\ Boundary(i, k) \in 0 .. Total
         /\ Boundary(0, k) = 0
         /\ Boundary(k, k) = Total
<1>1. Total \in Nat
  BY DEF SizeAssumption
<1>2. (Total * i) \div k \in Nat /\ Total * i \in Nat
  BY <1>1, Quotient
<1>3. AlignUp((Total * i) \div k) \in Nat
  BY <1>2, AlignUpBounds
<1>4. (Total * 0) \div k = 0
  BY <1>1, Quotient
<1>5. Boundary(0, k) = 0
  BY <1>1, <1>4, AlignUpIsAligned DEF Boundary, MinOf
<1> QED
  BY <1>1, <1>3, <1>5 DEF Boundary, MinOf

\* A map as the code types it.
IsMap(S, owners) == DOMAIN S \subseteq Nat /\ \A i \in DOMAIN S : S[i] \in Segment(owners)

LEMMA NewSegmentType ==
  ASSUME SizeAssumption, NEW owners,
         NEW start \in 0 .. Total, NEW end \in 0 .. Total, NEW pos \in 0 .. Total
  PROVE  NewSegment(start, end, pos) \in Segment(owners)
BY DEF SizeAssumption, NewSegment, Segment

\* SegmentMap::new: no segment is skipped, so the first fresh id is fresh,
\* and the segments tile the file.
LEMMA InitialMapIsFresh ==
  ASSUME SizeAssumption, NEW n \in Nat
  PROVE  /\ DOMAIN InitialMap(n) = 0 .. SegmentCount(n) - 1
         /\ NextIdOf(InitialMap(n)) = SegmentCount(n)
<1> DEFINE k == SegmentCount(n)
<1>1. k \in Nat \ {0} /\ (k > 1 => k * MinSplit <= Total) /\ Total \in Nat
  BY SegmentCountBounds DEF SizeAssumption
<1>2. Total = 0 => k = 1
  BY DEF SegmentCount
<1>3. ASSUME NEW i \in 0 .. k - 1 PROVE Boundary(i + 1, k) > Boundary(i, k) \/ (Total = 0 /\ i = 0)
  <2>1. CASE Total > 0
    <3>1. Boundary(i, k) < Boundary(i + 1, k)
      BY <1>1, <2>1, BoundariesIncrease, i \in 0 .. k, i + 1 \in 0 .. k, i < i + 1
    <3>2. Boundary(i, k) \in Int /\ Boundary(i + 1, k) \in Int
      BY <1>1, BoundaryRange, i \in 0 .. k, i + 1 \in 0 .. k
    <3> QED
      BY <3>1, <3>2
  <2> QED
    BY <1>1, <1>2, <2>1
<1>4. DOMAIN InitialMap(n) = 0 .. k - 1
  BY <1>3 DEF InitialMap
<1>5. Cardinality(0 .. k - 1) = k
  BY <1>1, FS_Interval
<1> QED
  BY <1>4, <1>5 DEF NextIdOf

LEMMA InitialMapIsWellFormed ==
  ASSUME SizeAssumption, NEW n \in Nat, NEW owners
  PROVE  /\ IsMap(InitialMap(n), owners)
         /\ WellFormed(InitialMap(n))
         /\ \A i \in DOMAIN InitialMap(n) : InitialMap(n)[i].state # "Active"
         /\ Recorded(InitialMap(n)) = {}
<1> DEFINE k == SegmentCount(n)
           S == InitialMap(n)
           B(i) == Boundary(i, k)
<1> HIDE DEF k
<1>1. k \in Nat \ {0} /\ (k > 1 => k * MinSplit <= Total) /\ Total \in Nat
  BY SegmentCountBounds DEF SizeAssumption, k
<1>2. Total = 0 => k = 1
  BY DEF SegmentCount, k
<1>3. DOMAIN S = 0 .. k - 1
  BY InitialMapIsFresh DEF k
<1>4. \A i \in 0 .. k - 1 : S[i] = NewSegment(B(i), B(i + 1), B(i))
  BY <1>3 DEF InitialMap, k
<1>5. \A i \in 0 .. k : B(i) \in 0 .. Total
  BY <1>1, BoundaryRange
<1>6. B(0) = 0 /\ B(k) = Total
  BY <1>1, BoundaryRange, 0 \in 0 .. k
<1>7. \A i, j \in 0 .. k : i < j /\ Total > 0 => B(i) < B(j)
  BY <1>1, BoundariesIncrease
<1> HIDE DEF B, S
<1>8. ASSUME NEW i \in 0 .. k - 1
      PROVE  /\ S[i].start = B(i) /\ S[i].end = B(i + 1) /\ S[i].pos = B(i)
             /\ S[i].state = "Done" => Total = 0
             /\ S[i].state # "Active"
  <2>1. i \in 0 .. k /\ i + 1 \in 0 .. k /\ i < i + 1
    BY <1>1
  <2>2. Total > 0 => ~ (B(i) >= B(i + 1))
    BY <1>5, <1>7, <2>1
  <2>3. S[i] = NewSegment(B(i), B(i + 1), B(i))
    BY <1>4
  <2> QED
    BY <1>1, <2>2, <2>3 DEF NewSegment
<1>9. IsMap(S, owners)
  <2>1. \A i \in 0 .. k - 1 : i \in 0 .. k /\ i + 1 \in 0 .. k /\ i \in Nat
    BY <1>1
  <2> QED
    BY <1>3, <1>4, <1>5, <2>1, NewSegmentType DEF IsMap
<1>10. Tiles(S)
  <2>1. ASSUME NEW i \in DOMAIN S
        PROVE  0 <= S[i].start /\ S[i].start <= S[i].pos /\ S[i].pos <= S[i].end /\ S[i].end <= Total
    <3>1. i \in 0 .. k /\ i + 1 \in 0 .. k /\ i < i + 1
      BY <1>1, <1>3
    <3>2. B(i) <= B(i + 1)
      BY <1>1, <1>2, <1>3, <1>5, <1>6, <1>7, <3>1
    <3> QED
      BY <1>1, <1>3, <1>5, <1>8, <3>1, <3>2
  <2>2. ASSUME NEW b \in Bytes PROVE \E i \in DOMAIN S : b \in Span(S[i].start, S[i].end)
    <3> DEFINE over == {i \in 0 .. k - 1 : b < B(i + 1)}
    <3>1. b \in Nat /\ b < Total
      BY <1>1 DEF Bytes
    <3>2. over \in SUBSET Nat /\ k - 1 \in over
      BY <1>1, <1>6, <3>1
    <3>3. PICK i \in over : \A j \in over : i <= j
      BY <3>2, LeastNat
    <3>4. B(i) <= b
      <4>1. CASE i = 0
        BY <1>6, <3>1, <4>1
      <4>2. CASE i > 0
        <5>1. i - 1 \in 0 .. k - 1 /\ i - 1 \notin over /\ i \in 0 .. k
          BY <1>1, <3>3, <4>2
        <5>2. ~ (b < B(i))
          BY <5>1
        <5> QED
          BY <1>5, <3>1, <5>1, <5>2
      <4> QED
        BY <1>1, <4>1, <4>2
    <3>5. i \in DOMAIN S /\ i \in 0 .. k /\ i + 1 \in 0 .. k /\ b < B(i + 1)
      BY <1>1, <1>3
    <3> QED
      BY <1>3, <1>5, <1>8, <3>1, <3>4, <3>5 DEF Span
  <2>3. ASSUME NEW i \in DOMAIN S, NEW j \in DOMAIN S, i # j
        PROVE  S[i].end <= S[j].start \/ S[j].end <= S[i].start
    <3>1. /\ i \in 0 .. k /\ i + 1 \in 0 .. k /\ j \in 0 .. k /\ j + 1 \in 0 .. k
          /\ i + 1 = j \/ j + 1 = i \/ i + 1 < j \/ j + 1 < i
      BY <1>1, <1>3, <2>3
    <3>2. Total > 0
      BY <1>1, <1>2, <1>3, <2>3
    <3>3. B(i + 1) <= B(j) \/ B(j + 1) <= B(i)
      BY <1>5, <1>7, <3>1, <3>2
    <3> QED
      BY <1>3, <1>8, <3>3
  <2> QED
    BY <2>1, <2>2, <2>3 DEF Tiles
<1>11. WellFormed(S)
  <2>1. ASSUME NEW i \in DOMAIN S, NEW j \in DOMAIN S, i # j PROVE S[i].start # S[j].start
    <3>1. Total > 0 /\ (i < j \/ j < i) /\ i \in 0 .. k /\ j \in 0 .. k
      BY <1>1, <1>2, <1>3, <2>1
    <3>2. B(i) # B(j)
      BY <1>5, <1>7, <3>1
    <3> QED
      BY <1>3, <1>8, <3>2
  <2>2. ASSUME NEW i \in DOMAIN S, S[i].state = "Done" PROVE S[i].pos = S[i].end
    <3>1. Total = 0 /\ k = 1 /\ i = 0
      BY <1>1, <1>2, <1>3, <1>8, <2>2
    <3> QED
      BY <1>3, <1>6, <1>8, <3>1
  <2> QED
    BY <1>10, <2>1, <2>2 DEF WellFormed
<1>12. Recorded(S) = {}
  <2>1. ASSUME NEW i \in DOMAIN S PROVE Span(S[i].start, S[i].pos) = {}
    <3>1. S[i].start = S[i].pos /\ S[i].start \in Int
      BY <1>1, <1>3, <1>5, <1>8
    <3> QED
      BY <3>1 DEF Span
  <2> QED
    BY <2>1 DEF Recorded
<1> QED
  BY <1>3, <1>8, <1>9, <1>11, <1>12 DEF S

(***************************************************************************)
(* The operations of a worker                                              *)
(***************************************************************************)

LEMMA RecordedByte ==
  ASSUME NEW S, NEW b
  PROVE  b \in Recorded(S) <=> \E i \in DOMAIN S : b \in Span(S[i].start, S[i].pos)
BY DEF Recorded

LEMMA SegmentFields ==
  ASSUME SizeAssumption, NEW owners, NEW s \in Segment(owners)
  PROVE  /\ s.start \in Nat /\ s.end \in Nat /\ s.pos \in Nat /\ s.retries \in 0 .. MaxRetries + 1
         /\ s.start \in 0 .. Total /\ s.end \in 0 .. Total /\ s.pos \in 0 .. Total
         /\ s.state \in {"Pending", "Active", "Done"} /\ s.worker \in owners \cup {NoWorker}
         /\ Total \in Nat
BY DEF Segment, SizeAssumption

\* From S to T only positions and states change, and positions stay in their
\* segments.
Slides(S, T) ==
  /\ DOMAIN T = DOMAIN S
  /\ \A i \in DOMAIN S :
       /\ T[i].start = S[i].start /\ T[i].end = S[i].end
       /\ T[i].start <= T[i].pos /\ T[i].pos <= T[i].end
       /\ T[i].state = "Done" => T[i].pos = T[i].end

LEMMA SlidesKeeps ==
  ASSUME NEW S, NEW T, WellFormed(S), Slides(S, T)
  PROVE  WellFormed(T)
BY DEF WellFormed, Tiles, Slides

LEMMA TakePendingKeeps ==
  ASSUME SizeAssumption, NEW owners, NEW S, IsMap(S, owners), WellFormed(S),
         NEW i \in DOMAIN S, NEW w \in owners
  PROVE  LET T == TakePending(S, i, w)
         IN  /\ IsMap(T, owners) /\ WellFormed(T)
             /\ DOMAIN T = DOMAIN S /\ Recorded(T) = Recorded(S)
<1> DEFINE T == TakePending(S, i, w)
<1>1. DOMAIN T = DOMAIN S
  BY DEF TakePending
<1>2. \A j \in DOMAIN S : /\ S[j] \in Segment(owners) /\ T[j] \in Segment(owners)
                          /\ T[j].start = S[j].start /\ T[j].end = S[j].end /\ T[j].pos = S[j].pos
                          /\ T[j].state = "Done" => S[j].state = "Done"
  BY DEF TakePending, IsMap, Segment
<1> HIDE DEF T
<1>3. \A j \in DOMAIN S : T[j].start <= T[j].pos /\ T[j].pos <= T[j].end
                         /\ (T[j].state = "Done" => T[j].pos = T[j].end)
  BY <1>2 DEF WellFormed, Tiles
<1>4. WellFormed(T)
  BY <1>1, <1>2, <1>3, SlidesKeeps DEF Slides
<1>5. IsMap(T, owners)
  BY <1>1, <1>2 DEF IsMap
<1>6. Recorded(T) = Recorded(S)
  BY <1>1, <1>2 DEF Recorded
<1> QED
  BY <1>1, <1>4, <1>5, <1>6 DEF T

\* A rewound segment may count as Done only when it is empty; claim rewinds
\* what it has just made Active.
LEMMA RewindKeeps ==
  ASSUME SizeAssumption, NEW owners, NEW S, IsMap(S, owners), WellFormed(S),
         NEW i \in DOMAIN S, S[i].state # "Done"
  PROVE  LET T == Rewind(S, i)
         IN  /\ IsMap(T, owners) /\ WellFormed(T)
             /\ DOMAIN T = DOMAIN S /\ Recorded(T) \subseteq Recorded(S)
<1> DEFINE T == Rewind(S, i)
<1>1. DOMAIN T = DOMAIN S
  BY DEF Rewind
<1>2. \A j \in DOMAIN S : /\ S[j] \in Segment(owners) /\ T[j] \in Segment(owners)
                          /\ T[j].start = S[j].start /\ T[j].end = S[j].end
                          /\ T[j].pos = IF j = i THEN S[j].start ELSE S[j].pos
                          /\ T[j].state = S[j].state
  BY DEF Rewind, IsMap, Segment
<1> HIDE DEF T
<1>3. ASSUME NEW j \in DOMAIN S
      PROVE  /\ T[j].start = S[j].start /\ T[j].end = S[j].end
             /\ T[j].start <= T[j].pos /\ T[j].pos <= T[j].end
             /\ T[j].state = "Done" => T[j].pos = T[j].end
             /\ T[j].pos <= S[j].pos
  <2>1. S[j].start \in Nat /\ S[j].pos \in Nat /\ S[j].end \in Nat
    BY <1>2, SegmentFields
  <2>2. S[j].start <= S[j].pos /\ S[j].pos <= S[j].end /\ (S[j].state = "Done" => S[j].pos = S[j].end)
    BY DEF WellFormed, Tiles
  <2> QED
    BY <1>2, <2>1, <2>2
<1>4. WellFormed(T)
  <2>1. Slides(S, T)
    BY <1>1, <1>3 DEF Slides
  <2> QED
    BY <2>1, SlidesKeeps
<1>5. IsMap(T, owners)
  BY <1>1, <1>2 DEF IsMap
<1>6. Recorded(T) \subseteq Recorded(S)
  <2>1. ASSUME NEW j \in DOMAIN S PROVE Span(T[j].start, T[j].pos) \subseteq Span(S[j].start, S[j].pos)
    BY <1>2, <1>3, SegmentFields DEF Span
  <2> QED
    BY <1>1, <2>1 DEF Recorded
<1> QED
  BY <1>1, <1>4, <1>5, <1>6 DEF T

\* advance records bytes of the write only, and loses none.
LEMMA AdvanceKeeps ==
  ASSUME SizeAssumption, NEW owners, NEW S, IsMap(S, owners), WellFormed(S),
         NEW i, NEW from \in Nat, NEW n \in Nat
  PROVE  LET T == Advance(S, i, from, n)
         IN  /\ IsMap(T, owners) /\ WellFormed(T)
             /\ DOMAIN T = DOMAIN S
             /\ Recorded(S) \subseteq Recorded(T)
             /\ Recorded(T) \subseteq Recorded(S) \cup Span(from, from + n)
<1> DEFINE T == Advance(S, i, from, n)
<1>1. CASE ~ (i \in DOMAIN S /\ S[i].pos = from)
  <2>1. T = S
    BY <1>1 DEF Advance
  <2> QED
    BY <2>1
<1>2. CASE i \in DOMAIN S /\ S[i].pos = from
  <2> DEFINE new == from + MinOf(n, S[i].end - from)
  <2>1. T = [S EXCEPT ![i].pos = new] /\ DOMAIN T = DOMAIN S
    BY <1>2 DEF Advance
  <2>2. /\ S[i] \in Segment(owners) /\ S[i].start \in Nat /\ S[i].end \in 0 .. Total /\ Total \in Nat
    BY <1>2, SegmentFields DEF IsMap
  <2>3. S[i].start <= from /\ from <= S[i].end
    BY <1>2 DEF WellFormed, Tiles
  <2>4. /\ new \in 0 .. Total /\ from <= new /\ new <= from + n /\ new <= S[i].end
        /\ from = S[i].end => new = from
    BY <2>2, <2>3 DEF MinOf
  <2> HIDE DEF new
  <2>5. \A j \in DOMAIN S : /\ S[j] \in Segment(owners) /\ T[j] \in Segment(owners)
                            /\ T[j].start = S[j].start /\ T[j].end = S[j].end
                            /\ T[j].state = S[j].state
                            /\ j # i => T[j].pos = S[j].pos
    BY <2>1, <2>4 DEF IsMap, Segment
  <2>6. T[i].pos = new
    BY <1>2, <2>1, <2>2 DEF Segment
  <2> HIDE DEF T
  <2>7. WellFormed(T)
    <3>1. ASSUME NEW j \in DOMAIN S
          PROVE  /\ T[j].start = S[j].start /\ T[j].end = S[j].end
                 /\ T[j].start <= T[j].pos /\ T[j].pos <= T[j].end
                 /\ T[j].state = "Done" => T[j].pos = T[j].end
      <4>1. S[j].start <= S[j].pos /\ S[j].pos <= S[j].end /\ (S[j].state = "Done" => S[j].pos = S[j].end)
        BY DEF WellFormed, Tiles
      <4>2. CASE j = i
        BY <1>2, <2>2, <2>3, <2>4, <2>5, <2>6, <4>1, <4>2
      <4>3. CASE j # i
        BY <2>5, <4>1, <4>3
      <4> QED
        BY <4>2, <4>3
    <3>2. Slides(S, T)
      BY <2>1, <3>1 DEF Slides
    <3> QED
      BY <3>2, SlidesKeeps
  <2>8. IsMap(T, owners)
    BY <2>1, <2>5 DEF IsMap
  <2>9. ASSUME NEW b \in Recorded(S) PROVE b \in Recorded(T)
    <3>1. PICK j \in DOMAIN S : b \in Span(S[j].start, S[j].pos)
      BY RecordedByte
    <3>2. b \in Span(T[j].start, T[j].pos)
      <4>1. S[j].start \in Nat /\ S[j].pos \in Nat
        BY <2>5, SegmentFields
      <4> QED
        BY <1>2, <2>2, <2>4, <2>5, <2>6, <3>1, <4>1 DEF Span
    <3> QED
      BY <2>1, <3>2, RecordedByte
  <2>10. ASSUME NEW b \in Recorded(T) PROVE b \in Recorded(S) \cup Span(from, from + n)
    <3>1. PICK j \in DOMAIN S : b \in Span(T[j].start, T[j].pos)
      BY <2>1, RecordedByte
    <3>2. CASE j # i
      <4>1. b \in Span(S[j].start, S[j].pos)
        BY <2>5, <3>1, <3>2
      <4> QED
        BY <4>1, RecordedByte
    <3>3. CASE j = i
      <4>1. b \in Span(S[i].start, from) \/ b \in Span(from, from + n)
        BY <2>2, <2>3, <2>4, <2>5, <2>6, <3>1, <3>3 DEF Span
      <4> QED
        BY <1>2, <4>1, RecordedByte
    <3> QED
      BY <3>2, <3>3
  <2> QED
    BY <2>1, <2>7, <2>8, <2>9, <2>10 DEF T
<1> QED
  BY <1>1, <1>2

\* A split leaves both sides at least MinSplit bytes and the victim its position.
LEMMA SplitPointBounds ==
  ASSUME SizeAssumption, NEW owners, NEW s \in Segment(owners),
         s.pos <= s.end, Remaining(s) >= 2 * MinSplit
  PROVE  /\ SplitPoint(s) \in 0 .. Total
         /\ s.pos + MinSplit <= SplitPoint(s)
         /\ SplitPoint(s) <= s.end - MinSplit
<1>1. /\ s.pos \in Nat /\ s.end \in 0 .. Total /\ Total \in Nat
      /\ MinSplit \in Nat /\ Remaining(s) = s.end - s.pos
  BY SegmentFields DEF SizeAssumption, Remaining
<1>2. Remaining(s) \div 2 \in Nat
  BY <1>1, Quotient
<1>3. AlignUp(s.pos + (Remaining(s) \div 2)) \in Nat
  BY <1>1, <1>2, AlignUpBounds
<1> QED
  BY <1>1, <1>3 DEF SplitPoint, MinOf, MaxOf

\* T is S after w split segment i at mid and took the back half as id.
Split(S, T, owners, i, w, id, mid) ==
  /\ IsMap(T, owners) /\ WellFormed(T)
  /\ DOMAIN T = DOMAIN S \cup {id}
  /\ Recorded(T) = Recorded(S)
  /\ mid \in 0 .. Total /\ S[i].pos + MinSplit <= mid /\ mid + MinSplit <= S[i].end
  /\ T[id].state = "Active" /\ T[id].worker = w
  /\ T[id].start = mid /\ T[id].pos = mid /\ T[id].end = S[i].end
  /\ T[i].pos = S[i].pos /\ T[i].end = mid
  /\ T[i].state = "Active" /\ T[i].worker = S[i].worker
  /\ \A j \in DOMAIN S \ {i} : T[j] = S[j]

LEMMA StealKeeps ==
  ASSUME SizeAssumption, NEW owners, NEW S, IsMap(S, owners), WellFormed(S),
         NEW i \in Splittable(S), NEW w \in owners, NEW id \in Nat, id \notin DOMAIN S
  PROVE  Split(S, Steal(S, i, w, id), owners, i, w, id, SplitPoint(S[i]))
<1> DEFINE mid == SplitPoint(S[i])
           T == Steal(S, i, w, id)
<1>1. i \in DOMAIN S /\ S[i].state = "Active" /\ Remaining(S[i]) >= 2 * MinSplit /\ i # id
  BY DEF Splittable
<1>2. S[i] \in Segment(owners) /\ MinSplit \in Nat \ {0} /\ Total \in Nat
  BY <1>1 DEF IsMap, SizeAssumption
<1>3. /\ S[i].start \in Nat /\ S[i].pos \in Nat /\ S[i].end \in 0 .. Total
      /\ S[i].start <= S[i].pos /\ S[i].pos <= S[i].end
  BY <1>1, <1>2, SegmentFields DEF WellFormed, Tiles
<1>4. mid \in 0 .. Total /\ S[i].pos + MinSplit <= mid /\ mid + MinSplit <= S[i].end
  BY <1>1, <1>2, <1>3, SplitPointBounds
<1> HIDE DEF mid
<1>5. DOMAIN T = DOMAIN S \cup {id}
  BY DEF Steal
<1>6. T[id] = [NewSegment(mid, S[i].end, mid) EXCEPT !.state = "Active", !.worker = w]
  BY DEF Steal, mid
<1>7. T[i] = [S[i] EXCEPT !.end = mid]
  BY <1>1 DEF Steal, mid
<1>8. \A j \in DOMAIN S \ {i} : T[j] = S[j]
  BY DEF Steal
<1> HIDE DEF T
<1>9. /\ T[id] \in Segment(owners)
      /\ T[id].state = "Active" /\ T[id].worker = w
      /\ T[id].start = mid /\ T[id].pos = mid /\ T[id].end = S[i].end
  <2>1. NewSegment(mid, S[i].end, mid) \in Segment(owners)
    BY <1>3, <1>4, <1>2, NewSegmentType
  <2> QED
    BY <1>6, <2>1 DEF NewSegment, Segment
<1>10. /\ T[i] \in Segment(owners) /\ T[i].start = S[i].start /\ T[i].pos = S[i].pos
       /\ T[i].end = mid /\ T[i].state = "Active" /\ T[i].worker = S[i].worker
  BY <1>1, <1>2, <1>4, <1>7 DEF Segment
<1>11. IsMap(T, owners)
  BY <1>5, <1>8, <1>9, <1>10 DEF IsMap
<1>12. \A j \in DOMAIN S : /\ S[j].start \in Nat /\ S[j].end \in Nat /\ S[j].pos \in Nat
                          /\ S[j].start <= S[j].pos /\ S[j].pos <= S[j].end /\ S[j].end <= Total
  BY SegmentFields DEF IsMap, WellFormed, Tiles
<1>13. \A j \in DOMAIN S \ {i} : S[j].end <= S[i].start \/ S[i].end <= S[j].start
  BY <1>1 DEF WellFormed, Tiles
<1>14. WellFormed(T)
  <2>1. ASSUME NEW j \in DOMAIN T
        PROVE  /\ 0 <= T[j].start /\ T[j].start <= T[j].pos /\ T[j].pos <= T[j].end /\ T[j].end <= Total
               /\ T[j].state = "Done" => T[j].pos = T[j].end
    <3>1. CASE j = id
      BY <1>2, <1>3, <1>4, <1>9, <3>1
    <3>2. CASE j = i
      BY <1>2, <1>3, <1>4, <1>10, <3>2
    <3>3. CASE j \in DOMAIN S \ {i}
      BY <1>8, <1>12, <3>3 DEF WellFormed
    <3> QED
      BY <1>5, <3>1, <3>2, <3>3
  <2>2. ASSUME NEW b \in Bytes PROVE \E j \in DOMAIN T : b \in Span(T[j].start, T[j].end)
    <3>1. PICK j \in DOMAIN S : b \in Span(S[j].start, S[j].end)
      BY DEF WellFormed, Tiles
    <3>2. CASE j # i
      BY <1>5, <1>8, <3>1, <3>2
    <3>3. CASE j = i
      <4>1. b \in Span(T[i].start, T[i].end) \/ b \in Span(T[id].start, T[id].end)
        BY <1>3, <1>4, <1>9, <1>10, <3>1, <3>3 DEF Span
      <4> QED
        BY <1>1, <1>5, <4>1
    <3> QED
      BY <3>2, <3>3
  <2>3. ASSUME NEW j \in DOMAIN T, NEW l \in DOMAIN T, j # l
        PROVE  /\ T[j].end <= T[l].start \/ T[l].end <= T[j].start
               /\ T[j].start # T[l].start
    <3>1. ASSUME NEW x \in DOMAIN S \ {i}
          PROVE  /\ T[x].end <= T[i].start \/ T[i].end <= T[x].start
                 /\ T[x].end <= T[id].start \/ T[id].end <= T[x].start
                 /\ T[x].start # T[i].start /\ T[x].start # T[id].start
      <4>1. S[x].start # S[i].start
        BY <1>1 DEF WellFormed
      <4> QED
        BY <1>2, <1>3, <1>4, <1>8, <1>9, <1>10, <1>12, <1>13, <4>1
    <3>2. T[i].end <= T[id].start /\ T[i].start # T[id].start
      BY <1>2, <1>3, <1>4, <1>9, <1>10
    <3>3. \A x, y \in DOMAIN S \ {i} : x # y =>
             /\ T[x].end <= T[y].start \/ T[y].end <= T[x].start
             /\ T[x].start # T[y].start
      BY <1>8 DEF WellFormed, Tiles
    <3> QED
      BY <1>5, <2>3, <3>1, <3>2, <3>3
  <2> QED
    BY <2>1, <2>2, <2>3 DEF WellFormed, Tiles
<1>15. Recorded(T) = Recorded(S)
  <2>1. \A j \in DOMAIN S : T[j].start = S[j].start /\ T[j].pos = S[j].pos
    BY <1>8, <1>10
  <2>2. Span(T[id].start, T[id].pos) = {}
    BY <1>4, <1>9 DEF Span
  <2>3. ASSUME NEW b PROVE b \in Recorded(T) <=> b \in Recorded(S)
    BY <1>5, <2>1, <2>2, RecordedByte
  <2> QED
    BY <2>3
<1> QED
  BY <1>4, <1>5, <1>8, <1>9, <1>10, <1>11, <1>14, <1>15 DEF T, mid, Split

LEMMA ReleasedKeeps ==
  ASSUME SizeAssumption, NEW owners, NEW S, IsMap(S, owners), WellFormed(S),
         NEW i \in DOMAIN S, NEW failed \in BOOLEAN
  PROVE  LET T == [S EXCEPT ![i] = Released(S[i], failed)]
         IN  /\ IsMap(T, owners) /\ WellFormed(T)
             /\ DOMAIN T = DOMAIN S /\ Recorded(T) = Recorded(S)
             /\ T[i].state # "Active"
             /\ \A j \in DOMAIN S \ {i} : T[j] = S[j]
<1> DEFINE T == [S EXCEPT ![i] = Released(S[i], failed)]
<1>1. DOMAIN T = DOMAIN S /\ \A j \in DOMAIN S \ {i} : T[j] = S[j]
  OBVIOUS
<1>2. T[i] = Released(S[i], failed)
  OBVIOUS
<1> HIDE DEF T
<1>3. /\ S[i] \in Segment(owners) /\ S[i].pos \in Nat /\ S[i].end \in Nat /\ MaxRetries \in Nat
      /\ S[i].retries \in 0 .. MaxRetries + 1
      /\ S[i].start <= S[i].pos /\ S[i].pos <= S[i].end
  BY SegmentFields DEF IsMap, SizeAssumption, WellFormed, Tiles
<1>4. /\ T[i] \in Segment(owners)
      /\ T[i].start = S[i].start /\ T[i].end = S[i].end /\ T[i].pos = S[i].pos
      /\ T[i].state # "Active"
      /\ T[i].state = "Done" => S[i].pos = S[i].end
  <2>1. MinOf(S[i].retries, MaxRetries) + 1 \in 0 .. MaxRetries + 1 /\ 1 \in 0 .. MaxRetries + 1
    BY <1>3 DEF MinOf
  <2>2. CASE S[i].pos >= S[i].end
    <3>1. T[i] = [S[i] EXCEPT !.worker = NoWorker, !.state = "Done"]
      BY <1>2, <2>2 DEF Released
    <3>2. S[i].pos = S[i].end
      BY <1>3, <2>2
    <3> QED
      BY <1>3, <3>1, <3>2 DEF Segment
  <2>3. CASE ~ (S[i].pos >= S[i].end)
    <3>1. PICK r \in 0 .. MaxRetries + 1 :
            T[i] = [S[i] EXCEPT !.worker = NoWorker, !.state = "Pending", !.retries = r]
      BY <1>2, <1>3, <2>1, <2>3 DEF Released
    <3> QED
      BY <1>3, <3>1 DEF Segment
  <2> QED
    BY <2>2, <2>3
<1>5. IsMap(T, owners)
  BY <1>1, <1>4 DEF IsMap
<1>6. WellFormed(T)
  <2>1. ASSUME NEW j \in DOMAIN S
        PROVE  /\ T[j].start = S[j].start /\ T[j].end = S[j].end
               /\ T[j].start <= T[j].pos /\ T[j].pos <= T[j].end
               /\ T[j].state = "Done" => T[j].pos = T[j].end
    BY <1>1, <1>3, <1>4 DEF WellFormed, Tiles
  <2>2. Slides(S, T)
    BY <1>1, <2>1 DEF Slides
  <2> QED
    BY <2>2, SlidesKeeps
<1>7. Recorded(T) = Recorded(S)
  <2>1. \A j \in DOMAIN S : T[j].start = S[j].start /\ T[j].pos = S[j].pos
    BY <1>1, <1>4
  <2> QED
    BY <1>1, <2>1 DEF Recorded
<1> QED
  BY <1>1, <1>4, <1>5, <1>6, <1>7 DEF T

(***************************************************************************)
(* Merging completed segments                                              *)
(***************************************************************************)

\* Segments are ordered like their first bytes.
LEMMA InOrder ==
  ASSUME SizeAssumption, NEW owners, NEW S, IsMap(S, owners), WellFormed(S),
         NEW i \in DOMAIN S, NEW j \in DOMAIN S, S[i].start < S[j].start
  PROVE  S[i].end <= S[j].start
<1>1. S[i].start \in Nat /\ S[j].start \in Nat /\ S[j].end \in Nat /\ S[i].end \in Nat
  BY SegmentFields DEF IsMap
<1>2. S[j].start <= S[j].end
  BY <1>1, SegmentFields DEF IsMap, WellFormed, Tiles
<1>3. S[i].end <= S[j].start \/ S[j].end <= S[i].start
  BY <1>1, i # j DEF WellFormed, Tiles
<1> QED
  BY <1>1, <1>2, <1>3

LEMMA DoneUpToFacts ==
  ASSUME SizeAssumption, NEW owners, NEW S, IsMap(S, owners), WellFormed(S),
         NEW i \in DOMAIN S, NEW j \in DOMAIN S
  PROVE  /\ S[i].state = "Done" <=> DoneUpTo(S, i, i)
         /\ DoneUpTo(S, i, j) => S[i].state = "Done" /\ S[j].state = "Done"
         /\ DoneUpTo(S, i, j) /\ i # j => S[i].start < S[j].start
         /\ \A h \in DOMAIN S : DoneUpTo(S, h, i) /\ DoneUpTo(S, i, j) => DoneUpTo(S, h, j)
         /\ \A m \in DOMAIN S : DoneUpTo(S, i, m) /\ S[i].start <= S[j].start /\ S[j].start <= S[m].start
                                => DoneUpTo(S, i, j)
<1>1. \A k \in DOMAIN S : S[k].start \in Nat
  BY SegmentFields DEF IsMap
<1>2. \A k, l \in DOMAIN S : S[k].start = S[l].start => k = l
  BY DEF WellFormed
<1>3. \A k, l \in DOMAIN S : k = l \/ S[k].start < S[l].start \/ S[l].start < S[k].start
  BY <1>1, <1>2
<1> QED
  BY <1>1, <1>2, <1>3 DEF DoneUpTo

\* Where a run of completed segments ends: at the end of one of them.
LEMMA RunEndIsGreatest ==
  ASSUME SizeAssumption, NEW owners, NEW S, IsMap(S, owners), WellFormed(S),
         NEW i \in DOMAIN S, S[i].state = "Done"
  PROVE  /\ RunEnd(S, i) \in 0 .. Total
         /\ \E m \in DOMAIN S : DoneUpTo(S, i, m) /\ RunEnd(S, i) = S[m].end
         /\ \A j \in DOMAIN S : DoneUpTo(S, i, j) => S[j].end <= RunEnd(S, i)
<1> DEFINE ends == {S[j].end : j \in {j \in DOMAIN S : DoneUpTo(S, i, j)}}
<1>1. Total \in Nat /\ ends \in SUBSET (0 .. Total)
  BY SegmentFields DEF IsMap, SizeAssumption
<1>2. ends # {}
  BY DoneUpToFacts
<1>3. \E e \in ends : \A x \in ends : x <= e
  BY <1>1, <1>2, GreatestNat
<1>4. \E e \in ends : \A j \in DOMAIN S : DoneUpTo(S, i, j) => S[j].end <= e
  BY <1>3
<1>5. RunEnd(S, i) \in ends /\ \A j \in DOMAIN S : DoneUpTo(S, i, j) => S[j].end <= RunEnd(S, i)
  BY <1>4 DEF RunEnd
<1> QED
  BY <1>1, <1>5

\* Every segment is a head or belongs to the run of one.
LEMMA EveryRunHasAHead ==
  ASSUME SizeAssumption, NEW owners, NEW S, IsMap(S, owners), WellFormed(S),
         NEW j \in DOMAIN S, j \notin RunHeads(S)
  PROVE  \E i \in RunHeads(S) : DoneUpTo(S, i, j)
<1> DEFINE before == {i \in DOMAIN S : i # j /\ DoneUpTo(S, i, j)}
           starts == {S[i].start : i \in before}
<1>1. \A i \in DOMAIN S : S[i].start \in Nat
  BY SegmentFields DEF IsMap
<1>2. starts \in SUBSET Nat /\ starts # {}
  BY <1>1 DEF RunHeads
<1>3. PICK first \in starts : \A x \in starts : first <= x
  BY <1>2, LeastNat
<1>4. PICK i \in before : first = S[i].start
  OBVIOUS
<1>5. ASSUME NEW h \in DOMAIN S, h # i, DoneUpTo(S, h, i) PROVE FALSE
  <2>1. S[h].start < S[i].start /\ S[i].start < S[j].start /\ DoneUpTo(S, h, j)
    BY <1>4, <1>5, DoneUpToFacts
  <2>2. h # j
    BY <1>1, <1>4, <2>1
  <2>3. first <= S[h].start
    BY <1>3, <2>1, <2>2
  <2> QED
    BY <1>1, <1>4, <2>1, <2>3
<1> QED
  BY <1>4, <1>5 DEF RunHeads

\* A run of completed segments has no gap: its bytes are all recorded.
LEMMA RunIsRecorded ==
  ASSUME SizeAssumption, NEW owners, NEW S, IsMap(S, owners), WellFormed(S),
         NEW i \in DOMAIN S, NEW m \in DOMAIN S, DoneUpTo(S, i, m),
         NEW b \in Bytes, S[i].start <= b, b < S[m].end
  PROVE  b \in Recorded(S)
<1>1. PICK k \in DOMAIN S : b \in Span(S[k].start, S[k].end)
  BY DEF WellFormed, Tiles
<1>2. /\ b \in Nat /\ \A j \in DOMAIN S : S[j].start \in Nat /\ S[j].end \in Nat
      /\ S[k].start <= b /\ b < S[k].end
  BY <1>1, SegmentFields DEF IsMap, Span, Bytes
<1>3. S[i].start <= S[k].start
  <2>1. CASE S[k].start < S[i].start
    <3>1. S[k].end <= S[i].start
      BY <2>1, InOrder
    <3> QED
      BY <1>2, <3>1
  <2> QED
    BY <1>2, <2>1
<1>4. S[k].start <= S[m].start
  <2>1. CASE S[m].start < S[k].start
    <3>1. S[m].end <= S[k].start
      BY <2>1, InOrder
    <3> QED
      BY <1>2, <3>1
  <2> QED
    BY <1>2, <2>1
<1>5. S[k].state = "Done"
  BY <1>3, <1>4 DEF DoneUpTo
<1>6. S[k].pos = S[k].end
  BY <1>5 DEF WellFormed
<1> QED
  BY <1>1, <1>6, RecordedByte

LEMMA MergeDoneKeeps ==
  ASSUME SizeAssumption, NEW owners, NEW S, IsMap(S, owners), WellFormed(S)
  PROVE  LET T == MergeDone(S)
         IN  /\ IsMap(T, owners) /\ WellFormed(T)
             /\ DOMAIN T \subseteq DOMAIN S /\ Recorded(T) = Recorded(S)
             /\ \A i \in DOMAIN S : S[i].state # "Done" => i \in DOMAIN T /\ T[i] = S[i]
             /\ \A i \in DOMAIN T : T[i].state = S[i].state
<1> DEFINE T == MergeDone(S)
           E(i) == RunEnd(S, i)
<1>1. /\ DOMAIN T = RunHeads(S) /\ RunHeads(S) \subseteq DOMAIN S
      /\ \A i \in RunHeads(S) : T[i] = IF S[i].state = "Done"
                                       THEN [S[i] EXCEPT !.end = E(i), !.pos = E(i)] ELSE S[i]
  BY DEF MergeDone, RunHeads
<1>2. ASSUME NEW i \in DOMAIN S
      PROVE  /\ S[i] \in Segment(owners) /\ S[i].start \in Nat /\ S[i].end \in 0 .. Total
             /\ S[i].pos \in 0 .. Total /\ Total \in Nat
             /\ S[i].start <= S[i].pos /\ S[i].pos <= S[i].end
             /\ S[i].state = "Done" => S[i].pos = S[i].end
  BY SegmentFields DEF IsMap, WellFormed, Tiles
<1>3. ASSUME NEW i \in DOMAIN S, S[i].state = "Done"
      PROVE  /\ E(i) \in 0 .. Total
             /\ \E m \in DOMAIN S : DoneUpTo(S, i, m) /\ E(i) = S[m].end
             /\ \A j \in DOMAIN S : DoneUpTo(S, i, j) => S[j].end <= E(i)
             /\ S[i].end <= E(i)
  BY <1>3, RunEndIsGreatest, DoneUpToFacts
<1> HIDE DEF T, E
<1>4. ASSUME NEW i \in RunHeads(S)
      PROVE  /\ T[i] \in Segment(owners) /\ T[i].start = S[i].start /\ T[i].state = S[i].state
             /\ S[i].state = "Done" => T[i].end = E(i) /\ T[i].pos = E(i)
             /\ S[i].state # "Done" => T[i] = S[i]
  <2>1. CASE S[i].state = "Done"
    <3>1. T[i] = [S[i] EXCEPT !.end = E(i), !.pos = E(i)] /\ E(i) \in 0 .. Total
      BY <1>1, <1>3, <2>1
    <3>2. S[i] \in Segment(owners)
      BY <1>1, <1>2
    <3> QED
      BY <2>1, <3>1, <3>2 DEF Segment
  <2>2. CASE S[i].state # "Done"
    BY <1>1, <1>2, <2>2
  <2> QED
    BY <2>1, <2>2
<1>5. ASSUME NEW i \in DOMAIN S, S[i].state # "Done" PROVE i \in RunHeads(S)
  BY <1>5, DoneUpToFacts DEF RunHeads
<1>6. IsMap(T, owners)
  BY <1>1, <1>4 DEF IsMap
<1>7. ASSUME NEW i \in RunHeads(S)
      PROVE  /\ 0 <= T[i].start /\ T[i].start <= T[i].pos /\ T[i].pos <= T[i].end /\ T[i].end <= Total
             /\ T[i].state = "Done" => T[i].pos = T[i].end
             /\ S[i].end <= T[i].end
  <2>1. i \in DOMAIN S
    BY <1>1
  <2>2. CASE S[i].state = "Done"
    <3>1. E(i) \in 0 .. Total /\ S[i].end <= E(i)
      BY <1>3, <2>1, <2>2
    <3> QED
      BY <1>2, <1>4, <2>1, <2>2, <3>1
  <2>3. CASE S[i].state # "Done"
    BY <1>2, <1>4, <2>1, <2>3
  <2> QED
    BY <2>2, <2>3
<1>8. ASSUME NEW b \in Bytes PROVE \E i \in RunHeads(S) : b \in Span(T[i].start, T[i].end)
  <2>1. PICK j \in DOMAIN S : b \in Span(S[j].start, S[j].end)
    BY DEF WellFormed, Tiles
  <2>2. CASE j \in RunHeads(S)
    BY <1>2, <1>4, <1>6, <1>7, <2>1, <2>2, SegmentFields DEF Span
  <2>3. CASE j \notin RunHeads(S)
    <3>1. PICK i \in RunHeads(S) : DoneUpTo(S, i, j)
      BY <2>3, EveryRunHasAHead
    <3>2. i \in DOMAIN S /\ S[i].state = "Done" /\ S[i].start <= S[j].start
      BY <1>1, <3>1, DoneUpToFacts DEF DoneUpTo
    <3>3. S[j].end <= E(i) /\ E(i) \in 0 .. Total
      BY <1>3, <3>1, <3>2
    <3>4. T[i].start = S[i].start /\ T[i].end = E(i)
      BY <1>4, <3>2
    <3> QED
      BY <1>2, <2>1, <3>2, <3>3, <3>4 DEF Span
  <2> QED
    BY <2>2, <2>3
<1>9. ASSUME NEW i \in RunHeads(S), NEW j \in RunHeads(S), S[i].start < S[j].start
      PROVE  T[i].end <= T[j].start
  <2>1. i \in DOMAIN S /\ j \in DOMAIN S /\ i # j
    <3>1. i \in DOMAIN S /\ j \in DOMAIN S
      BY <1>1
    <3>2. S[i].start \in Nat
      BY <1>2, <3>1
    <3> QED
      BY <1>9, <3>1, <3>2
  <2>2. CASE S[i].state # "Done"
    BY <1>4, <1>9, <2>1, <2>2, InOrder
  <2>3. CASE S[i].state = "Done"
    <3>1. PICK m \in DOMAIN S : DoneUpTo(S, i, m) /\ E(i) = S[m].end
      BY <1>3, <2>1, <2>3
    <3>2. CASE S[m].start < S[j].start
      BY <1>4, <2>1, <2>3, <3>1, <3>2, InOrder
    <3>3. CASE S[j].start <= S[m].start
      <4>1. DoneUpTo(S, i, j)
        BY <1>2, <1>9, <2>1, <3>1, <3>3, DoneUpToFacts
      <4> QED
        BY <2>1, <4>1 DEF RunHeads
    <3> QED
      BY <1>2, <2>1, <3>2, <3>3
  <2> QED
    BY <2>2, <2>3
<1>10. WellFormed(T)
  <2>1. ASSUME NEW i \in RunHeads(S), NEW j \in RunHeads(S), i # j
        PROVE  /\ T[i].end <= T[j].start \/ T[j].end <= T[i].start
               /\ T[i].start # T[j].start
    <3>1. i \in DOMAIN S /\ j \in DOMAIN S
      BY <1>1
    <3>2. S[i].start \in Nat /\ S[j].start \in Nat /\ S[i].start # S[j].start
      BY <1>2, <2>1, <3>1 DEF WellFormed
    <3>3. T[i].start = S[i].start /\ T[j].start = S[j].start
      BY <1>4
    <3>4. S[i].start < S[j].start \/ S[j].start < S[i].start
      BY <3>2
    <3> QED
      BY <1>9, <3>2, <3>3, <3>4
  <2>2. \A i, j \in RunHeads(S) : i # j => T[i].end <= T[j].start \/ T[j].end <= T[i].start
    BY <2>1
  <2>3. \A i, j \in RunHeads(S) : i # j => T[i].start # T[j].start
    BY <2>1
  <2>4. Tiles(T)
    BY <1>1, <1>7, <1>8, <2>2 DEF Tiles
  <2> QED
    BY <1>1, <1>7, <2>3, <2>4 DEF WellFormed
<1>11. ASSUME NEW b \in Recorded(S) PROVE b \in Recorded(T)
  <2>1. PICK j \in DOMAIN S : b \in Span(S[j].start, S[j].pos)
    BY RecordedByte
  <2>2. CASE j \in RunHeads(S)
    <3>1. CASE S[j].state = "Done"
      <4>1. T[j].start = S[j].start /\ T[j].pos = T[j].end /\ S[j].pos <= T[j].pos /\ T[j].pos \in Nat
        BY <1>2, <1>3, <1>4, <2>2, <3>1
      <4>2. b \in Span(T[j].start, T[j].pos)
        BY <1>2, <2>1, <4>1 DEF Span
      <4> QED
        BY <1>1, <2>2, <4>2, RecordedByte
    <3>2. CASE S[j].state # "Done"
      BY <1>1, <1>4, <2>1, <2>2, <3>2, RecordedByte
    <3> QED
      BY <3>1, <3>2
  <2>3. CASE j \notin RunHeads(S)
    <3>1. PICK i \in RunHeads(S) : DoneUpTo(S, i, j)
      BY <2>3, EveryRunHasAHead
    <3>2. i \in DOMAIN S /\ S[i].state = "Done" /\ S[i].start <= S[j].start
      BY <1>1, <3>1, DoneUpToFacts DEF DoneUpTo
    <3>3. S[j].end <= E(i) /\ E(i) \in 0 .. Total
      BY <1>3, <3>1, <3>2
    <3>4. T[i].start = S[i].start /\ T[i].pos = E(i)
      BY <1>4, <3>2
    <3>5. b \in Span(T[i].start, T[i].pos)
      BY <1>2, <2>1, <3>2, <3>3, <3>4 DEF Span
    <3> QED
      BY <1>1, <3>5, RecordedByte
  <2> QED
    BY <2>2, <2>3
<1>12. ASSUME NEW b \in Recorded(T) PROVE b \in Recorded(S)
  <2>1. PICK i \in RunHeads(S) : b \in Span(T[i].start, T[i].pos)
    BY <1>1, RecordedByte
  <2>2. i \in DOMAIN S
    BY <1>1
  <2>3. CASE S[i].state # "Done"
    <3>1. b \in Span(S[i].start, S[i].pos)
      BY <1>4, <2>1, <2>3
    <3> QED
      BY <2>2, <3>1, RecordedByte
  <2>4. CASE S[i].state = "Done"
    <3>1. PICK m \in DOMAIN S : DoneUpTo(S, i, m) /\ E(i) = S[m].end
      BY <1>3, <2>2, <2>4
    <3>2. T[i].start = S[i].start /\ T[i].pos = S[m].end
      BY <1>4, <2>4, <3>1
    <3>3. b \in Bytes /\ S[i].start <= b /\ b < S[m].end
      BY <1>2, <2>1, <2>2, <3>2 DEF Span, Bytes
    <3> QED
      BY <2>2, <3>1, <3>3, RunIsRecorded
  <2> QED
    BY <2>3, <2>4
<1> QED
  BY <1>1, <1>4, <1>5, <1>6, <1>10, <1>11, <1>12 DEF T

\* release gives up one segment: nothing recorded is lost or gained, and the
\* segments others hold stay as they are.
LEMMA ReleaseKeeps ==
  ASSUME SizeAssumption, NEW owners, NEW S, IsMap(S, owners), WellFormed(S),
         NEW i \in DOMAIN S, NEW failed \in BOOLEAN
  PROVE  LET T == Release(S, i, failed)
         IN  /\ IsMap(T, owners) /\ WellFormed(T)
             /\ DOMAIN T \subseteq DOMAIN S /\ Recorded(T) = Recorded(S)
             /\ \A j \in DOMAIN S \ {i} : S[j].state = "Active" => j \in DOMAIN T /\ T[j] = S[j]
             /\ \A j \in DOMAIN T : T[j].state = "Active" => j # i /\ S[j].state = "Active"
<1> DEFINE R == [S EXCEPT ![i] = Released(S[i], failed)]
           T == Release(S, i, failed)
<1>1. /\ IsMap(R, owners) /\ WellFormed(R) /\ DOMAIN R = DOMAIN S /\ Recorded(R) = Recorded(S)
      /\ R[i].state # "Active" /\ \A j \in DOMAIN S \ {i} : R[j] = S[j]
  BY ReleasedKeeps
<1>2. T = MergeDone(R)
  BY DEF Release
<1> HIDE DEF R, T
<1>3. /\ IsMap(T, owners) /\ WellFormed(T) /\ DOMAIN T \subseteq DOMAIN R /\ Recorded(T) = Recorded(R)
      /\ \A j \in DOMAIN R : R[j].state # "Done" => j \in DOMAIN T /\ T[j] = R[j]
      /\ \A j \in DOMAIN T : T[j].state = R[j].state
  BY <1>1, <1>2, MergeDoneKeeps
<1> QED
  BY <1>1, <1>3 DEF T

(***************************************************************************)
(* Saving and loading                                                      *)
(***************************************************************************)

\* What is saved of a sound map is a sound record of the same bytes.
LEMMA PersistedIsRecordable ==
  ASSUME SizeAssumption, NEW owners, NEW S, IsMap(S, owners), WellFormed(S)
  PROVE  Recordable(Persisted(S)) /\ RecordedIn(Persisted(S)) = Recorded(S)
<1> DEFINE P == Persisted(S)
           rec(i) == [start |-> S[i].start, end |-> S[i].end, pos |-> S[i].pos]
<1>1. ASSUME NEW i \in DOMAIN S
      PROVE  /\ rec(i) \in P /\ rec(i) \in [start : 0 .. Total, end : 0 .. Total, pos : 0 .. Total]
             /\ rec(i).start = S[i].start /\ rec(i).end = S[i].end /\ rec(i).pos = S[i].pos
             /\ S[i].start <= S[i].pos /\ S[i].pos <= S[i].end
  BY SegmentFields DEF IsMap, Persisted, WellFormed, Tiles
<1>2. \A r \in P : \E i \in DOMAIN S : r = rec(i)
  BY DEF Persisted
<1> HIDE DEF P, rec
<1>3. P \subseteq [start : 0 .. Total, end : 0 .. Total, pos : 0 .. Total]
  BY <1>1, <1>2
<1>4. \A r \in P : r.start <= r.pos /\ r.pos <= r.end
  BY <1>1, <1>2
<1>5. ASSUME NEW b \in Bytes PROVE \E r \in P : b \in Span(r.start, r.end)
  <2>1. PICK i \in DOMAIN S : b \in Span(S[i].start, S[i].end)
    BY DEF WellFormed, Tiles
  <2> QED
    BY <1>1, <2>1
<1>6. ASSUME NEW r \in P, NEW q \in P, r # q
      PROVE  r.start # q.start /\ (r.end <= q.start \/ q.end <= r.start)
  <2>1. PICK i \in DOMAIN S, j \in DOMAIN S : r = rec(i) /\ q = rec(j)
    BY <1>2
  <2>2. i # j
    BY <1>6, <2>1
  <2> QED
    BY <1>1, <2>1, <2>2 DEF WellFormed, Tiles
<1>7. ASSUME NEW b PROVE b \in RecordedIn(P) <=> b \in Recorded(S)
  <2>1. b \in RecordedIn(P) <=> \E r \in P : b \in Span(r.start, r.pos)
    BY DEF RecordedIn
  <2> QED
    BY <1>1, <1>2, <2>1, RecordedByte
<1>8. RecordedIn(P) = Recorded(S)
  BY <1>7
<1> QED
  BY <1>3, <1>4, <1>5, <1>6, <1>8 DEF P, Recordable

\* One segment is one entry.
LEMMA OneIsPersisted ==
  ASSUME NEW S, DOMAIN S = {0}
  PROVE  Cardinality(Persisted(S)) = 1
<1>1. Persisted(S) = {[start |-> S[0].start, end |-> S[0].end, pos |-> S[0].pos]}
  BY DEF Persisted
<1> QED
  BY <1>1, FS_Singleton

\* The entries of a sound record begin at different bytes, so there are
\* finitely many.
LEMMA RecordIsFinite ==
  ASSUME SizeAssumption, NEW P, Recordable(P)
  PROVE  IsFiniteSet(P) /\ Cardinality(P) \in Nat
<1> DEFINE f == [r \in P |-> r.start]
<1>1. Total \in Nat /\ \A r \in P : r.start \in 0 .. Total
  BY DEF Recordable, SizeAssumption
<1>2. f \in Injection(P, 0 .. Total)
  <2>1. f \in [P -> 0 .. Total]
    BY <1>1
  <2>2. \A r, q \in P : f[r] = f[q] => r = q
    BY DEF Recordable
  <2> QED
    BY <2>1, <2>2 DEF Injection, IsInjective
<1>3. IsFiniteSet(0 .. Total)
  BY <1>1, FS_Interval
<1> QED
  BY <1>2, <1>3, FS_Injection, FS_CardinalityType

\* The id an entry gets when it is loaded: how many begin before it.
Before(P, s) == {t \in P : t.start < s.start}
Rank(P, s) == Cardinality(Before(P, s))

\* Every number below the size of the record is the rank of one entry.
LEMMA RanksAreIds ==
  ASSUME SizeAssumption, NEW P, Recordable(P)
  PROVE  /\ \A s \in P : Rank(P, s) \in 0 .. Cardinality(P) - 1
         /\ \A s, q \in P : Rank(P, s) = Rank(P, q) => s = q
         /\ \A r \in 0 .. Cardinality(P) - 1 : \E s \in P : Rank(P, s) = r
<1> DEFINE n == Cardinality(P)
<1>1. IsFiniteSet(P) /\ n \in Nat
  BY RecordIsFinite
<1>2. \A s \in P : s.start \in Nat
  BY DEF Recordable, SizeAssumption
<1>3. ASSUME NEW s \in P
      PROVE  /\ Before(P, s) \subseteq P /\ s \notin Before(P, s)
             /\ IsFiniteSet(Before(P, s)) /\ Rank(P, s) \in Nat
  <2>1. Before(P, s) \in SUBSET P /\ s \notin Before(P, s)
    BY <1>2 DEF Before
  <2> QED
    BY <1>1, <2>1, FS_Subset, FS_CardinalityType DEF Rank
<1> HIDE DEF n
<1>4. ASSUME NEW s \in P PROVE Rank(P, s) \in 0 .. n - 1
  <2>1. IsFiniteSet(P \ {s}) /\ Cardinality(P \ {s}) = n - 1
    BY <1>1, FS_RemoveElement DEF n
  <2>2. Before(P, s) \in SUBSET (P \ {s})
    BY <1>3
  <2>3. Cardinality(Before(P, s)) <= Cardinality(P \ {s})
    BY <2>1, <2>2, FS_Subset
  <2>4. Rank(P, s) <= n - 1
    BY <2>1, <2>3 DEF Rank
  <2> QED
    BY <1>1, <1>3, <2>4
<1>5. ASSUME NEW s \in P, NEW q \in P, s.start < q.start
      PROVE  Rank(P, s) < Rank(P, q)
  <2>1. Before(P, s) \cup {s} \in SUBSET Before(P, q)
    BY <1>2, <1>5 DEF Before
  <2>2. Cardinality(Before(P, s) \cup {s}) = Rank(P, s) + 1
    BY <1>3, FS_AddElement DEF Rank
  <2>3. Cardinality(Before(P, s) \cup {s}) <= Rank(P, q)
    BY <1>3, <2>1, FS_Subset DEF Rank
  <2>4. Rank(P, s) \in Nat /\ Rank(P, q) \in Nat
    BY <1>3
  <2> QED
    BY <2>2, <2>3, <2>4
<1>6. ASSUME NEW s \in P, NEW q \in P, Rank(P, s) = Rank(P, q)
      PROVE  s = q
  <2>1. ~ (Rank(P, s) < Rank(P, q)) /\ ~ (Rank(P, q) < Rank(P, s))
    BY <1>3, <1>6
  <2>3. ~ (s.start < q.start) /\ ~ (q.start < s.start)
    BY <1>5, <2>1
  <2>2. s.start = q.start
    BY <1>2, <2>3
  <2> QED
    BY <2>2 DEF Recordable
<1> DEFINE f == [s \in P |-> Rank(P, s)]
<1>7. f \in Injection(P, 0 .. n - 1)
  <2>1. f \in [P -> 0 .. n - 1]
    BY <1>4
  <2>2. \A s, q \in P : f[s] = f[q] => s = q
    BY <1>6
  <2> QED
    BY <2>1, <2>2 DEF Injection, IsInjective
<1>8. IsFiniteSet(0 .. n - 1) /\ Cardinality(0 .. n - 1) = n
  BY <1>1, FS_Interval
<1>9. f \in Surjection(P, 0 .. n - 1)
  <2>1. Cardinality(P) = Cardinality(0 .. n - 1)
    BY <1>8 DEF n
  <2> HIDE DEF f
  <2> QED
    BY <1>7, <1>8, <2>1, FS_Injection
<1>10. \A r \in 0 .. n - 1 : \E s \in P : Rank(P, s) = r
  BY <1>9 DEF Surjection
<1> QED
  BY <1>4, <1>6, <1>10 DEF n

\* from_persisted: a sound record becomes a sound map of the same segments,
\* owned by nobody, with ids below the next one.
LEMMA FromPersistedKeeps ==
  ASSUME SizeAssumption, NEW owners, NEW P, Recordable(P)
  PROVE  LET S == FromPersisted(P)
         IN  /\ IsMap(S, owners) /\ WellFormed(S)
             /\ DOMAIN S = 0 .. NextIdOf(S) - 1
             /\ NextIdOf(S) = Cardinality(P) /\ Cardinality(P) \in Nat
             /\ Persisted(S) = P /\ Recorded(S) = RecordedIn(P)
             /\ \A i \in DOMAIN S : S[i].state # "Active"
<1> DEFINE n == Cardinality(P)
           at(r) == CHOOSE s \in P : Cardinality({t \in P : t.start < s.start}) = r
           S == FromPersisted(P)
<1>1. IsFiniteSet(P) /\ n \in Nat
  BY RecordIsFinite
<1>2. /\ \A s \in P : Rank(P, s) \in 0 .. n - 1
      /\ \A s, q \in P : Rank(P, s) = Rank(P, q) => s = q
      /\ \A r \in 0 .. n - 1 : \E s \in P : Rank(P, s) = r
  BY RanksAreIds
<1>3. \A r \in 0 .. n - 1 : at(r) \in P /\ Rank(P, at(r)) = r
  BY <1>2 DEF Rank, Before
<1>4. \A s \in P : at(Rank(P, s)) = s
  BY <1>2, <1>3
<1>5. DOMAIN S = 0 .. n - 1 /\ \A r \in 0 .. n - 1 : S[r] = NewSegment(at(r).start, at(r).end, at(r).pos)
  BY DEF FromPersisted
<1> HIDE DEF at, S
<1>6. NextIdOf(S) = n
  BY <1>1, <1>5, FS_Interval DEF NextIdOf
<1>7. \A s \in P : /\ s \in [start : 0 .. Total, end : 0 .. Total, pos : 0 .. Total]
                   /\ s.start <= s.pos /\ s.pos <= s.end
                   /\ s.start \in Nat /\ s.end \in Nat /\ s.pos \in Nat /\ s.end <= Total
  BY DEF Recordable, SizeAssumption
<1>8. ASSUME NEW r \in DOMAIN S
      PROVE  /\ r \in 0 .. n - 1 /\ r \in Nat /\ at(r) \in P /\ S[r] \in Segment(owners)
             /\ S[r].start = at(r).start /\ S[r].end = at(r).end /\ S[r].pos = at(r).pos
             /\ S[r].state = "Done" => S[r].pos = S[r].end
             /\ S[r].state # "Active"
  <2>1. r \in 0 .. n - 1 /\ r \in Nat /\ at(r) \in P /\ S[r] = NewSegment(at(r).start, at(r).end, at(r).pos)
    BY <1>1, <1>3, <1>5
  <2>2. S[r] \in Segment(owners)
    BY <1>7, <2>1, NewSegmentType
  <2>3. S[r].state = "Done" => at(r).pos = at(r).end
    BY <1>7, <2>1 DEF NewSegment
  <2> QED
    BY <2>1, <2>2, <2>3 DEF NewSegment
<1>9. IsMap(S, owners)
  BY <1>8 DEF IsMap
<1>10. ASSUME NEW i \in DOMAIN S, NEW j \in DOMAIN S, i # j
       PROVE  at(i) # at(j)
  BY <1>3, <1>8, <1>10
<1>11. ASSUME NEW s \in P
       PROVE  \E i \in DOMAIN S : at(i) = s
  BY <1>2, <1>4, <1>5
<1>12. Tiles(S)
  <2>1. ASSUME NEW b \in Bytes PROVE \E i \in DOMAIN S : b \in Span(S[i].start, S[i].end)
    <3>1. PICK s \in P : b \in Span(s.start, s.end)
      BY DEF Recordable
    <3>2. PICK i \in DOMAIN S : at(i) = s
      BY <1>11
    <3> QED
      BY <1>8, <3>1, <3>2
  <2>2. ASSUME NEW i \in DOMAIN S, NEW j \in DOMAIN S, i # j
        PROVE  S[i].end <= S[j].start \/ S[j].end <= S[i].start
    BY <1>8, <1>10, <2>2 DEF Recordable
  <2>3. ASSUME NEW i \in DOMAIN S
        PROVE  0 <= S[i].start /\ S[i].start <= S[i].pos /\ S[i].pos <= S[i].end /\ S[i].end <= Total
    BY <1>7, <1>8
  <2> QED
    BY <2>1, <2>2, <2>3 DEF Tiles
<1>13. WellFormed(S)
  <2>1. ASSUME NEW i \in DOMAIN S, NEW j \in DOMAIN S, i # j PROVE S[i].start # S[j].start
    BY <1>8, <1>10, <2>1 DEF Recordable
  <2> QED
    BY <1>8, <1>12, <2>1 DEF WellFormed
<1>14. Persisted(S) = P
  <2>1. \A i \in DOMAIN S : [start |-> S[i].start, end |-> S[i].end, pos |-> S[i].pos] = at(i)
    BY <1>7, <1>8
  <2>2. Persisted(S) = {at(i) : i \in DOMAIN S}
    BY <2>1 DEF Persisted
  <2> QED
    BY <1>8, <1>11, <2>2
<1>15. Recorded(S) = RecordedIn(P)
  BY <1>9, <1>13, <1>14, PersistedIsRecordable
<1> QED
  BY <1>1, <1>5, <1>6, <1>8, <1>9, <1>13, <1>14, <1>15 DEF S
=============================================================================
