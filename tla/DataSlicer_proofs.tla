-------------------------- MODULE DataSlicer_proofs --------------------------
(***************************************************************************)
(* For every recording, every interval and every number of calls: Slice    *)
(* and ComputeRegularizedProfiles access no vector out of range, what      *)
(* Slice leaves are the passes of the recording that are long enough, and  *)
(* every corrected profile lies on a line through readings that have a     *)
(* point.  For recordings made in the order of their times, and until a    *)
(* second Slice: a profile is in one segment, and no line is extrapolated. *)
(***************************************************************************)
EXTENDS DataSlicer, LinearRegression_proofs, FiniteSetTheorems, TLAPS

-----------------------------------------------------------------------------
(* Sets of numbers.                                                        *)

\* A non-empty set of natural numbers has the least element that Min returns.
LEMMA MinNat ==
    ASSUME NEW S \in SUBSET Nat, S # {}
    PROVE  Min(S) \in S /\ \A n \in S : Min(S) <= n
<1>1. \E m \in S : \A n \in S : m <= n
  BY LeastNat
<1> QED
  BY <1>1 DEF Min

\* The rank of a number in a set tells its numbers apart, and every rank up to the
\* size of the set is taken.
LEMMA Ranks ==
    ASSUME NEW S \in SUBSET Nat, IsFiniteSet(S),
           NEW r, r = [k \in S |-> Cardinality({h \in S : h <= k})]
    PROVE  /\ \A k \in S : r[k] \in 1 .. Cardinality(S)
           /\ \A j, k \in S : j < k => r[j] < r[k]
           /\ \A n \in 1 .. Cardinality(S) : \E k \in S : r[k] = n
<1> DEFINE below(k) == {h \in S : h <= k}
<1>1. Cardinality(S) \in Nat
  BY FS_CardinalityType
<1>2. ASSUME NEW k \in S PROVE IsFiniteSet(below(k)) /\ Cardinality(below(k)) \in 1 .. Cardinality(S)
  <2>1. below(k) \in SUBSET S /\ k \in below(k)
    OBVIOUS
  <2> HIDE DEF below
  <2>2. IsFiniteSet(below(k)) /\ Cardinality(below(k)) <= Cardinality(S)
    BY <2>1, FS_Subset
  <2>3. Cardinality(below(k)) \in Nat /\ Cardinality(below(k)) # 0
    BY <2>1, <2>2, FS_CardinalityType, FS_EmptySet
  <2> QED
    BY <1>1, <2>2, <2>3
<1>3. ASSUME NEW j \in S, NEW k \in S, j < k PROVE r[j] < r[k]
  <2>1. below(j) \in SUBSET below(k) /\ below(j) # below(k)
    <3>1. k \in below(k) /\ k \notin below(j)
      BY <1>3
    <3>2. \A h \in S : h <= j => h <= k
      BY <1>3
    <3> QED
      BY <3>1, <3>2
  <2> HIDE DEF below
  <2>2. Cardinality(below(j)) <= Cardinality(below(k)) /\ Cardinality(below(j)) # Cardinality(below(k))
    BY <1>2, <2>1, FS_Subset
  <2>3. Cardinality(below(j)) \in Nat /\ Cardinality(below(k)) \in Nat
    BY <1>2
  <2>4. r[j] = Cardinality(below(j)) /\ r[k] = Cardinality(below(k))
    BY DEF below
  <2> QED
    BY <2>2, <2>3, <2>4
<1>4. r \in Injection(S, 1 .. Cardinality(S))
  <2>1. r \in [S -> 1 .. Cardinality(S)]
    BY <1>2
  <2>2. ASSUME NEW j \in S, NEW k \in S, r[j] = r[k] PROVE j = k
    <3>1. r[j] \in Nat /\ r[k] \in Nat
      BY <2>1, <1>1
    <3>2. ~(j < k) /\ ~(k < j)
      BY <1>3, <2>2, <3>1
    <3> QED
      BY <3>2
  <2> QED
    BY <2>1, <2>2 DEF Injection, IsInjective
<1>5. r \in Surjection(S, 1 .. Cardinality(S))
  <2>1. IsFiniteSet(1 .. Cardinality(S)) /\ Cardinality(1 .. Cardinality(S)) = Cardinality(S)
    BY <1>1, UpTo
  <2> QED
    BY <1>4, <2>1, FS_Injection
<1>6. \A k \in S : r[k] \in 1 .. Cardinality(S)
  BY <1>2
<1> QED
  BY <1>3, <1>5, <1>6 DEF Surjection

\* InOrder lists a set of numbers completely, and in order.
LEMMA InOrderFacts ==
    ASSUME NEW S \in SUBSET Nat, IsFiniteSet(S)
    PROVE  /\ InOrder(S) \in Seq(S)
           /\ \A k \in S : \E n \in DOMAIN InOrder(S) : InOrder(S)[n] = k
           /\ \A a, b \in DOMAIN InOrder(S) : a < b => InOrder(S)[a] < InOrder(S)[b]
<1> DEFINE r == [k \in S |-> Cardinality({h \in S : h <= k})]
           s == InOrder(S)
           N == Cardinality(S)
<1>1. /\ \A k \in S : r[k] \in 1 .. N
      /\ \A j, k \in S : j < k => r[j] < r[k]
      /\ \A n \in 1 .. N : \E k \in S : r[k] = n
  BY Ranks
<1>2. N \in Nat
  BY FS_CardinalityType
<1>3. s = [n \in 1 .. N |-> CHOOSE k \in S : r[k] = n]
  <2> DEFINE size(n) == CHOOSE k \in S : Cardinality({h \in S : h <= k}) = n
             rank(n) == CHOOSE k \in S : r[k] = n
  <2>1. \A n \in 1 .. N : size(n) = rank(n)
    OBVIOUS
  <2>2. s = [n \in 1 .. N |-> size(n)]
    BY DEF InOrder
  <2> HIDE DEF size, rank
  <2>3. s = [n \in 1 .. N |-> rank(n)]
    BY <2>1, <2>2
  <2> QED
    BY <2>3 DEF rank
<1> HIDE DEF r, s
<1>4. ASSUME NEW n \in 1 .. N PROVE s[n] \in S /\ r[s[n]] = n
  BY <1>1, <1>3
<1>5. s \in Seq(S) /\ DOMAIN s = 1 .. N
  BY <1>2, <1>3, <1>4
<1>6. ASSUME NEW k \in S PROVE \E n \in DOMAIN s : s[n] = k
  <2>1. r[k] \in 1 .. N
    BY <1>1
  <2>2. s[r[k]] \in S /\ r[s[r[k]]] = r[k]
    BY <1>4, <2>1
  <2>3. ~(s[r[k]] < k)
    <3>1. s[r[k]] < k => r[s[r[k]]] < r[k]
      BY <1>1, <2>2
    <3> QED
      BY <1>2, <2>1, <2>2, <3>1
  <2>4. ~(k < s[r[k]])
    <3>1. k < s[r[k]] => r[k] < r[s[r[k]]]
      BY <1>1, <2>2
    <3> QED
      BY <1>2, <2>1, <2>2, <3>1
  <2>5. s[r[k]] = k
    <3>1. s[r[k]] \in Nat /\ k \in Nat
      BY <2>2
    <3> QED
      BY <2>3, <2>4, <3>1
  <2> QED
    BY <1>5, <2>1, <2>5
<1>7. ASSUME NEW a \in DOMAIN s, NEW b \in DOMAIN s, a < b PROVE s[a] < s[b]
  <2>1. s[a] \in S /\ s[b] \in S /\ r[s[a]] = a /\ r[s[b]] = b
    BY <1>4, <1>5
  <2>2. a \in 1 .. N /\ b \in 1 .. N /\ s[a] \in Nat /\ s[b] \in Nat
    BY <1>5, <2>1
  <2>3. ~(s[b] < s[a])
    <3>0. a \in Nat /\ b \in Nat
      BY <1>2, <2>2
    <3>1. SUFFICES ASSUME s[b] < s[a] PROVE FALSE
      OBVIOUS
    <3>2. r[s[b]] < r[s[a]]
      BY <1>1, <2>1, <3>1
    <3> QED
      BY <1>7, <2>1, <3>0, <3>2
  <2>4. s[a] # s[b]
    BY <1>2, <1>7, <2>1, <2>2
  <2> QED
    BY <2>2, <2>3, <2>4
<1> QED
  BY <1>5, <1>6, <1>7 DEF s

-----------------------------------------------------------------------------
(* Sequences.                                                              *)

\* A function on the numbers up to n is a sequence.
LEMMA SeqOfFunction ==
    ASSUME NEW S, NEW n \in Nat, NEW f \in [1 .. n -> S]
    PROVE  f \in Seq(S) /\ Len(f) = n
OBVIOUS

\* A sequence over a set is one over a greater set.
LEMMA SeqMonotone ==
    ASSUME NEW S, NEW U, S \subseteq U, NEW s \in Seq(S)
    PROVE  s \in Seq(U)
<1>1. Len(s) \in Nat /\ s \in [1 .. Len(s) -> U]
  OBVIOUS
<1> QED
  BY <1>1, SeqOfFunction

\* Only keeps elements of the sequence that are in the set.
LEMMA OnlyFacts ==
    ASSUME NEW R, NEW s \in Seq(R), NEW T
    PROVE  Only(s, T) \in Seq(R \cap T) /\ ToSet(Only(s, T)) \subseteq ToSet(s) \cap T
<1> DEFINE kept == {k \in DOMAIN s : s[k] \in T}
           places == InOrder(kept)
<1>1. kept \in SUBSET Nat /\ IsFiniteSet(kept)
  <2>1. IsFiniteSet(DOMAIN s) /\ DOMAIN s \subseteq Nat /\ kept \in SUBSET DOMAIN s
    BY UpTo
  <2> QED
    BY <2>1, FS_Subset
<1>2. places \in Seq(kept)
  <2> HIDE DEF kept
  <2> QED
    BY <1>1, InOrderFacts
<1>3. Only(s, T) = [n \in DOMAIN places |-> s[places[n]]]
  BY DEF Only
<1>4. ASSUME NEW n \in DOMAIN places
      PROVE  s[places[n]] \in R \cap T /\ s[places[n]] \in ToSet(s)
  <2>1. places[n] \in kept
    <3> HIDE DEF places, kept
    <3> QED
      BY <1>2, SeqElement
  <2>2. \A k \in kept : k \in DOMAIN s /\ s[k] \in T
    OBVIOUS
  <2> HIDE DEF places, kept
  <2>3. places[n] \in DOMAIN s /\ s[places[n]] \in T
    BY <2>1, <2>2
  <2>4. s[places[n]] \in R
    BY <2>3, SeqElement
  <2> QED
    BY <2>3, <2>4 DEF ToSet
<1>5. DOMAIN places = 1 .. Len(places) /\ Len(places) \in Nat
  <2> HIDE DEF places, kept
  <2> QED
    BY <1>2
<1> HIDE DEF places, kept
<1> QED
  BY <1>3, <1>4, <1>5 DEF ToSet

\* The places of a concatenation.
LEMMA Concatenation ==
    ASSUME NEW S, NEW a \in Seq(S), NEW b \in Seq(S)
    PROVE  /\ a \o b \in Seq(S)
           /\ Len(a \o b) = Len(a) + Len(b)
           /\ Len(a) \in Nat /\ Len(b) \in Nat
           /\ \A n \in 1 .. Len(a) + Len(b) :
                 (a \o b)[n] = IF n <= Len(a) THEN a[n] ELSE b[n - Len(a)]
OBVIOUS

\* RemoveAt takes one element out and moves those after it to the front.
LEMMA RemoveAtFacts ==
    ASSUME NEW S, NEW s \in Seq(S), NEW k \in 1 .. Len(s)
    PROVE  /\ RemoveAt(s, k) \in Seq(S)
           /\ Len(RemoveAt(s, k)) = Len(s) - 1
           /\ \A n \in 1 .. Len(s) - 1 :
                 RemoveAt(s, k)[n] = IF n < k THEN s[n] ELSE s[n + 1]
<1> DEFINE front == SubSeq(s, 1, k - 1)
           rest  == SubSeq(s, k + 1, Len(s))
<1>1. /\ front \in Seq(S)
      /\ Len(front) = k - 1
      /\ \A n \in 1 .. k - 1 : front[n] = s[n]
  OBVIOUS
<1>2. /\ rest \in Seq(S)
      /\ Len(rest) = Len(s) - k
      /\ \A n \in 1 .. Len(s) - k : rest[n] = s[n + k]
  OBVIOUS
<1>3. RemoveAt(s, k) = front \o rest
  BY DEF RemoveAt
<1>0. Len(s) \in Nat /\ k \in Nat
  OBVIOUS
<1> HIDE DEF front, rest
<1>4. front \o rest \in Seq(S) /\ Len(front \o rest) = Len(s) - 1
  <2>1. front \o rest \in Seq(S) /\ Len(front \o rest) = Len(front) + Len(rest)
    BY <1>1, <1>2, Concatenation
  <2> QED
    BY <1>0, <1>1, <1>2, <2>1
<1>5. ASSUME NEW n \in 1 .. Len(s) - 1
      PROVE  (front \o rest)[n] = IF n < k THEN s[n] ELSE s[n + 1]
  <2>0. n \in Nat /\ \A m \in 1 .. Len(front) + Len(rest) :
           (front \o rest)[m] = IF m <= Len(front) THEN front[m] ELSE rest[m - Len(front)]
    BY <1>0, <1>1, <1>2, Concatenation
  <2>3. (front \o rest)[n] = IF n <= k - 1 THEN front[n] ELSE rest[n - (k - 1)]
    BY <1>0, <1>1, <1>2, <2>0
  <2>1. CASE n < k
    <3>1. n \in 1 .. k - 1
      BY <1>0, <2>0, <2>1
    <3>2. (front \o rest)[n] = front[n]
      BY <1>0, <2>3, <3>1
    <3> QED
      BY <1>1, <2>1, <3>1, <3>2
  <2>2. CASE n >= k
    <3>1. (front \o rest)[n] = rest[n - (k - 1)]
      BY <1>0, <2>0, <2>2, <2>3
    <3>2. n - (k - 1) \in 1 .. Len(s) - k
      BY <2>2
    <3>3. rest[n - (k - 1)] = s[(n - (k - 1)) + k]
      BY <1>2, <3>2
    <3>4. (n - (k - 1)) + k = n + 1
      OBVIOUS
    <3>5. (front \o rest)[n] = s[n + 1]
      BY <3>1, <3>3, <3>4
    <3>6. ~(n < k)
      BY <1>0, <2>0, <2>2
    <3> QED
      BY <3>5, <3>6
  <2>4. n < k \/ n >= k
    BY <1>0, <2>0
  <2> QED
    BY <2>1, <2>2, <2>4
<1> QED
  BY <1>3, <1>4, <1>5

\* A sequence in increasing order has as many elements as places.
LEMMA IncreasingSize ==
    ASSUME NEW s \in Seq(Nat), \A a, b \in DOMAIN s : a < b => s[a] < s[b]
    PROVE  Cardinality(ToSet(s)) = Len(s)
<1>1. DOMAIN s = 1 .. Len(s) /\ Len(s) \in Nat
  OBVIOUS
<1>2. s \in [1 .. Len(s) -> ToSet(s)]
  BY <1>1 DEF ToSet
<1>3. ASSUME NEW a \in 1 .. Len(s), NEW b \in 1 .. Len(s), s[a] = s[b] PROVE a = b
  <2>1. a \in Nat /\ b \in Nat /\ s[a] \in Nat
    OBVIOUS
  <2>2. ~(a < b) /\ ~(b < a)
    BY <1>1, <1>3, <2>1
  <2> QED
    BY <2>1, <2>2
<1>4. s \in Injection(1 .. Len(s), ToSet(s))
  BY <1>2, <1>3 DEF Injection, IsInjective
<1>5. s \in Surjection(1 .. Len(s), ToSet(s))
  BY <1>1, <1>2 DEF Surjection, ToSet
<1>6. ExistsBijection(1 .. Len(s), ToSet(s))
  BY <1>4, <1>5 DEF ExistsBijection, Bijection
<1>7. IsFiniteSet(1 .. Len(s)) /\ Cardinality(1 .. Len(s)) = Len(s)
  BY <1>1, UpTo
<1> QED
  BY <1>6, <1>7, FS_Bijection

-----------------------------------------------------------------------------
(* The recordings.                                                         *)

\* Readings and profiles have integer times, readings integer distances.
LEMMA RecordingTypes ==
    ASSUME SlicerAssumption, RecordingsInv
    PROVE  /\ rf \in Seq([t : Int, x : Int])
           /\ profiles \in Seq([t : Int, empty : BOOLEAN])
           /\ Len(rf) \in Nat /\ DOMAIN rf = 1 .. Len(rf)
           /\ \A k \in DOMAIN rf : rf[k].t \in Int /\ rf[k].x \in Int
           /\ \A p \in DOMAIN profiles : profiles[p].t \in Int
           /\ DOMAIN profiles \in SUBSET Nat /\ IsFiniteSet(DOMAIN profiles)
<1>1. rf \in Seq([t : Int, x : Int]) /\ profiles \in Seq([t : Int, empty : BOOLEAN])
  BY DEF SlicerAssumption, RecordingsInv
<1>2. ASSUME NEW k \in DOMAIN rf PROVE rf[k].t \in Int /\ rf[k].x \in Int
  <2>1. rf[k] \in [t : Int, x : Int]
    BY <1>1, SeqElement
  <2> QED
    BY <2>1
<1>3. ASSUME NEW p \in DOMAIN profiles PROVE profiles[p].t \in Int
  <2>1. profiles[p] \in [t : Int, empty : BOOLEAN]
    BY <1>1, SeqElement
  <2> QED
    BY <2>1
<1>4. /\ Len(rf) \in Nat /\ DOMAIN rf = 1 .. Len(rf)
      /\ Len(profiles) \in Nat /\ DOMAIN profiles = 1 .. Len(profiles)
  BY <1>1
<1>5. DOMAIN profiles \in SUBSET Nat /\ IsFiniteSet(DOMAIN profiles)
  BY <1>4, UpTo
<1> QED
  BY <1>1, <1>2, <1>3, <1>4, <1>5

\* What is left of a time in whole milliseconds is a number.
LEMMA MillisecondsInt ==
    ASSUME SlicerAssumption, NEW d \in Int
    PROVE  Milliseconds(d) \in Int
<1>1. Millisecond \in Nat \ {0}
  BY DEF SlicerAssumption
<1>2. d \div Millisecond \in Int /\ -((-d) \div Millisecond) \in Int
  BY <1>1, SMT
<1> QED
  BY <1>2 DEF Milliseconds

\* The stride is a natural number, and not beyond the recording.
LEMMA StrideNat ==
    ASSUME SlicerAssumption, RecordingsInv, NEW interval \in Intervals
    PROVE  Stride(interval) \in Nat /\ Stride(interval) <= Len(rf)
<1> DEFINE later == {k \in DOMAIN rf \ {1} : Milliseconds(rf[k].t - rf[1].t) > interval}
<1>1. DOMAIN rf = 1 .. Len(rf) /\ Len(rf) \in Nat
  BY RecordingTypes
<1>2. later \in SUBSET Nat
  BY <1>1
<1>3. CASE later = {}
  BY <1>1, <1>3 DEF Stride
<1>4. CASE later # {}
  <2>1. Min(later) \in later
    BY <1>2, <1>4, MinNat
  <2>2. Min(later) \in 1 .. Len(rf)
    BY <2>1, <1>1
  <2>3. Stride(interval) = Min(later) - 1
    BY <1>4 DEF Stride
  <2> QED
    BY <1>1, <2>2, <2>3
<1> QED
  BY <1>3, <1>4

\* A reading that moves is one of the recording, and has a point.
LEMMA MovedFacts ==
    ASSUME SlicerAssumption, RecordingsInv, nIntervals \in Nat
    PROVE  /\ Moved \in SUBSET DOMAIN rf
           /\ Stood \in SUBSET Nat
           /\ Moved \in SUBSET Nat
           /\ \A k \in Moved : rf[k].x # NoPoint
           /\ \A k \in Moved : k \notin Stood
           /\ \A k \in Moved : k + nIntervals <= Len(rf)
<1>1. Len(rf) \in Nat /\ DOMAIN rf = 1 .. Len(rf)
  BY RecordingTypes
<1>2. Speeds \in SUBSET DOMAIN rf /\ Speeds \in SUBSET Nat
  BY <1>1 DEF Speeds
<1>3. ASSUME NEW k \in Moved PROVE k \notin Stood /\ k + nIntervals <= Len(rf)
  <2>1. k \in DOMAIN rf /\ k + nIntervals \in DOMAIN rf
    BY <1>1 DEF Moved, Speeds
  <2>5. /\ rf[k].t \in Int /\ rf[k].x \in Int
        /\ rf[k + nIntervals].t \in Int /\ rf[k + nIntervals].x \in Int
    BY <2>1, RecordingTypes
  <2>2. Distance(k) \in Int /\ Duration(k) \in Int
    <3>1. rf[k + nIntervals].t - rf[k].t \in Int /\ Distance(k) \in Int
      BY <2>5 DEF Distance
    <3> QED
      BY <3>1, MillisecondsInt DEF Duration
  <2>3. Abs(Distance(k)) * 200 \in Int /\ Abs(Duration(k)) \in Int
    BY <2>2 DEF Abs
  <2>4. ~(Still(k) /\ Moving(k))
    BY <2>3 DEF Still, Moving
  <2> QED
    BY <1>1, <2>1, <2>4 DEF Moved, Stood
<1>4. \A k \in Moved : rf[k].x # NoPoint
  BY DEF Moved, Measured, HasPoints
<1> QED
  BY <1>2, <1>3, <1>4 DEF Moved, Stood

\* The profiles of a segment are listed once, in order, and were taken during it.
LEMMA ProfilesDuringFacts ==
    ASSUME SlicerAssumption, RecordingsInv, NEW s
    PROVE  /\ ProfilesDuring(s) \in Seq(DOMAIN profiles)
           /\ \A p \in ToSet(ProfilesDuring(s)) :
                 StartTime(s) <= profiles[p].t /\ profiles[p].t <= EndTime(s)
           /\ \A a, b \in DOMAIN ProfilesDuring(s) :
                 a < b => ProfilesDuring(s)[a] < ProfilesDuring(s)[b]
<1> DEFINE S == {p \in DOMAIN profiles : StartTime(s) <= profiles[p].t /\ profiles[p].t <= EndTime(s)}
<1>1. S \in SUBSET Nat /\ IsFiniteSet(S) /\ S \in SUBSET DOMAIN profiles
  <2>1. DOMAIN profiles \in SUBSET Nat /\ IsFiniteSet(DOMAIN profiles)
    BY RecordingTypes
  <2> QED
    BY <2>1, FS_Subset
<1>2. \A p \in S : StartTime(s) <= profiles[p].t /\ profiles[p].t <= EndTime(s)
  OBVIOUS
<1>3. ProfilesDuring(s) = InOrder(S)
  BY DEF ProfilesDuring
<1> HIDE DEF S
<1>4. /\ InOrder(S) \in Seq(S)
      /\ \A a, b \in DOMAIN InOrder(S) : a < b => InOrder(S)[a] < InOrder(S)[b]
  BY <1>1, InOrderFacts
<1>5. InOrder(S) \in Seq(DOMAIN profiles)
  BY <1>1, <1>4, SeqMonotone
<1>6. ToSet(InOrder(S)) \in SUBSET S
  <2>1. \A n \in DOMAIN InOrder(S) : InOrder(S)[n] \in S
    BY <1>4, SeqElement
  <2> QED
    BY <2>1 DEF ToSet
<1> QED
  BY <1>2, <1>3, <1>4, <1>5, <1>6

\* The window around a place far enough from the ends of a segment lies in the segment.
LEMMA WindowFacts ==
    ASSUME SlicerAssumption, RecordingsInv, NEW s \in Seq(DOMAIN rf),
           NEW k \in WindowingSize + 1 .. Len(s) - WindowingSize
    PROVE  /\ Window(s, k) \in Windows
           /\ DOMAIN Window(s, k) = 1 .. 2 * WindowingSize
           /\ Len(Window(s, k)) = 2 * WindowingSize
           /\ WindowingSize + 1 \in DOMAIN Window(s, k)
           /\ \A l \in DOMAIN Window(s, k) :
                 /\ WindowStart(k) + l - 1 \in DOMAIN s
                 /\ Window(s, k)[l] = rf[s[WindowStart(k) + l - 1]]
           /\ Window(s, k)[WindowingSize + 1] = rf[s[k]]
           /\ k \in DOMAIN s /\ WindowStart(k) \in DOMAIN s /\ WindowStart(k) \in Nat
<1>1. WindowingSize \in Nat \ {0} /\ Len(s) \in Nat /\ DOMAIN s = 1 .. Len(s)
  BY DEF SlicerAssumption
<1>2. ASSUME NEW l \in 1 .. 2 * WindowingSize
      PROVE  /\ WindowStart(k) + l - 1 \in DOMAIN s
             /\ rf[s[WindowStart(k) + l - 1]] \in [t : Int, x : Int]
  <2>1. WindowStart(k) + l - 1 \in DOMAIN s
    BY <1>1 DEF WindowStart
  <2>2. s[WindowStart(k) + l - 1] \in DOMAIN rf
    BY <2>1, SeqElement
  <2> QED
    BY <2>1, <2>2, RecordingTypes, SeqElement
<1>3. Window(s, k) = [l \in 1 .. 2 * WindowingSize |-> rf[s[WindowStart(k) + l - 1]]]
  BY DEF Window, WindowPlace
<1>4. Window(s, k) \in Windows
  <2>1. Window(s, k) \in [1 .. 2 * WindowingSize -> [t : Int, x : Int]]
    BY <1>2, <1>3
  <2>2. 2 * WindowingSize \in Nat
    BY <1>1
  <2> HIDE DEF Windows
  <2>3. Window(s, k) \in Seq([t : Int, x : Int])
    BY <2>1, <2>2, SeqOfFunction
  <2> QED
    BY <2>3 DEF Windows
<1>5. DOMAIN Window(s, k) = 1 .. 2 * WindowingSize /\ Len(Window(s, k)) = 2 * WindowingSize
  <2>1. DOMAIN Window(s, k) = 1 .. 2 * WindowingSize
    BY <1>3
  <2>2. 2 * WindowingSize \in Nat
    BY <1>1
  <2>3. Window(s, k) \in Seq([t : Int, x : Int])
    BY <1>4 DEF Windows
  <2> QED
    BY <2>1, <2>2, <2>3
<1>6. WindowingSize + 1 \in 1 .. 2 * WindowingSize
  BY <1>1
<1>7. k \in DOMAIN s /\ WindowStart(k) \in DOMAIN s /\ WindowStart(k) \in Nat
  BY <1>1 DEF WindowStart
<1>8. Window(s, k)[WindowingSize + 1] = rf[s[k]]
  <2>1. WindowStart(k) + (WindowingSize + 1) - 1 = k
    BY <1>1 DEF WindowStart
  <2> QED
    BY <1>3, <1>6, <2>1
<1> QED
  BY <1>2, <1>3, <1>4, <1>5, <1>6, <1>7, <1>8

\* A profile that finds a reading gets an integer numerator and denominator.
LEMMA CorrectedFacts ==
    ASSUME SlicerAssumption, RecordingsInv, NEW s \in Seq(DOMAIN rf), NEW p \in Placed(s)
    PROVE  /\ ReadingFor(s, p) \in WindowingSize + 1 .. Len(s) - WindowingSize
           /\ rf[s[ReadingFor(s, p)]].t >= profiles[p].t
           /\ \A k \in WindowingSize + 1 .. Len(s) - WindowingSize :
                 rf[s[k]].t >= profiles[p].t => ReadingFor(s, p) <= k
           /\ LineAt(s, ReadingFor(s, p)) \in [slope : Int, intercept : Int, den : Int]
           /\ Corrected(s, p) \in [profile : DOMAIN profiles, place : Nat, x : Int, den : Int]
           /\ Corrected(s, p).profile = p
           /\ Corrected(s, p).place = ReadingFor(s, p)
<1> DEFINE k == ReadingFor(s, p)
           S == NotBefore(s, p)
           line == LineAt(s, k)
<1>1. S \in SUBSET Nat /\ S # {} /\ p \in DOMAIN profiles
  <2>1. WindowingSize \in Nat /\ Len(s) \in Nat
    BY DEF SlicerAssumption
  <2> QED
    BY <2>1 DEF NotBefore, Placed
<1>2. k \in S /\ \A n \in S : k <= n
  BY <1>1, MinNat DEF ReadingFor
<1>3. /\ k \in WindowingSize + 1 .. Len(s) - WindowingSize
      /\ rf[s[k]].t >= profiles[p].t
  BY <1>2 DEF NotBefore
<1>4. \A n \in WindowingSize + 1 .. Len(s) - WindowingSize :
         rf[s[n]].t >= profiles[p].t => k <= n
  BY <1>2 DEF NotBefore
<1> HIDE DEF k, S
<1>5. line \in [slope : Int, intercept : Int, den : Int]
  BY <1>3, WindowFacts, LineType DEF LineAt, ReferenceIndex
<1>6. rf[s[k]].t \in Int /\ profiles[p].t \in Int
  <2>1. s[k] \in DOMAIN rf
    BY <1>3, WindowFacts, SeqElement
  <2> QED
    BY <1>1, <2>1, RecordingTypes
<1> HIDE DEF line
<1>7. line.slope \in Int /\ line.intercept \in Int /\ line.den \in Int
  BY <1>5
<1>8. At(line, rf[s[k]].t - profiles[p].t) \in Int
  BY <1>6, <1>7 DEF At
<1>9. 10 * line.den \in Int
  BY <1>7
<1>10. Corrected(s, p) = [profile |-> p, place |-> k,
                          x |-> At(line, rf[s[k]].t - profiles[p].t), den |-> 10 * line.den]
  BY DEF Corrected, k, line
<1>11. k \in Nat
  BY <1>1, <1>2
<1> QED
  BY <1>1, <1>3, <1>4, <1>5, <1>8, <1>9, <1>10, <1>11 DEF k, line

-----------------------------------------------------------------------------
(* Every step keeps the types.                                             *)

\* A step of the model is one of its actions, or none.
LEMMA StepIsAction ==
    ASSUME [Next]_vars
    PROVE  \/ \E interval \in Intervals : Slice(interval)
           \/ PassOver \/ BecomeIdle \/ Move \/ EndClassify
           \/ EraseShort \/ KeepLong \/ EndErase
           \/ AssignProfiles \/ EndSlice
           \/ ComputeRegularizedProfiles \/ RegularizeSegment \/ EndCompute
           \/ UNCHANGED vars
BY DEF Next, SliceStep, ComputeStep, Terminating

\* The recordings are never written.
LEMMA RecordingsFixed ==
    ASSUME [Next]_vars
    PROVE  UNCHANGED recordings
<1> USE DEF recordings, NextReading
<1>1. ASSUME NEW interval \in Intervals, Slice(interval) PROVE UNCHANGED recordings
  BY <1>1 DEF Slice
<1>2. CASE PassOver \/ BecomeIdle \/ Move \/ EndClassify
  BY <1>2 DEF PassOver, BecomeIdle, Move, EndClassify
<1>3. CASE EraseShort \/ KeepLong \/ EndErase \/ AssignProfiles \/ EndSlice
  BY <1>3 DEF EraseShort, KeepLong, EndErase, AssignProfiles, EndSlice
<1>4. CASE ComputeRegularizedProfiles \/ RegularizeSegment \/ EndCompute
  BY <1>4 DEF ComputeRegularizedProfiles, RegularizeSegment, EndCompute
<1>5. CASE UNCHANGED vars
  BY <1>5 DEF vars
<1> QED
  BY <1>1, <1>2, <1>3, <1>4, <1>5, StepIsAction

\* Only Slice and the classification change the segments while they are built; the
\* classification has the reading it adds.
LEMMA MoveTypes ==
    ASSUME SlicerAssumption, RecordingsInv, TypeOK, Move
    PROVE  segs' \in Seq(Seq(DOMAIN rf))
<1>1. i \in DOMAIN rf
  <2>1. i \in Moved
    BY DEF Move, Classifying, Moved, Speeds, TypeOK
  <2> QED
    BY <2>1, MovedFacts DEF TypeOK
<1>2. segs \in Seq(Seq(DOMAIN rf))
  BY DEF TypeOK
<1>3. CASE segs = <<>>
  BY <1>1, <1>3 DEF Move
<1>4. CASE segs # <<>>
  <2>1. Len(segs) \in DOMAIN segs
    BY <1>2, <1>4
  <2>2. segs[Len(segs)] \in Seq(DOMAIN rf)
    BY <1>2, <2>1, SeqElement
  <2>3. Append(segs[Len(segs)], i) \in Seq(DOMAIN rf)
    BY <1>1, <2>2
  <2>4. segs' = [segs EXCEPT ![Len(segs)] = Append(segs[Len(segs)], i)]
    BY <1>4 DEF Move
  <2> QED
    BY <1>2, <2>1, <2>3, <2>4
<1> QED
  BY <1>3, <1>4

\* A segment gets profiles after those it has.
LEMMA AssignTypes ==
    ASSUME SlicerAssumption, RecordingsInv, TypeOK, AssignProfiles
    PROVE  /\ profileSegments' \in Seq(Seq(DOMAIN profiles))
           /\ DOMAIN profileSegments' = 1 .. Len(segs)
           /\ \A n \in 1 .. Len(segs) :
                 profileSegments'[n] =
                    IF n = i THEN Resized(profileSegments, Len(segs))[n] \o ProfilesDuring(segs[n])
                             ELSE Resized(profileSegments, Len(segs))[n]
<1> DEFINE P == DOMAIN profiles
           old == Resized(profileSegments, Len(segs))
           new == ProfilesDuring(segs[i])
<1>1. Len(segs) \in Nat /\ i \in 1 .. Len(segs) /\ profileSegments \in Seq(Seq(P))
  BY DEF TypeOK, AssignProfiles
<1>2. ASSUME NEW n \in 1 .. Len(segs) PROVE old[n] \in Seq(P)
  <2>1. CASE n <= Len(profileSegments)
    <3>1. n \in DOMAIN profileSegments
      BY <1>1, <2>1
    <3>2. profileSegments[n] \in Seq(P)
      BY <1>1, <3>1, SeqElement
    <3> QED
      BY <2>1, <3>2 DEF Resized
  <2>2. CASE ~(n <= Len(profileSegments))
    BY <2>2 DEF Resized
  <2> QED
    BY <2>1, <2>2
<1>3. new \in Seq(P)
  BY ProfilesDuringFacts
<1>4. DOMAIN old = 1 .. Len(segs)
  BY DEF Resized
<1>5. profileSegments' = [old EXCEPT ![i] = old[i] \o new]
  BY DEF AssignProfiles
<1>6. old = [n \in 1 .. Len(segs) |-> old[n]]
  BY DEF Resized
<1> HIDE DEF old, new, P
<1>7. old[i] \o new \in Seq(P)
  BY <1>1, <1>2, <1>3, Concatenation
<1>8. profileSegments' \in [1 .. Len(segs) -> Seq(P)]
  BY <1>1, <1>2, <1>4, <1>5, <1>6, <1>7
<1>9. \A n \in 1 .. Len(segs) : profileSegments'[n] = IF n = i THEN old[n] \o new ELSE old[n]
  BY <1>1, <1>4, <1>5
<1>10. profileSegments' \in Seq(Seq(P)) /\ DOMAIN profileSegments' = 1 .. Len(segs)
  BY <1>1, <1>8, SeqOfFunction
<1> QED
  BY <1>9, <1>10 DEF old, new, P

\* The entries of a segment are corrected profiles of that segment.
LEMMA RegularizeFacts ==
    ASSUME SlicerAssumption, RecordingsInv, TypeOK, RegularizeSegment, AssignmentInv
    PROVE  /\ regularized' \in Seq(Seq([profile : DOMAIN profiles, place : Nat, x : Int, den : Int]))
           /\ correctionDistances' \in Seq([x : Int, den : Int])
           /\ Len(regularized') = Len(regularized) + 1
           /\ \A n \in DOMAIN regularized : regularized'[n] = regularized[n]
           /\ \A j \in DOMAIN regularized'[Len(regularized) + 1] :
                 \E p \in ToSet(profileSegments[i]) \cap Placed(rfSegments[i]) :
                    regularized'[Len(regularized) + 1][j] = Corrected(rfSegments[i], p)
<1> DEFINE Entry == [profile : DOMAIN profiles, place : Nat, x : Int, den : Int]
           s       == rfSegments[i]
           mine    == profileSegments[i]
           all     == Front(mine)
           moved   == [p \in Placed(s) |-> Corrected(s, p)]
           listed  == Only(all, Placed(s) \cap WithPoints)
           counted == Only(all, Placed(s))
           entries == [j \in DOMAIN listed |-> moved[listed[j]]]
           offsets == [j \in DOMAIN counted |->
                         [x |-> moved[counted[j]].x, den |-> moved[counted[j]].den]]
<1>1. /\ regularized' = Append(regularized, entries)
      /\ correctionDistances' = correctionDistances \o offsets
  BY DEF RegularizeSegment
<1>0. i \in DOMAIN rfSegments /\ i \in DOMAIN profileSegments
  <2>1. i \in Nat \ {0} /\ i <= Len(rfSegments) /\ rfSegments \in Seq(Seq(DOMAIN rf))
    BY DEF RegularizeSegment, TypeOK
  <2>2. DOMAIN rfSegments \subseteq DOMAIN profileSegments
    BY DEF RegularizeSegment, AssignmentInv
  <2>3. i \in DOMAIN rfSegments
    BY <2>1
  <2> QED
    BY <2>2, <2>3
<1>2. s \in Seq(DOMAIN rf)
  <2>1. rfSegments \in Seq(Seq(DOMAIN rf))
    BY DEF TypeOK
  <2> QED
    BY <1>0, <2>1, SeqElement
<1>3. mine \in Seq(DOMAIN profiles)
  <2>1. profileSegments \in Seq(Seq(DOMAIN profiles))
    BY DEF TypeOK
  <2> QED
    BY <1>0, <2>1, SeqElement
<1>4. all \in Seq(DOMAIN profiles) /\ ToSet(all) \subseteq ToSet(mine)
  <2>1. all = SubSeq(mine, 1, Len(mine) - 1)
    BY DEF Front
  <2> HIDE DEF mine, all
  <2>2. all \in Seq(DOMAIN profiles) /\ \A n \in DOMAIN all : n \in DOMAIN mine /\ all[n] = mine[n]
    BY <1>3, <2>1
  <2> QED
    BY <2>2 DEF ToSet
<1>5. \A p \in Placed(s) : moved[p] \in Entry /\ moved[p] = Corrected(s, p)
  BY <1>2, CorrectedFacts
<1> HIDE DEF Entry, s, mine, all, moved
<1>6. /\ listed \in Seq(DOMAIN profiles \cap (Placed(s) \cap WithPoints))
      /\ ToSet(listed) \subseteq ToSet(all) \cap (Placed(s) \cap WithPoints)
      /\ counted \in Seq(DOMAIN profiles \cap Placed(s))
  BY <1>4, OnlyFacts
<1> HIDE DEF listed, counted
<1>7. Len(listed) \in Nat /\ DOMAIN listed = 1 .. Len(listed)
  BY <1>6
<1>8. Len(counted) \in Nat /\ DOMAIN counted = 1 .. Len(counted)
  BY <1>6
<1>9. ASSUME NEW j \in DOMAIN listed
      PROVE  /\ listed[j] \in ToSet(mine) \cap Placed(s)
             /\ entries[j] \in Entry
             /\ entries[j] = Corrected(s, listed[j])
  <2>1. listed[j] \in ToSet(mine) \cap Placed(s)
    BY <1>4, <1>6 DEF ToSet
  <2> QED
    BY <1>5, <2>1
<1>10. entries \in Seq(Entry)
  BY <1>7, <1>9, SeqOfFunction
<1>11. ASSUME NEW j \in DOMAIN counted PROVE offsets[j] \in [x : Int, den : Int]
  <2>1. counted[j] \in Placed(s)
    <3>1. counted[j] \in DOMAIN profiles \cap Placed(s)
      BY <1>6, SeqElement
    <3> QED
      BY <3>1
  <2>2. moved[counted[j]] \in Entry
    BY <1>5, <2>1
  <2>3. moved[counted[j]].x \in Int /\ moved[counted[j]].den \in Int
    BY <2>2 DEF Entry
  <2> QED
    BY <2>3
<1>12. offsets \in Seq([x : Int, den : Int])
  BY <1>8, <1>11, SeqOfFunction
<1>13. DOMAIN entries = DOMAIN listed
  OBVIOUS
<1> HIDE DEF entries, offsets
<1>14. correctionDistances' \in Seq([x : Int, den : Int])
  <2>1. correctionDistances \in Seq([x : Int, den : Int])
    BY DEF TypeOK
  <2> QED
    BY <1>1, <1>12, <2>1, Concatenation
<1>15. regularized \in Seq(Seq(Entry))
  BY DEF TypeOK, Entry
<1>16. /\ regularized' \in Seq(Seq(Entry))
       /\ Len(regularized') = Len(regularized) + 1
       /\ \A n \in DOMAIN regularized : regularized'[n] = regularized[n]
       /\ regularized'[Len(regularized) + 1] = entries
  BY <1>1, <1>10, <1>15
<1> QED
  BY <1>9, <1>13, <1>14, <1>16 DEF Entry, s, mine

\* Every step keeps the types.
LEMMA TypesStep ==
    ASSUME SlicerAssumption, RecordingsInv, TypeOK, AssignmentInv, [Next]_vars
    PROVE  TypeOK'
<1>0. rf' = rf /\ profiles' = profiles
  BY RecordingsFixed DEF recordings
<1> USE DEF TypeOK
<1>1. ASSUME NEW interval \in Intervals, Slice(interval) PROVE TypeOK'
  <2>1. nIntervals' \in Nat
    BY <1>1, StrideNat DEF Slice
  <2>2. slices' \in 0 .. MaxSlices
    BY <1>1 DEF Slice, SlicerAssumption
  <2>3. isIdle' \in BOOLEAN
    BY <1>1 DEF Slice
  <2>4. /\ pc' = "classify" /\ i' = 1 /\ segs' = <<>>
        /\ UNCHANGED <<members, output, computes>>
    BY <1>1 DEF Slice
  <2> QED
    BY <1>0, <2>1, <2>2, <2>3, <2>4 DEF members, output
<1>2. CASE PassOver
  <2>1. /\ UNCHANGED <<pc, nIntervals, isIdle, segs, members, output, calls>>
        /\ i' = i + 1
    BY <1>2 DEF PassOver, NextReading
  <2> QED
    BY <1>0, <2>1 DEF members, output, calls
<1>3. CASE BecomeIdle
  <2>1. segs' \in Seq(Seq(DOMAIN rf))
    <3>1. <<>> \in Seq(DOMAIN rf)
      OBVIOUS
    <3> QED
      BY <1>3, <3>1 DEF BecomeIdle
  <2> QED
    BY <1>0, <1>3, <2>1 DEF BecomeIdle, NextReading, members, output, calls
<1>4. CASE Move
  <2>1. segs' \in Seq(Seq(DOMAIN rf))
    BY <1>4, MoveTypes
  <2>2. /\ UNCHANGED <<pc, nIntervals, members, output, calls>>
        /\ i' = i + 1
    BY <1>4 DEF Move, NextReading
  <2>3. isIdle' \in BOOLEAN
    BY <1>4 DEF Move
  <2> QED
    BY <1>0, <2>1, <2>2, <2>3 DEF members, output, calls
<1>5. CASE EndClassify
  BY <1>0, <1>5 DEF EndClassify, locals, members, output, calls
<1>6. CASE EraseShort
  <2>1. segs' \in Seq(Seq(DOMAIN rf))
    <3>1. i \in 1 .. Len(segs) /\ segs' = RemoveAt(segs, i) /\ segs \in Seq(Seq(DOMAIN rf))
      BY <1>6 DEF EraseShort
    <3> QED
      BY <3>1, RemoveAtFacts
  <2> QED
    BY <1>0, <1>6, <2>1 DEF EraseShort, members, output, calls
<1>7. CASE KeepLong
  BY <1>0, <1>7 DEF KeepLong, locals, members, output, calls
<1>8. CASE EndErase
  <2>1. numberOfSegments' \in 0 .. 255
    <3>1. Len(segs) \in Nat
      OBVIOUS
    <3>2. \A n \in Nat : n % 256 \in 0 .. 255
      BY ONLY TRUE
    <3> QED
      BY <1>8, <3>1, <3>2 DEF EndErase
  <2> QED
    BY <1>0, <1>8, <2>1 DEF EndErase, locals, output, calls
<1>9. CASE AssignProfiles
  <2>1. profileSegments' \in Seq(Seq(DOMAIN profiles))
    BY <1>9, AssignTypes
  <2> QED
    BY <1>0, <1>9, <2>1 DEF AssignProfiles, locals, output, calls
<1>10. CASE EndSlice
  BY <1>0, <1>10 DEF EndSlice, locals, members, output, calls
<1>11. CASE ComputeRegularizedProfiles
  <2>1. computes' \in 0 .. MaxComputes
    BY <1>11 DEF ComputeRegularizedProfiles, SlicerAssumption
  <2> QED
    BY <1>0, <1>11, <2>1 DEF ComputeRegularizedProfiles, locals, members
<1>12. CASE RegularizeSegment
  <2>1. /\ regularized' \in Seq(Seq([profile : DOMAIN profiles, place : Nat, x : Int, den : Int]))
        /\ correctionDistances' \in Seq([x : Int, den : Int])
    BY <1>12, RegularizeFacts
  <2>2. /\ pc' = pc /\ i' = i + 1
        /\ UNCHANGED <<locals, members, calls>>
    BY <1>12 DEF RegularizeSegment
  <2> QED
    BY <1>0, <2>1, <2>2 DEF locals, members, calls
<1>13. CASE EndCompute
  BY <1>0, <1>13 DEF EndCompute, locals, members, output, calls
<1>14. CASE UNCHANGED vars
  BY <1>14 DEF vars, recordings, locals, members, output, calls
<1> QED
  BY <1>1, <1>2, <1>3, <1>4, <1>5, <1>6, <1>7, <1>8, <1>9, <1>10, <1>11, <1>12, <1>13, <1>14,
     StepIsAction

-----------------------------------------------------------------------------
(* The classification.                                                     *)

\* What is said of the recording stays true while the stride stays the same.
LEMMA RecordingFrame ==
    ASSUME UNCHANGED <<rf, nIntervals>>
    PROVE  /\ Moved' = Moved /\ Stood' = Stood
           /\ \A k, m : Apart(k, m)' <=> Apart(k, m)
           /\ \A k : PassOf(k)' = PassOf(k)
<1>1. Moved' = Moved /\ Stood' = Stood
  BY DEF Moved, Stood, Speeds, Measured, Moving, Still, HasPoints, Distance, Duration
<1>2. ASSUME NEW k, NEW m PROVE Apart(k, m)' <=> Apart(k, m)
  BY <1>1 DEF Apart
<1> QED
  BY <1>1, <1>2 DEF PassOf

\* The segments ss, with or without a standstill since, are the passes before reading j.
Classified(ss, idle, j) ==
    /\ j + nIntervals <= Len(rf) + 1
    /\ Ordered(ss)
    /\ \A k \in Moved : k < j => \E n \in DOMAIN ss : k \in ToSet(ss[n])
    /\ \A n \in DOMAIN ss : \A k \in ToSet(ss[n]) :
          k \in Moved /\ ToSet(ss[n]) = {m \in PassOf(k) : m < j}
    /\ ss = <<>> => ~idle
    /\ ss # <<>> => (idle <=> ss[Len(ss)] = <<>>)
    /\ idle => \A k \in Moved : k < j => \E h \in Stood : k < h /\ h < j
    /\ ss # <<>> => \A k \in ToSet(ss[Len(ss)]) : ~ \E h \in Stood : k < h /\ h < j

\* Which is the invariant of the classification.
LEMMA ClassifyInvIs == ClassifyInv <=> (pc = "classify" => Classified(segs, isIdle, i))
BY DEF ClassifyInv, Classified

\* And stays what it is while the recording and the stride do.
LEMMA ClassifyInvNext ==
    ASSUME UNCHANGED <<rf, nIntervals>>
    PROVE  ClassifyInv' <=> (pc' = "classify" => Classified(segs', isIdle', i'))
<1>1. Ordered(segs)' <=> Ordered(segs')
  BY DEF Ordered
<1> QED
  BY <1>1, RecordingFrame DEF ClassifyInv, Classified

\* A reading passed over changes nothing.
LEMMA PassOverClassified ==
    ASSUME SlicerAssumption, RecordingsInv, TypeOK, Classified(segs, isIdle, i), PassOver
    PROVE  Classified(segs, isIdle, i + 1)
<1>1. Moved \in SUBSET Nat /\ Stood \in SUBSET Nat /\ i \in Nat
  BY MovedFacts DEF TypeOK
<1>2. i \in Speeds
  BY DEF PassOver, Classifying, Speeds, TypeOK
<1>3. i \notin Moved
  <2>1. ASSUME i \in Moved PROVE FALSE
    <3>1. i \notin Stood
      BY <2>1, MovedFacts DEF TypeOK
    <3>2. Measured(i) /\ Moving(i) /\ ~Still(i)
      BY <1>2, <2>1, <3>1 DEF Moved, Stood
    <3> QED
      BY <3>2 DEF PassOver
  <2> QED
    BY <2>1
<1>4. i \in Stood => segs = <<>> \/ isIdle
  BY DEF PassOver, Stood
<1>5. \A k \in Moved : k < i + 1 <=> k < i
  BY <1>1, <1>3
<1>6. \A k : {m \in PassOf(k) : m < i + 1} = {m \in PassOf(k) : m < i}
  BY <1>5 DEF PassOf
<1>7. i + 1 + nIntervals <= Len(rf) + 1
  <2>1. Len(rf) \in Nat
    BY RecordingTypes
  <2> QED
    BY <2>1 DEF PassOver, Classifying, TypeOK
<1>8. isIdle => \A k \in Moved : k < i + 1 => \E h \in Stood : k < h /\ h < i + 1
  <2>1. SUFFICES ASSUME isIdle, NEW k \in Moved, k < i + 1
                 PROVE  \E h \in Stood : k < h /\ h < i + 1
    OBVIOUS
  <2>2. PICK h \in Stood : k < h /\ h < i
    BY <1>5, <2>1 DEF Classified
  <2> QED
    BY <1>1, <2>2
<1>9. segs # <<>> =>
         \A k \in ToSet(segs[Len(segs)]) : ~ \E h \in Stood : k < h /\ h < i + 1
  <2>1. SUFFICES ASSUME segs # <<>>, NEW k \in ToSet(segs[Len(segs)]),
                        NEW h \in Stood, k < h, h < i + 1
                 PROVE  FALSE
    OBVIOUS
  <2>2. h = i
    BY <1>1, <2>1 DEF Classified
  <2>3. isIdle /\ segs[Len(segs)] = <<>>
    BY <1>4, <2>1, <2>2 DEF Classified
  <2> QED
    BY <2>1, <2>3 DEF ToSet
<1> QED
  BY <1>5, <1>6, <1>7, <1>8, <1>9 DEF Classified

\* The standstill separates what has moved before from what moves after it.
LEMMA BecomeIdleClassified ==
    ASSUME SlicerAssumption, RecordingsInv, TypeOK, Classified(segs, isIdle, i), BecomeIdle
    PROVE  Classified(segs', TRUE, i + 1)
<1>1. Moved \in SUBSET Nat /\ Stood \in SUBSET Nat /\ i \in Nat
  BY MovedFacts DEF TypeOK
<1>2. i \in Stood /\ i \notin Moved
  <2>1. i \in Stood
    BY DEF BecomeIdle, Classifying, Stood, Speeds, TypeOK
  <2> QED
    BY <2>1, MovedFacts DEF TypeOK
<1>3. \A k \in Moved : k < i + 1 <=> k < i
  BY <1>1, <1>2
<1>4. \A k : {m \in PassOf(k) : m < i + 1} = {m \in PassOf(k) : m < i}
  BY <1>3 DEF PassOf
<1>5. /\ Len(segs') = Len(segs) + 1 /\ Len(segs) \in Nat
      /\ DOMAIN segs = 1 .. Len(segs) /\ DOMAIN segs' = 1 .. Len(segs) + 1
      /\ \A n \in DOMAIN segs : segs'[n] = segs[n]
      /\ segs'[Len(segs) + 1] = <<>>
      /\ segs' # <<>>
  <2>1. segs \in Seq(Seq(DOMAIN rf)) /\ segs' = Append(segs, <<>>)
    BY DEF TypeOK, BecomeIdle
  <2>2. <<>> \in Seq(DOMAIN rf)
    OBVIOUS
  <2>3. segs' \in Seq(Seq(DOMAIN rf))
    BY <2>1, <2>2
  <2> QED
    BY <2>1, <2>3
<1>6. \A n \in DOMAIN segs' : n \in DOMAIN segs \/ segs'[n] = <<>>
  BY <1>5
<1>7. ToSet(<<>>) = {} /\ DOMAIN <<>> = {}
  BY DEF ToSet
<1>8. i + 1 + nIntervals <= Len(rf) + 1
  <2>1. Len(rf) \in Nat
    BY RecordingTypes
  <2> QED
    BY <2>1 DEF BecomeIdle, Classifying, TypeOK
<1>9. Ordered(segs')
  <2>1. SUFFICES ASSUME NEW m \in DOMAIN segs', NEW n \in DOMAIN segs',
                        NEW a \in DOMAIN segs'[m], NEW b \in DOMAIN segs'[n],
                        m < n \/ (m = n /\ a < b)
                 PROVE  segs'[m][a] < segs'[n][b]
    BY DEF Ordered
  <2>2. m \in DOMAIN segs /\ n \in DOMAIN segs
    BY <1>6, <1>7, <2>1
  <2> QED
    BY <1>5, <2>1, <2>2 DEF Classified, Ordered
<1>10. \A k \in Moved : k < i + 1 => \E n \in DOMAIN segs' : k \in ToSet(segs'[n])
  <2>1. SUFFICES ASSUME NEW k \in Moved, k < i + 1
                 PROVE  \E n \in DOMAIN segs' : k \in ToSet(segs'[n])
    OBVIOUS
  <2>2. PICK n \in DOMAIN segs : k \in ToSet(segs[n])
    BY <1>3, <2>1 DEF Classified
  <2> QED
    BY <1>5, <2>2
<1>11. \A n \in DOMAIN segs' : \A k \in ToSet(segs'[n]) :
          k \in Moved /\ ToSet(segs'[n]) = {m \in PassOf(k) : m < i + 1}
  <2>1. SUFFICES ASSUME NEW n \in DOMAIN segs', NEW k \in ToSet(segs'[n])
                 PROVE  k \in Moved /\ ToSet(segs'[n]) = {m \in PassOf(k) : m < i + 1}
    OBVIOUS
  <2>2. n \in DOMAIN segs /\ segs'[n] = segs[n]
    BY <1>5, <1>6, <1>7
  <2> QED
    BY <1>4, <2>2 DEF Classified
<1>12. \A k \in Moved : k < i + 1 => \E h \in Stood : k < h /\ h < i + 1
  BY <1>1, <1>2, <1>3
<1>13. segs'[Len(segs')] = <<>>
  BY <1>5
<1> QED
  BY <1>5, <1>7, <1>8, <1>9, <1>10, <1>11, <1>12, <1>13 DEF Classified

\* An appended element comes last.
LEMMA Appended ==
    ASSUME NEW S, NEW s \in Seq(S), NEW e \in S
    PROVE  /\ Append(s, e) \in Seq(S) /\ Append(s, e) # <<>>
           /\ Len(s) \in Nat /\ DOMAIN s = 1 .. Len(s)
           /\ DOMAIN Append(s, e) = 1 .. Len(s) + 1
           /\ \A n \in DOMAIN s : Append(s, e)[n] = s[n]
           /\ Append(s, e)[Len(s) + 1] = e
           /\ ToSet(Append(s, e)) = ToSet(s) \cup {e}
<1>1. /\ Append(s, e) \in Seq(S) /\ Append(s, e) # <<>>
      /\ Len(s) \in Nat /\ DOMAIN s = 1 .. Len(s)
      /\ DOMAIN Append(s, e) = 1 .. Len(s) + 1
      /\ \A n \in DOMAIN s : Append(s, e)[n] = s[n]
      /\ Append(s, e)[Len(s) + 1] = e
  OBVIOUS
<1>2. ToSet(Append(s, e)) \subseteq ToSet(s) \cup {e}
  <2>1. SUFFICES ASSUME NEW n \in 1 .. Len(s) + 1
                 PROVE  Append(s, e)[n] \in ToSet(s) \cup {e}
    BY <1>1 DEF ToSet
  <2>2. n \in DOMAIN s \/ n = Len(s) + 1
    BY <1>1
  <2> QED
    BY <1>1, <2>2 DEF ToSet
<1>3. ToSet(s) \cup {e} \subseteq ToSet(Append(s, e))
  <2>1. Len(s) + 1 \in DOMAIN Append(s, e) /\ DOMAIN s \subseteq DOMAIN Append(s, e)
    BY <1>1
  <2> QED
    BY <1>1, <2>1 DEF ToSet
<1> QED
  BY <1>1, <1>2, <1>3

\* The first reading that moves begins the first segment.
LEMMA FirstMoveClassified ==
    ASSUME SlicerAssumption, RecordingsInv, TypeOK, Classified(segs, isIdle, i), Move,
           segs = <<>>
    PROVE  Classified(segs', FALSE, i + 1)
<1>1. Moved \in SUBSET Nat /\ Stood \in SUBSET Nat /\ i \in Nat
  BY MovedFacts DEF TypeOK
<1>2. i \in Moved
  BY DEF Move, Classifying, Moved, Speeds, TypeOK
<1>3. \A k \in Moved : k < i + 1 => k = i
  <2>1. SUFFICES ASSUME NEW k \in Moved, k < i + 1, k # i PROVE FALSE
    OBVIOUS
  <2>2. k < i
    BY <1>1, <2>1
  <2> QED
    BY <2>1, <2>2 DEF Classified
<1>4. /\ segs' = << <<i>> >> /\ DOMAIN segs' = {1} /\ Len(segs') = 1
      /\ segs'[1] = <<i>> /\ DOMAIN <<i>> = {1} /\ <<i>>[1] = i
      /\ segs' # <<>> /\ <<i>> # <<>>
  BY DEF Move
<1>5. ToSet(segs'[1]) = {i}
  BY <1>4 DEF ToSet
<1>6. i + 1 + nIntervals <= Len(rf) + 1
  <2>1. Len(rf) \in Nat
    BY RecordingTypes
  <2> QED
    BY <2>1 DEF Move, Classifying, TypeOK
<1>7. Ordered(segs')
  <2>1. SUFFICES ASSUME NEW m \in DOMAIN segs', NEW n \in DOMAIN segs',
                        NEW a \in DOMAIN segs'[m], NEW b \in DOMAIN segs'[n],
                        m < n \/ (m = n /\ a < b)
                 PROVE  FALSE
    BY DEF Ordered
  <2>2. m = 1 /\ n = 1 /\ a = 1 /\ b = 1
    BY <1>4
  <2> QED
    BY <2>1, <2>2
<1>8. \A k \in Moved : k < i + 1 => \E n \in DOMAIN segs' : k \in ToSet(segs'[n])
  BY <1>3, <1>4, <1>5
<1>9. {m \in PassOf(i) : m < i + 1} = {i}
  <2>1. ~Apart(i, i)
    BY <1>1 DEF Apart
  <2>2. i \in PassOf(i) /\ PassOf(i) \subseteq Moved
    BY <1>2, <2>1 DEF PassOf
  <2>3. i < i + 1
    BY <1>1
  <2> QED
    BY <1>3, <2>2, <2>3
<1>10. \A n \in DOMAIN segs' : \A k \in ToSet(segs'[n]) :
          k \in Moved /\ ToSet(segs'[n]) = {m \in PassOf(k) : m < i + 1}
  BY <1>2, <1>4, <1>5, <1>9
<1>11. \A k \in ToSet(segs'[Len(segs')]) : ~ \E h \in Stood : k < h /\ h < i + 1
  BY <1>1, <1>4, <1>5
<1>12. segs'[Len(segs')] # <<>>
  BY <1>4
<1> QED
  BY <1>4, <1>6, <1>7, <1>8, <1>10, <1>11, <1>12 DEF Classified

\* A reading that moves belongs to the pass of the current segment, and to no other.
LEMMA NextMoveClassified ==
    ASSUME SlicerAssumption, RecordingsInv, TypeOK, Classified(segs, isIdle, i), Move,
           segs # <<>>
    PROVE  Classified(segs', FALSE, i + 1)
<1> DEFINE L == Len(segs)
           last == segs[L]
<1>1. Moved \in SUBSET Nat /\ Stood \in SUBSET Nat /\ i \in Nat
  BY MovedFacts DEF TypeOK
<1>2. i \in Moved /\ i \notin Stood /\ i \in DOMAIN rf
  <2>1. i \in Moved
    BY DEF Move, Classifying, Moved, Speeds, TypeOK
  <2> QED
    BY <2>1, MovedFacts DEF TypeOK
<1>3. segs \in Seq(Seq(DOMAIN rf)) /\ L \in Nat /\ L \in DOMAIN segs /\ DOMAIN segs = 1 .. L
  BY DEF TypeOK
<1>4. last \in Seq(DOMAIN rf)
  BY <1>3, SeqElement
<1>5. segs' = [segs EXCEPT ![L] = Append(last, i)]
  BY DEF Move
<1> HIDE DEF L, last
<1>6. /\ DOMAIN segs' = DOMAIN segs /\ Len(segs') = L /\ segs' # <<>>
      /\ \A n \in DOMAIN segs : n # L => segs'[n] = segs[n]
      /\ segs'[L] = Append(last, i)
  <2>1. Append(last, i) \in Seq(DOMAIN rf)
    BY <1>2, <1>4, Appended
  <2>2. segs' \in Seq(Seq(DOMAIN rf)) /\ DOMAIN segs' = DOMAIN segs
    BY <1>3, <1>5, <2>1
  <2>3. Len(segs') = L
    BY <1>3, <2>2
  <2> QED
    BY <1>3, <1>5, <2>2, <2>3
<1>7. /\ Len(last) \in Nat /\ DOMAIN last = 1 .. Len(last)
      /\ DOMAIN Append(last, i) = 1 .. Len(last) + 1
      /\ \A n \in DOMAIN last : Append(last, i)[n] = last[n]
      /\ Append(last, i)[Len(last) + 1] = i
      /\ ToSet(Append(last, i)) = ToSet(last) \cup {i}
      /\ Append(last, i) # <<>>
  BY <1>2, <1>4, Appended
\* Every reading in a segment is before this one.
<1>8. \A n \in DOMAIN segs : \A k \in ToSet(segs[n]) :
         k \in Moved /\ k < i /\ k \in Nat /\ ToSet(segs[n]) = {m \in PassOf(k) : m < i}
  BY <1>1 DEF Classified
<1>9. \A n \in DOMAIN segs : \A a \in DOMAIN segs[n] : segs[n][a] \in ToSet(segs[n])
  BY DEF ToSet
\* Those of the current segment have no standstill since, those of the others have.
<1>10. \A k \in ToSet(last) : ~Apart(k, i)
  <2>1. SUFFICES ASSUME NEW k \in ToSet(last), Apart(k, i) PROVE FALSE
    OBVIOUS
  <2>2. k < i /\ k \in Nat
    BY <1>3, <1>8 DEF last
  <2>3. PICK h \in Stood : (k < h /\ h < i) \/ (i < h /\ h < k)
    BY <2>1 DEF Apart
  <2>4. k < h /\ h < i
    BY <1>1, <2>2, <2>3
  <2> QED
    BY <2>4 DEF Classified, last, L
<1>11. \A n \in DOMAIN segs : n # L => \A k \in ToSet(segs[n]) : Apart(k, i)
  <2>1. SUFFICES ASSUME NEW n \in DOMAIN segs, n # L, NEW k \in ToSet(segs[n])
                 PROVE  Apart(k, i)
    OBVIOUS
  <2>2. k \in Moved /\ k < i
    BY <1>8
  <2>3. CASE last = <<>>
    <3>1. isIdle
      BY <2>3 DEF Classified, last, L
    <3>2. PICK h \in Stood : k < h /\ h < i
      BY <2>2, <3>1 DEF Classified
    <3> QED
      BY <3>2 DEF Apart
  <2>4. CASE last # <<>>
    <3>1. 1 \in DOMAIN last
      BY <1>7, <1>4, <2>4
    <3> DEFINE m == last[1]
    <3>2. m \in ToSet(last) /\ m \in Moved /\ m < i /\ m \in Nat
      BY <1>3, <1>8, <3>1 DEF last, ToSet
    <3>3. PICK a \in DOMAIN segs[n] : segs[n][a] = k
      BY DEF ToSet
    <3>4. n < L
      BY <1>3, <2>1
    <3>5. k < m
      BY <1>3, <3>1, <3>3, <3>4 DEF Classified, Ordered, last
    <3> HIDE DEF m
    <3>6. m \notin ToSet(segs[n])
      <4>1. SUFFICES ASSUME NEW b \in DOMAIN segs[n], segs[n][b] = m PROVE FALSE
        BY DEF ToSet
      <4>2. segs[n][b] < m
        BY <1>3, <3>1, <3>4 DEF Classified, Ordered, last, m
      <4> QED
        BY <3>2, <4>1, <4>2
    <3>7. Apart(k, m)
      BY <1>8, <3>2, <3>6 DEF PassOf
    <3>8. PICK h \in Stood : (k < h /\ h < m) \/ (m < h /\ h < k)
      BY <3>7 DEF Apart
    <3>9. k < h /\ h < i
      BY <1>1, <1>8, <2>2, <3>2, <3>5, <3>8
    <3> QED
      BY <3>9 DEF Apart
  <2> QED
    BY <2>3, <2>4
<1>12. i + 1 + nIntervals <= Len(rf) + 1
  <2>1. Len(rf) \in Nat
    BY RecordingTypes
  <2> QED
    BY <2>1 DEF Move, Classifying, TypeOK
<1>13. Ordered(segs')
  <2>1. SUFFICES ASSUME NEW m \in DOMAIN segs', NEW n \in DOMAIN segs',
                        NEW a \in DOMAIN segs'[m], NEW b \in DOMAIN segs'[n],
                        m < n \/ (m = n /\ a < b)
                 PROVE  segs'[m][a] < segs'[n][b]
    BY DEF Ordered
  <2>2. \A e \in DOMAIN segs' : \A c \in DOMAIN segs'[e] :
           \/ e \in DOMAIN segs /\ c \in DOMAIN segs[e] /\ segs'[e][c] = segs[e][c]
           \/ e = L /\ c = Len(last) + 1 /\ segs'[e][c] = i
    <3>1. SUFFICES ASSUME NEW e \in DOMAIN segs', NEW c \in DOMAIN segs'[e], e = L
                   PROVE  \/ c \in DOMAIN segs[e] /\ segs'[e][c] = segs[e][c]
                          \/ c = Len(last) + 1 /\ segs'[e][c] = i
      BY <1>6
    <3>2. c \in DOMAIN last \/ c = Len(last) + 1
      BY <1>6, <1>7, <3>1
    <3> QED
      BY <1>6, <1>7, <3>1, <3>2 DEF last
  <2>3. m <= n /\ n <= L
    BY <1>3, <1>6, <2>1
  <2>4. CASE /\ m \in DOMAIN segs /\ a \in DOMAIN segs[m] /\ segs'[m][a] = segs[m][a]
             /\ n \in DOMAIN segs /\ b \in DOMAIN segs[n] /\ segs'[n][b] = segs[n][b]
    BY <2>1, <2>4 DEF Classified, Ordered
  <2>5. CASE /\ m \in DOMAIN segs /\ a \in DOMAIN segs[m] /\ segs'[m][a] = segs[m][a]
             /\ segs'[n][b] = i
    BY <1>8, <1>9, <2>5
  <2>6. CASE /\ m = L /\ a = Len(last) + 1
             /\ n \in DOMAIN segs /\ b \in DOMAIN segs[n]
    <3>1. n = L
      BY <1>3, <2>3, <2>6
    <3>2. b \in 1 .. Len(last) /\ a < b
      BY <1>7, <2>1, <2>6, <3>1 DEF last
    <3> QED
      BY <1>7, <2>6, <3>2
  <2>7. CASE m = L /\ a = Len(last) + 1 /\ n = L /\ b = Len(last) + 1
    BY <1>3, <1>7, <2>1, <2>7
  <2> QED
    BY <2>1, <2>2, <2>4, <2>5, <2>6, <2>7
<1>14. \A k \in Moved : k < i + 1 => \E n \in DOMAIN segs' : k \in ToSet(segs'[n])
  <2>1. SUFFICES ASSUME NEW k \in Moved, k < i + 1
                 PROVE  \E n \in DOMAIN segs' : k \in ToSet(segs'[n])
    OBVIOUS
  <2>2. CASE k = i
    BY <1>3, <1>6, <1>7, <2>2
  <2>3. CASE k # i
    <3>1. k < i
      BY <1>1, <2>1, <2>3
    <3>2. PICK n \in DOMAIN segs : k \in ToSet(segs[n])
      BY <3>1 DEF Classified
    <3> QED
      BY <1>6, <1>7, <3>2 DEF last
  <2> QED
    BY <2>2, <2>3
<1>15. \A k : {m \in PassOf(k) : m < i + 1} = {m \in PassOf(k) : m < i} \cup ({i} \cap PassOf(k))
  <2>1. SUFFICES ASSUME NEW k, NEW m \in PassOf(k) PROVE m < i + 1 <=> m < i \/ m = i
    OBVIOUS
  <2>2. m \in Nat
    BY <1>1 DEF PassOf
  <2> QED
    BY <1>1, <2>2
<1>16. \A k \in Moved : i \in PassOf(k) <=> ~Apart(k, i)
  BY <1>2 DEF PassOf
<1>17. \A n \in DOMAIN segs' : \A k \in ToSet(segs'[n]) :
          k \in Moved /\ ToSet(segs'[n]) = {m \in PassOf(k) : m < i + 1}
  <2>1. SUFFICES ASSUME NEW n \in DOMAIN segs', NEW k \in ToSet(segs'[n])
                 PROVE  k \in Moved /\ ToSet(segs'[n]) = {m \in PassOf(k) : m < i + 1}
    OBVIOUS
  <2>2. CASE n # L
    <3>1. n \in DOMAIN segs /\ segs'[n] = segs[n]
      BY <1>6, <2>2
    <3>2. k \in Moved /\ ToSet(segs[n]) = {m \in PassOf(k) : m < i} /\ Apart(k, i)
      BY <1>8, <1>11, <2>2, <3>1
    <3> QED
      BY <1>15, <1>16, <3>1, <3>2
  <2>3. CASE n = L /\ k \in ToSet(last)
    <3>1. k \in Moved /\ ToSet(last) = {m \in PassOf(k) : m < i} /\ ~Apart(k, i)
      BY <1>3, <1>8, <1>10, <2>3 DEF last
    <3> QED
      BY <1>6, <1>7, <1>15, <1>16, <2>3, <3>1
  <2>4. CASE n = L /\ k = i
    <3>1. \A m \in Moved : m < i => (m \in ToSet(last) <=> ~Apart(m, i))
      <4>1. SUFFICES ASSUME NEW m \in Moved, m < i, ~Apart(m, i) PROVE m \in ToSet(last)
        BY <1>10
      <4>2. PICK e \in DOMAIN segs : m \in ToSet(segs[e])
        BY <4>1 DEF Classified
      <4>3. e = L
        BY <1>11, <4>1, <4>2
      <4> QED
        BY <4>2, <4>3 DEF last
    <3>2. \A m : Apart(m, i) <=> Apart(i, m)
      BY DEF Apart
    <3>3. {m \in PassOf(i) : m < i} = ToSet(last)
      <4>1. \A m \in ToSet(last) : m \in Moved /\ m < i
        BY <1>3, <1>8 DEF last
      <4> QED
        BY <3>1, <3>2, <4>1 DEF PassOf
    <3>4. ~Apart(i, i)
      BY <1>1 DEF Apart
    <3>5. i \in PassOf(i)
      BY <1>2, <3>4 DEF PassOf
    <3>6. {m \in PassOf(i) : m < i + 1} = ToSet(last) \cup {i}
      BY <1>15, <3>3, <3>5
    <3>7. ToSet(segs'[n]) = ToSet(last) \cup {i}
      BY <1>6, <1>7, <2>4
    <3> QED
      BY <1>2, <2>4, <3>6, <3>7
  <2>5. n # L \/ (n = L /\ k \in ToSet(last)) \/ (n = L /\ k = i)
    <3>1. n = L => k \in ToSet(last) \cup {i}
      BY <1>6, <1>7
    <3> QED
      BY <3>1
  <2> QED
    BY <2>2, <2>3, <2>4, <2>5
<1>18. \A k \in ToSet(segs'[L]) : ~ \E h \in Stood : k < h /\ h < i + 1
  <2>1. SUFFICES ASSUME NEW k \in ToSet(segs'[L]), NEW h \in Stood, k < h, h < i + 1
                 PROVE  FALSE
    OBVIOUS
  <2>2. h < i
    BY <1>1, <1>2, <2>1
  <2>3. k \in ToSet(last)
    BY <1>1, <1>6, <1>7, <2>1, <2>2
  <2> QED
    BY <2>1, <2>2, <2>3 DEF Classified, last, L
<1> QED
  BY <1>6, <1>7, <1>12, <1>13, <1>14, <1>17, <1>18 DEF Classified

\* Every step keeps the invariant of the classification.
LEMMA ClassifyStep ==
    ASSUME SlicerAssumption, RecordingsInv, TypeOK, ClassifyInv, [Next]_vars
    PROVE  ClassifyInv'
<1>0. rf' = rf
  BY RecordingsFixed DEF recordings
<1>1. ASSUME NEW interval \in Intervals, Slice(interval) PROVE ClassifyInv'
  <2>1. /\ nIntervals' \in Nat /\ nIntervals' <= Len(rf) /\ Len(rf) \in Nat
        /\ segs' = <<>> /\ i' = 1 /\ isIdle' = FALSE
    BY <1>1, StrideNat, RecordingTypes DEF Slice
  <2>2. \A k \in Moved' : ~(k < i')
    BY <1>0, <2>1 DEF Moved, Speeds
  <2>3. DOMAIN <<>> = {}
    OBVIOUS
  <2>4. Ordered(segs)'
    BY <2>1, <2>3 DEF Ordered
  <2>5. i' + nIntervals' <= Len(rf') + 1
    BY <1>0, <2>1
  <2> QED
    BY <2>1, <2>2, <2>3, <2>4, <2>5 DEF ClassifyInv
<1>2. CASE PassOver
  <2>1. pc = "classify" /\ UNCHANGED <<rf, nIntervals>> /\ segs' = segs /\ isIdle' = isIdle /\ i' = i + 1
    BY <1>0, <1>2 DEF PassOver, Classifying, NextReading
  <2>2. Classified(segs, isIdle, i + 1)
    BY <1>2, <2>1, ClassifyInvIs, PassOverClassified
  <2> QED
    BY <2>1, <2>2, ClassifyInvNext
<1>3. CASE BecomeIdle
  <2>1. pc = "classify" /\ UNCHANGED <<rf, nIntervals>> /\ isIdle' = TRUE /\ i' = i + 1
    BY <1>0, <1>3 DEF BecomeIdle, Classifying, NextReading
  <2>2. Classified(segs', TRUE, i + 1)
    BY <1>3, <2>1, ClassifyInvIs, BecomeIdleClassified
  <2> QED
    BY <2>1, <2>2, ClassifyInvNext
<1>4. CASE Move
  <2>1. pc = "classify" /\ UNCHANGED <<rf, nIntervals>> /\ isIdle' = FALSE /\ i' = i + 1
    BY <1>0, <1>4 DEF Move, Classifying, NextReading
  <2>2. Classified(segs', FALSE, i + 1)
    BY <1>4, <2>1, ClassifyInvIs, FirstMoveClassified, NextMoveClassified
  <2> QED
    BY <2>1, <2>2, ClassifyInvNext
<1>5. CASE EndClassify \/ EraseShort \/ KeepLong \/ EndErase \/ AssignProfiles \/ EndSlice
  <2>1. pc' # "classify"
    BY <1>5 DEF EndClassify, EraseShort, KeepLong, EndErase, AssignProfiles, EndSlice
  <2> QED
    BY <2>1 DEF ClassifyInv
<1>6. CASE ComputeRegularizedProfiles \/ RegularizeSegment \/ EndCompute
  <2>1. pc' # "classify"
    BY <1>6 DEF ComputeRegularizedProfiles, RegularizeSegment, EndCompute
  <2> QED
    BY <2>1 DEF ClassifyInv
<1>7. CASE UNCHANGED vars
  <2>1. UNCHANGED <<rf, nIntervals, pc, segs, isIdle, i>>
    BY <1>7 DEF vars, recordings, locals
  <2> QED
    BY <2>1, ClassifyInvIs, ClassifyInvNext
<1> QED
  BY <1>1, <1>2, <1>3, <1>4, <1>5, <1>6, <1>7, StepIsAction

-----------------------------------------------------------------------------
(* The erasure.                                                            *)

\* The segments ss are passes, and no pass that is long enough is missing.
HoldsPasses(ss) ==
    /\ nIntervals <= Len(rf)
    /\ Ordered(ss)
    /\ \A n \in DOMAIN ss : \A k \in ToSet(ss[n]) : k \in Moved /\ ToSet(ss[n]) = PassOf(k)
    /\ \A k \in Moved :
          \/ \E n \in DOMAIN ss : k \in ToSet(ss[n])
          \/ Cardinality(PassOf(k)) < MinSegment

\* Which stays what it is while the recording and the stride do.
LEMMA PassesInvNext ==
    ASSUME UNCHANGED <<rf, nIntervals>>
    PROVE  PassesInv' <=> (pc' # "classify" /\ slices' > 0 => HoldsPasses(segs'))
<1>1. Ordered(segs)' <=> Ordered(segs')
  BY DEF Ordered
<1> QED
  BY <1>1, RecordingFrame DEF PassesInv, HoldsPasses

\* When all readings are classified, the segments are all the passes.
LEMMA ClassifiedIsPasses ==
    ASSUME SlicerAssumption, RecordingsInv, TypeOK, Classified(segs, isIdle, i), EndClassify
    PROVE  HoldsPasses(segs)
<1>1. Len(rf) \in Nat /\ i \in Nat \ {0} /\ nIntervals \in Nat
  BY RecordingTypes DEF TypeOK
<1>2. nIntervals <= Len(rf)
  BY <1>1 DEF Classified
<1>3. \A k \in Moved : k < i
  BY <1>1 DEF EndClassify, Moved, Speeds
<1>4. \A k : {m \in PassOf(k) : m < i} = PassOf(k)
  BY <1>3 DEF PassOf
<1> QED
  BY <1>2, <1>3, <1>4 DEF Classified, HoldsPasses

\* The readings of a segment are as many as its places.
LEMMA SegmentSize ==
    ASSUME SlicerAssumption, RecordingsInv, NEW ss \in Seq(Seq(DOMAIN rf)), Ordered(ss),
           NEW n \in DOMAIN ss
    PROVE  Cardinality(ToSet(ss[n])) = Len(ss[n]) /\ Len(ss[n]) \in Nat
<1>1. ss[n] \in Seq(DOMAIN rf)
  BY SeqElement
<1>2. DOMAIN rf \subseteq Nat
  BY RecordingTypes
<1>3. ss[n] \in Seq(Nat) /\ Len(ss[n]) \in Nat
  BY <1>1, <1>2, SeqMonotone
<1>4. n \in Nat
  OBVIOUS
<1>5. \A a, b \in DOMAIN ss[n] : a < b => ss[n][a] < ss[n][b]
  BY DEF Ordered
<1> QED
  BY <1>3, <1>5, IncreasingSize

\* Erasing a short segment leaves the other ones as they are, in their order.
LEMMA ErasedHoldsPasses ==
    ASSUME SlicerAssumption, RecordingsInv, TypeOK, HoldsPasses(segs), EraseShort
    PROVE  HoldsPasses(segs')
<1> DEFINE from(n) == IF n < i THEN n ELSE n + 1
<1>1. /\ segs \in Seq(Seq(DOMAIN rf)) /\ Len(segs) \in Nat /\ DOMAIN segs = 1 .. Len(segs)
      /\ i \in 1 .. Len(segs) /\ i \in Nat
      /\ segs' = RemoveAt(segs, i) /\ Len(segs[i]) < MinSegment
  BY DEF TypeOK, EraseShort
<1>2. /\ segs' \in Seq(Seq(DOMAIN rf)) /\ Len(segs') = Len(segs) - 1
      /\ \A n \in 1 .. Len(segs) - 1 : segs'[n] = IF n < i THEN segs[n] ELSE segs[n + 1]
  BY <1>1, RemoveAtFacts
<1>3. DOMAIN segs' = 1 .. Len(segs) - 1
  BY <1>1, <1>2
<1>4. ASSUME NEW n \in DOMAIN segs'
      PROVE  from(n) \in DOMAIN segs /\ from(n) # i /\ segs'[n] = segs[from(n)]
  <2>1. n \in 1 .. Len(segs) - 1 /\ n \in Nat
    BY <1>3
  <2>2. CASE n < i
    <3>1. from(n) = n /\ segs'[n] = segs[n]
      BY <1>2, <2>1, <2>2
    <3>2. n \in DOMAIN segs /\ n # i
      BY <1>1, <2>1, <2>2
    <3> QED
      BY <3>1, <3>2
  <2>3. CASE ~(n < i)
    <3>1. from(n) = n + 1 /\ segs'[n] = segs[n + 1]
      BY <1>2, <2>1, <2>3
    <3>2. n + 1 \in DOMAIN segs /\ n + 1 # i
      BY <1>1, <2>1, <2>3
    <3> QED
      BY <3>1, <3>2
  <2> QED
    BY <2>2, <2>3
<1>5. ASSUME NEW m \in DOMAIN segs', NEW n \in DOMAIN segs'
      PROVE  (m < n => from(m) < from(n)) /\ (m = n => from(m) = from(n))
  <2>1. m \in Nat /\ n \in Nat
    BY <1>3
  <2> QED
    BY <1>1, <2>1
<1>6. ASSUME NEW e \in DOMAIN segs, e # i PROVE \E n \in DOMAIN segs' : segs'[n] = segs[e]
  <2>0. e \in Nat
    BY <1>1
  <2>1. CASE e < i
    <3>1. e \in DOMAIN segs'
      BY <1>1, <1>3, <2>1, <2>0
    <3> QED
      BY <1>4, <2>1, <3>1
  <2>2. CASE ~(e < i)
    <3>1. e - 1 \in DOMAIN segs' /\ ~(e - 1 < i) /\ (e - 1) + 1 = e
      BY <1>1, <1>3, <1>6, <2>0, <2>2
    <3> QED
      BY <1>4, <3>1
  <2> QED
    BY <2>1, <2>2
<1> HIDE DEF from
<1>7. Ordered(segs')
  <2>1. SUFFICES ASSUME NEW m \in DOMAIN segs', NEW n \in DOMAIN segs',
                        NEW a \in DOMAIN segs'[m], NEW b \in DOMAIN segs'[n],
                        m < n \/ (m = n /\ a < b)
                 PROVE  segs'[m][a] < segs'[n][b]
    BY DEF Ordered
  <2>2. /\ segs'[m] = segs[from(m)] /\ from(m) \in DOMAIN segs
        /\ segs'[n] = segs[from(n)] /\ from(n) \in DOMAIN segs
    BY <1>4
  <2>3. from(m) < from(n) \/ (from(m) = from(n) /\ a < b)
    BY <1>5, <2>1
  <2> QED
    BY <2>2, <2>3 DEF HoldsPasses, Ordered
<1>8. \A n \in DOMAIN segs' : \A k \in ToSet(segs'[n]) : k \in Moved /\ ToSet(segs'[n]) = PassOf(k)
  BY <1>4 DEF HoldsPasses
<1>9. ASSUME NEW k \in Moved
      PROVE  \/ \E n \in DOMAIN segs' : k \in ToSet(segs'[n])
             \/ Cardinality(PassOf(k)) < MinSegment
  <2>1. CASE \E n \in DOMAIN segs : k \in ToSet(segs[n])
    <3>1. PICK n \in DOMAIN segs : k \in ToSet(segs[n])
      BY <2>1
    <3>2. CASE n = i
      <4>1. ToSet(segs[i]) = PassOf(k)
        BY <3>1, <3>2 DEF HoldsPasses
      <4>2. Cardinality(ToSet(segs[i])) = Len(segs[i])
        BY <1>1, SegmentSize DEF HoldsPasses
      <4> QED
        BY <1>1, <4>1, <4>2
    <3>3. CASE n # i
      BY <1>6, <3>1, <3>3
    <3> QED
      BY <3>2, <3>3
  <2>2. CASE Cardinality(PassOf(k)) < MinSegment
    BY <2>2
  <2> QED
    BY <2>1, <2>2 DEF HoldsPasses
<1> QED
  BY <1>7, <1>8, <1>9 DEF HoldsPasses

\* Every step keeps the passes that are long enough.
LEMMA PassesStep ==
    ASSUME SlicerAssumption, RecordingsInv, TypeOK, CallsInv, ClassifyInv, PassesInv, [Next]_vars
    PROVE  PassesInv'
<1>0. rf' = rf
  BY RecordingsFixed DEF recordings
<1>1. PassesInv <=> (pc # "classify" /\ slices > 0 => HoldsPasses(segs))
  BY DEF PassesInv, HoldsPasses
<1>2. ASSUME NEW interval \in Intervals, Slice(interval) PROVE PassesInv'
  BY <1>2 DEF Slice, PassesInv
<1>3. CASE PassOver \/ BecomeIdle \/ Move
  BY <1>3 DEF PassOver, BecomeIdle, Move, Classifying, NextReading, PassesInv
<1>4. CASE EndClassify
  <2>1. pc = "classify" /\ UNCHANGED <<rf, nIntervals, segs>>
    BY <1>0, <1>4 DEF EndClassify, locals
  <2>2. HoldsPasses(segs)
    BY <1>4, <2>1, ClassifyInvIs, ClassifiedIsPasses
  <2> QED
    BY <2>1, <2>2, PassesInvNext
<1>5. CASE EraseShort
  <2>1. /\ pc = "erase" /\ pc' = pc /\ UNCHANGED <<rf, nIntervals>>
        /\ slices > 0
    BY <1>0, <1>5 DEF EraseShort, CallsInv
  <2>2. HoldsPasses(segs')
    BY <1>1, <1>5, <2>1, ErasedHoldsPasses
  <2> QED
    BY <2>1, <2>2, PassesInvNext
<1>6. CASE KeepLong \/ EndErase \/ AssignProfiles \/ EndSlice
  <2>1. UNCHANGED <<rf, nIntervals, segs, slices>> /\ pc # "classify"
    BY <1>0, <1>6 DEF KeepLong, EndErase, AssignProfiles, EndSlice, locals, calls
  <2> QED
    BY <1>1, <2>1, PassesInvNext
<1>7. CASE ComputeRegularizedProfiles \/ RegularizeSegment \/ EndCompute
  <2>1. UNCHANGED <<rf, nIntervals, segs, slices>> /\ pc # "classify"
    BY <1>0, <1>7 DEF ComputeRegularizedProfiles, RegularizeSegment, EndCompute, locals, calls
  <2> QED
    BY <1>1, <2>1, PassesInvNext
<1>8. CASE UNCHANGED vars
  <2>1. UNCHANGED <<rf, nIntervals, segs, slices, pc>>
    BY <1>8 DEF vars, recordings, locals, calls
  <2> QED
    BY <1>1, <2>1, PassesInvNext
<1> QED
  BY <1>2, <1>3, <1>4, <1>5, <1>6, <1>7, <1>8, StepIsAction

\* A loop of Slice is entered from Slice only.
LEMMA CallsStep ==
    ASSUME TypeOK, CallsInv, [Next]_vars
    PROVE  CallsInv'
<1> USE DEF CallsInv, TypeOK
<1>1. ASSUME NEW interval \in Intervals, Slice(interval) PROVE CallsInv'
  BY <1>1 DEF Slice
<1>2. CASE PassOver \/ BecomeIdle \/ Move \/ EndClassify
  BY <1>2 DEF PassOver, BecomeIdle, Move, EndClassify, Classifying, NextReading, calls
<1>3. CASE EraseShort \/ KeepLong \/ EndErase \/ AssignProfiles \/ EndSlice
  BY <1>3 DEF EraseShort, KeepLong, EndErase, AssignProfiles, EndSlice, calls
<1>4. CASE ComputeRegularizedProfiles \/ RegularizeSegment \/ EndCompute
  BY <1>4 DEF ComputeRegularizedProfiles, RegularizeSegment, EndCompute, calls
<1>5. CASE UNCHANGED vars
  BY <1>5 DEF vars, calls
<1> QED
  BY <1>1, <1>2, <1>3, <1>4, <1>5, StepIsAction

\* The erasure passes long segments only.
LEMMA ErasureStep ==
    ASSUME SlicerAssumption, RecordingsInv, TypeOK, ErasureInv, [Next]_vars
    PROVE  ErasureInv'
<1>0. i \in Nat \ {0} /\ segs \in Seq(Seq(DOMAIN rf)) /\ Len(segs) \in Nat /\ DOMAIN segs = 1 .. Len(segs)
  BY DEF TypeOK
<1>1. ASSUME NEW interval \in Intervals, Slice(interval) PROVE ErasureInv'
  BY <1>1 DEF Slice, ErasureInv
<1>2. CASE PassOver \/ BecomeIdle \/ Move
  BY <1>2 DEF PassOver, BecomeIdle, Move, Classifying, NextReading, ErasureInv
<1>3. CASE EndClassify
  BY <1>0, <1>3 DEF EndClassify, ErasureInv, locals
<1>4. CASE EraseShort
  <2>1. /\ i \in 1 .. Len(segs) /\ segs' = RemoveAt(segs, i) /\ i' = i /\ pc = "erase"
        /\ \A n \in DOMAIN segs : n < i => Len(segs[n]) >= MinSegment
    BY <1>0, <1>4 DEF EraseShort, ErasureInv
  <2>2. /\ segs' \in Seq(Seq(DOMAIN rf))
        /\ Len(segs') = Len(segs) - 1
        /\ \A n \in 1 .. Len(segs) - 1 : n < i => segs'[n] = segs[n]
    BY <1>0, <2>1, RemoveAtFacts
  <2>3. DOMAIN segs' = 1 .. Len(segs) - 1
    BY <1>0, <2>2
  <2>4. ASSUME NEW n \in DOMAIN segs', n < i' PROVE Len(segs'[n]) >= MinSegment
    <3>1. n \in DOMAIN segs /\ segs'[n] = segs[n] /\ n < i
      BY <1>0, <2>1, <2>2, <2>3, <2>4
    <3> QED
      BY <2>1, <3>1
  <2>5. i' <= Len(segs') + 1
    BY <1>0, <2>1, <2>2
  <2> QED
    BY <2>4, <2>5 DEF ErasureInv
<1>5. CASE KeepLong
  <2>1. pc = "erase" /\ i' = i + 1 /\ segs' = segs /\ i <= Len(segs) /\ Len(segs[i]) >= MinSegment
    BY <1>5 DEF KeepLong, locals
  <2>2. \A n \in DOMAIN segs : n < i + 1 => n < i \/ n = i
    BY <1>0
  <2> QED
    BY <1>0, <2>1, <2>2 DEF ErasureInv
<1>6. CASE EndErase \/ AssignProfiles \/ EndSlice
  BY <1>6 DEF EndErase, AssignProfiles, EndSlice, ErasureInv
<1>7. CASE ComputeRegularizedProfiles \/ RegularizeSegment \/ EndCompute
  BY <1>7 DEF ComputeRegularizedProfiles, RegularizeSegment, EndCompute, ErasureInv
<1>8. CASE UNCHANGED vars
  BY <1>8 DEF vars, locals, ErasureInv
<1> QED
  BY <1>1, <1>2, <1>3, <1>4, <1>5, <1>6, <1>7, <1>8, StepIsAction

-----------------------------------------------------------------------------
(* The members.                                                            *)

\* The first segment that gets profiles makes room for all of them.
LEMMA AssignmentStep ==
    ASSUME SlicerAssumption, RecordingsInv, TypeOK, AssignmentInv, [Next]_vars
    PROVE  AssignmentInv'
<1> USE DEF AssignmentInv
<1>1. ASSUME NEW interval \in Intervals, Slice(interval) PROVE AssignmentInv'
  BY <1>1 DEF Slice, members
<1>2. CASE PassOver \/ BecomeIdle \/ Move \/ EndClassify
  BY <1>2 DEF PassOver, BecomeIdle, Move, EndClassify, Classifying, NextReading, members, locals
<1>3. CASE EraseShort \/ KeepLong
  BY <1>3 DEF EraseShort, KeepLong, locals, members
<1>4. CASE EndErase
  BY <1>4 DEF EndErase, locals
<1>5. CASE AssignProfiles
  <2>1. DOMAIN profileSegments' = 1 .. Len(segs) /\ DOMAIN segs = 1 .. Len(segs)
    BY <1>5, AssignTypes DEF TypeOK
  <2> QED
    BY <1>5, <2>1 DEF AssignProfiles, locals
<1>6. CASE EndSlice
  <2>1. i = 1 => DOMAIN rfSegments = {}
    <3>1. Len(segs) \in Nat /\ DOMAIN segs = 1 .. Len(segs)
      BY DEF TypeOK
    <3> QED
      BY <1>6, <3>1 DEF EndSlice
  <2>2. DOMAIN rfSegments \subseteq DOMAIN profileSegments
    BY <1>6, <2>1 DEF EndSlice
  <2> QED
    BY <1>6, <2>2 DEF EndSlice, locals, members
<1>7. CASE ComputeRegularizedProfiles \/ RegularizeSegment \/ EndCompute
  BY <1>7 DEF ComputeRegularizedProfiles, RegularizeSegment, EndCompute, locals, members
<1>8. CASE UNCHANGED vars
  BY <1>8 DEF vars, locals, members
<1> QED
  BY <1>1, <1>2, <1>3, <1>4, <1>5, <1>6, <1>7, <1>8, StepIsAction

\* The members are written by EndErase and AssignProfiles only.
LEMMA MembersFixed ==
    ASSUME [Next]_vars, ~EndErase, ~AssignProfiles
    PROVE  UNCHANGED members
<1>1. ASSUME NEW interval \in Intervals, Slice(interval) PROVE UNCHANGED members
  BY <1>1 DEF Slice
<1>2. CASE PassOver \/ BecomeIdle \/ Move \/ EndClassify
  BY <1>2 DEF PassOver, BecomeIdle, Move, EndClassify, NextReading
<1>3. CASE EraseShort \/ KeepLong \/ EndSlice
  BY <1>3 DEF EraseShort, KeepLong, EndSlice
<1>4. CASE ComputeRegularizedProfiles \/ RegularizeSegment \/ EndCompute
  BY <1>4 DEF ComputeRegularizedProfiles, RegularizeSegment, EndCompute
<1>5. CASE UNCHANGED vars
  BY <1>5 DEF vars
<1> QED
  BY <1>1, <1>2, <1>3, <1>4, <1>5, StepIsAction

\* What the erasure leaves is long, and made of readings that have a point.
LEMMA MembersStep ==
    ASSUME SlicerAssumption, RecordingsInv, TypeOK, CallsInv, PassesInv, ErasureInv,
           NoShortSegment, PointsInv, [Next]_vars
    PROVE  NoShortSegment' /\ PointsInv'
<1>0. rf' = rf
  BY RecordingsFixed DEF recordings
<1>1. CASE EndErase
  <2>1. pc = "erase" /\ i > Len(segs) /\ rfSegments' = segs /\ slices > 0
    BY <1>1 DEF EndErase, CallsInv
  <2>2. \A n \in DOMAIN segs : n < i
    BY <2>1 DEF TypeOK
  <2>3. NoShortSegment'
    BY <2>1, <2>2 DEF ErasureInv, NoShortSegment
  <2>4. \A n \in DOMAIN segs : \A k \in ToSet(segs[n]) : rf[k].x # NoPoint
    BY <2>1, MovedFacts DEF PassesInv, TypeOK
  <2>5. PointsInv'
    BY <1>0, <2>1, <2>4 DEF PointsInv
  <2> QED
    BY <2>3, <2>5
<1>2. CASE ~EndErase
  <2>1. rfSegments' = rfSegments
    BY <1>2, MembersFixed DEF members, AssignProfiles
  <2> QED
    BY <1>0, <2>1 DEF NoShortSegment, PointsInv
<1> QED
  BY <1>1, <1>2

\* What is computed from the recordings stays the same.
LEMMA ComputedFrame ==
    ASSUME UNCHANGED recordings
    PROVE  /\ \A s : ProfilesDuring(s)' = ProfilesDuring(s)
           /\ \A s, p : NotBefore(s, p)' = NotBefore(s, p)
           /\ \A s, p : Corrected(s, p)' = Corrected(s, p)
<1>0. rf' = rf /\ profiles' = profiles
  BY DEF recordings
<1>1. ASSUME NEW s PROVE ProfilesDuring(s)' = ProfilesDuring(s)
  BY <1>0 DEF ProfilesDuring, StartTime, EndTime
<1>2. ASSUME NEW s, NEW p PROVE NotBefore(s, p)' = NotBefore(s, p)
  BY <1>0 DEF NotBefore
<1>3. ASSUME NEW s, NEW p PROVE Corrected(s, p)' = Corrected(s, p)
  <2>1. ReadingFor(s, p)' = ReadingFor(s, p)
    BY <1>2 DEF ReadingFor
  <2>2. \A k : Window(s, k)' = Window(s, k)
    BY <1>0 DEF Window, WindowPlace
  <2>3. \A k : LineAt(s, k)' = LineAt(s, k)
    BY <2>2 DEF LineAt
  <2> QED
    BY <1>0, <2>1, <2>3 DEF Corrected
<1> QED
  BY <1>1, <1>2, <1>3

\* Until a second Slice, a segment that is assigned profiles had none.
LEMMA FirstSliceStep ==
    ASSUME SlicerAssumption, RecordingsInv, TypeOK, CallsInv, AssignmentInv, FirstSliceInv,
           [Next]_vars
    PROVE  FirstSliceInv'
<1>0. UNCHANGED recordings
  BY RecordingsFixed
<1>1. SUFFICES ASSUME slices' <= 1
               PROVE  /\ slices' = 0 \/ pc' \in {"classify", "erase"} => profileSegments' = <<>>
                      /\ \A n \in DOMAIN profileSegments' :
                            /\ n \in DOMAIN rfSegments'
                            /\ profileSegments'[n] \in {<<>>, ProfilesDuring(rfSegments'[n])}
                            /\ pc' = "assign" /\ n >= i' => profileSegments'[n] = <<>>
  <2>1. \A n : ProfilesDuring(rfSegments[n])' = ProfilesDuring(rfSegments'[n])
    BY <1>0 DEF recordings, ProfilesDuring, StartTime, EndTime
  <2> QED
    BY <2>1 DEF FirstSliceInv
<1>2. CASE AssignProfiles
  <2> DEFINE old == Resized(profileSegments, Len(segs))
  <2>1. /\ pc = "assign" /\ pc' = "assign" /\ i' = i + 1 /\ slices' = slices /\ slices = 1
        /\ segs = rfSegments /\ rfSegments' = rfSegments /\ i <= Len(segs)
        /\ i \in Nat \ {0} /\ Len(segs) \in Nat /\ DOMAIN segs = 1 .. Len(segs)
    BY <1>1, <1>2 DEF AssignProfiles, CallsInv, AssignmentInv, TypeOK, calls
  <2>2. /\ DOMAIN profileSegments' = 1 .. Len(segs)
        /\ \A n \in 1 .. Len(segs) :
              profileSegments'[n] = IF n = i THEN old[n] \o ProfilesDuring(segs[n]) ELSE old[n]
    BY <1>2, AssignTypes
  <2>3. ASSUME NEW n \in 1 .. Len(segs)
        PROVE  /\ old[n] \in {<<>>, ProfilesDuring(segs[n])}
               /\ n >= i => old[n] = <<>>
    <3>1. CASE n <= Len(profileSegments)
      <4>1. n \in DOMAIN profileSegments /\ old[n] = profileSegments[n]
        BY <3>1 DEF Resized, TypeOK
      <4> QED
        BY <2>1, <4>1 DEF FirstSliceInv
    <3>2. CASE ~(n <= Len(profileSegments))
      BY <3>2 DEF Resized
    <3> QED
      BY <3>1, <3>2
  <2> HIDE DEF old
  <2>4. \A s : <<>> \o ProfilesDuring(s) = ProfilesDuring(s)
    <3>1. SUFFICES ASSUME NEW s PROVE <<>> \o ProfilesDuring(s) = ProfilesDuring(s)
      OBVIOUS
    <3>2. ProfilesDuring(s) \in Seq(DOMAIN profiles)
      BY ProfilesDuringFacts
    <3> QED
      BY <3>2
  <2>5. ASSUME NEW n \in 1 .. Len(segs)
        PROVE  /\ n \in DOMAIN rfSegments'
               /\ profileSegments'[n] \in {<<>>, ProfilesDuring(rfSegments'[n])}
               /\ n >= i' => profileSegments'[n] = <<>>
    <3>1. CASE n = i
      <4>3. old[n] = <<>>
        BY <2>1, <2>3, <3>1
      <4>4. profileSegments'[n] = old[n] \o ProfilesDuring(segs[n])
        BY <2>2, <3>1
      <4>1. profileSegments'[n] = ProfilesDuring(segs[n])
        BY <2>4, <4>3, <4>4
      <4>2. ~(n >= i')
        BY <2>1, <3>1
      <4> QED
        BY <2>1, <4>1, <4>2
    <3>2. CASE n # i
      <4>1. profileSegments'[n] = old[n]
        BY <2>2, <3>2
      <4>2. n >= i' => n >= i
        BY <2>1
      <4> QED
        BY <2>1, <2>3, <4>1, <4>2
    <3> QED
      BY <3>1, <3>2
  <2> QED
    BY <2>1, <2>2, <2>5
<1>3. CASE EndErase
  <2>1. profileSegments' = <<>>
    BY <1>1, <1>3 DEF EndErase, FirstSliceInv, calls
  <2>2. DOMAIN <<>> = {}
    OBVIOUS
  <2> QED
    BY <2>1, <2>2
<1>4. CASE ~EndErase /\ ~AssignProfiles
  <2>1. rfSegments' = rfSegments /\ profileSegments' = profileSegments
    BY <1>4, MembersFixed DEF members
  <2>2. ASSUME NEW interval \in Intervals, Slice(interval) PROVE profileSegments = <<>>
    BY <1>1, <2>2 DEF Slice, FirstSliceInv, TypeOK
  <2>3. CASE \E interval \in Intervals : Slice(interval)
    <3>1. profileSegments' = <<>>
      BY <2>1, <2>2, <2>3
    <3>2. DOMAIN <<>> = {}
      OBVIOUS
    <3> QED
      BY <3>1, <3>2
  <2>4. ASSUME ~ \E interval \in Intervals : Slice(interval)
        PROVE  /\ slices' = slices
               /\ pc' \in {"classify", "erase"} => pc \in {"classify", "erase"}
               /\ pc' = "assign" => pc = "assign" /\ i' = i
    <3>1. CASE PassOver \/ BecomeIdle \/ Move \/ EndClassify
      BY <3>1 DEF PassOver, BecomeIdle, Move, EndClassify, Classifying, NextReading, calls
    <3>2. CASE EraseShort \/ KeepLong \/ EndSlice
      BY <3>2 DEF EraseShort, KeepLong, EndSlice, calls
    <3>3. CASE ComputeRegularizedProfiles \/ RegularizeSegment \/ EndCompute
      BY <3>3 DEF ComputeRegularizedProfiles, RegularizeSegment, EndCompute, calls
    <3>4. CASE UNCHANGED vars
      BY <3>4 DEF vars, calls
    <3> QED
      BY <1>4, <2>4, <3>1, <3>2, <3>3, <3>4, StepIsAction
  <2>5. CASE ~ \E interval \in Intervals : Slice(interval)
    BY <1>1, <2>1, <2>4, <2>5 DEF FirstSliceInv
  <2> QED
    BY <2>3, <2>5
<1> QED
  BY <1>2, <1>3, <1>4

\* What is computed is computed from the segment it is listed for.
LEMMA ComputedStep ==
    ASSUME SlicerAssumption, RecordingsInv, TypeOK, AssignmentInv, ComputeInv, [Next]_vars
    PROVE  ComputeInv'
<1>0. UNCHANGED recordings
  BY RecordingsFixed
<1>1. ASSUME UNCHANGED members, pc' = "compute", Len(regularized') = i' - 1, i' <= Len(rfSegments) + 1,
             \A n \in DOMAIN regularized' : \A j \in DOMAIN regularized'[n] :
                LET m == regularized'[n][j]
                IN  /\ m.profile \in ToSet(profileSegments[n])
                    /\ NotBefore(rfSegments[n], m.profile) # {}
                    /\ m = Corrected(rfSegments[n], m.profile)
      PROVE  ComputeInv'
  <2>1. rfSegments' = rfSegments /\ profileSegments' = profileSegments
    BY <1>1 DEF members
  <2>2. ASSUME NEW n \in DOMAIN regularized', NEW m \in Entries(n)'
        PROVE  /\ m.profile \in ToSet(profileSegments'[n])
               /\ NotBefore(rfSegments[n], m.profile)' # {}
               /\ m = Corrected(rfSegments[n], m.profile)'
    <3>1. PICK j \in DOMAIN regularized'[n] : m = regularized'[n][j]
      BY <2>2 DEF Entries
    <3>2. /\ m.profile \in ToSet(profileSegments[n])
          /\ NotBefore(rfSegments[n], m.profile) # {}
          /\ m = Corrected(rfSegments[n], m.profile)
      BY <1>1, <3>1
    <3>3. /\ NotBefore(rfSegments[n], m.profile)' = NotBefore(rfSegments[n], m.profile)
          /\ Corrected(rfSegments[n], m.profile)' = Corrected(rfSegments[n], m.profile)
      <4>1. rf' = rf /\ profiles' = profiles
        BY <1>0 DEF recordings
      <4>2. NotBefore(rfSegments[n], m.profile)' = NotBefore(rfSegments[n], m.profile)
        BY <2>1, <4>1 DEF NotBefore
      <4>3. LineAt(rfSegments[n], ReadingFor(rfSegments[n], m.profile))' =
               LineAt(rfSegments[n], ReadingFor(rfSegments[n], m.profile))
        BY <2>1, <4>1, <4>2 DEF LineAt, Window, WindowPlace, ReadingFor
      <4> QED
        BY <2>1, <4>1, <4>2, <4>3 DEF Corrected, ReadingFor
    <3> QED
      BY <2>1, <3>2, <3>3
  <2> QED
    BY <1>1, <2>1, <2>2 DEF ComputeInv
<1>2. CASE ComputeRegularizedProfiles
  <2>1. /\ UNCHANGED members /\ pc' = "compute" /\ regularized' = <<>> /\ i' = 1
        /\ Len(<<>>) = 0 /\ DOMAIN <<>> = {} /\ Len(rfSegments) \in Nat
    BY <1>2 DEF ComputeRegularizedProfiles, TypeOK
  <2> QED
    BY <1>1, <2>1
<1>3. CASE RegularizeSegment
  <2>1. /\ UNCHANGED members /\ pc = "compute" /\ pc' = "compute" /\ i' = i + 1
        /\ i <= Len(rfSegments) /\ i \in Nat \ {0} /\ Len(rfSegments) \in Nat
        /\ i \in DOMAIN rfSegments /\ rfSegments[i] \in Seq(DOMAIN rf)
    <3>1. /\ UNCHANGED members /\ pc = "compute" /\ pc' = "compute" /\ i' = i + 1
          /\ i <= Len(rfSegments)
      BY <1>3 DEF RegularizeSegment
    <3>2. i \in Nat \ {0} /\ rfSegments \in Seq(Seq(DOMAIN rf)) /\ Len(rfSegments) \in Nat
      BY DEF TypeOK
    <3>3. i \in DOMAIN rfSegments
      BY <3>1, <3>2
    <3> QED
      BY <3>1, <3>2, <3>3, SeqElement
  <2>2. Len(regularized) = i - 1
    BY <2>1 DEF ComputeInv
  <2>3. /\ Len(regularized') = Len(regularized) + 1
        /\ \A n \in DOMAIN regularized : regularized'[n] = regularized[n]
        /\ \A j \in DOMAIN regularized'[Len(regularized) + 1] :
              \E p \in ToSet(profileSegments[i]) \cap Placed(rfSegments[i]) :
                 regularized'[Len(regularized) + 1][j] = Corrected(rfSegments[i], p)
        /\ regularized' \in Seq(Seq([profile : DOMAIN profiles, place : Nat, x : Int, den : Int]))
    BY <1>3, RegularizeFacts
  <2>4. Len(regularized) + 1 = i /\ Len(regularized') = i' - 1
    BY <2>1, <2>2, <2>3
  <2>5. ASSUME NEW n \in DOMAIN regularized', NEW j \in DOMAIN regularized'[n]
        PROVE  LET m == regularized'[n][j]
               IN  /\ m.profile \in ToSet(profileSegments[n])
                   /\ NotBefore(rfSegments[n], m.profile) # {}
                   /\ m = Corrected(rfSegments[n], m.profile)
    <3>1. n \in DOMAIN regularized \/ n = i
      <4>1. DOMAIN regularized' = 1 .. i
        BY <2>1, <2>3, <2>4
      <4>2. DOMAIN regularized = 1 .. i - 1
        BY <2>2 DEF TypeOK
      <4> QED
        BY <2>1, <4>1, <4>2
    <3>2. CASE n \in DOMAIN regularized
      <4>1. regularized'[n] = regularized[n]
        BY <2>3, <3>2
      <4>2. regularized[n][j] \in Entries(n)
        BY <4>1 DEF Entries
      <4> QED
        BY <2>1, <3>2, <4>1, <4>2 DEF ComputeInv
    <3>3. CASE n = i
      <4>1. PICK p \in ToSet(profileSegments[i]) \cap Placed(rfSegments[i]) :
               regularized'[i][j] = Corrected(rfSegments[i], p)
        BY <2>3, <2>4, <3>3
      <4>2. Corrected(rfSegments[i], p).profile = p
        BY <2>1, CorrectedFacts
      <4>3. NotBefore(rfSegments[i], p) # {}
        BY DEF Placed
      <4> QED
        BY <3>3, <4>1, <4>2, <4>3
    <3> QED
      BY <3>1, <3>2, <3>3
  <2>6. i' <= Len(rfSegments) + 1
    BY <2>1
  <2> QED
    BY <1>1, <2>1, <2>4, <2>5, <2>6
<1>4. CASE UNCHANGED vars
  <2>1. UNCHANGED <<pc, i, members, regularized>>
    BY <1>4 DEF vars, output
  <2>2. CASE pc = "compute"
    <3>1. ASSUME NEW n \in DOMAIN regularized', NEW j \in DOMAIN regularized'[n]
          PROVE  regularized'[n][j] \in Entries(n)
      BY <2>1 DEF Entries
    <3>2. /\ Len(regularized') = i' - 1 /\ i' <= Len(rfSegments) + 1 /\ pc' = "compute"
          /\ UNCHANGED members
      BY <2>1, <2>2 DEF ComputeInv
    <3> QED
      BY <1>1, <2>1, <2>2, <3>1, <3>2 DEF ComputeInv
  <2>3. CASE pc # "compute"
    BY <2>1, <2>3 DEF ComputeInv
  <2> QED
    BY <2>2, <2>3
<1>5. CASE ~(ComputeRegularizedProfiles \/ RegularizeSegment \/ UNCHANGED vars)
  <2>1. ASSUME NEW interval \in Intervals, Slice(interval) PROVE pc' # "compute"
    BY <2>1 DEF Slice
  <2>2. CASE PassOver \/ BecomeIdle \/ Move \/ EndClassify
    BY <2>2 DEF PassOver, BecomeIdle, Move, EndClassify, Classifying, NextReading, ComputeInv
  <2>3. CASE EraseShort \/ KeepLong \/ EndErase \/ AssignProfiles \/ EndSlice \/ EndCompute
    BY <2>3 DEF EraseShort, KeepLong, EndErase, AssignProfiles, EndSlice, EndCompute, ComputeInv
  <2> QED
    BY <1>5, <2>1, <2>2, <2>3, StepIsAction DEF ComputeInv
<1> QED
  BY <1>2, <1>3, <1>4, <1>5

-----------------------------------------------------------------------------
(* The invariant.                                                          *)

\* The invariant holds at first.
LEMMA InitInv == ASSUME SlicerAssumption PROVE Init => IInv
<1> SUFFICES ASSUME Init PROVE IInv
  OBVIOUS
<1>1. RecordingsInv
  BY DEF Init, RecordingsInv
<1>2. rf \in Seq([t : Int, x : Int]) /\ profiles \in Seq([t : Int, empty : BOOLEAN])
  BY <1>1, RecordingTypes
<1>3. MaxSlices \in Nat /\ MaxComputes \in Nat
  BY DEF SlicerAssumption
<1>4. isIdle \in BOOLEAN
  BY DEF Init
<1>5. TypeOK
  BY <1>2, <1>3, <1>4 DEF Init, TypeOK
<1>6. CallsInv /\ ClassifyInv /\ PassesInv /\ ErasureInv /\ AssignmentInv
  BY DEF Init, CallsInv, ClassifyInv, PassesInv, ErasureInv, AssignmentInv
<1>7. NoShortSegment /\ PointsInv /\ FirstSliceInv /\ ComputeInv
  BY DEF Init, NoShortSegment, PointsInv, FirstSliceInv, ComputeInv
<1> QED
  BY <1>1, <1>5, <1>6, <1>7 DEF IInv

\* Every step keeps the invariant.
LEMMA StepInv ==
    ASSUME SlicerAssumption, IInv, [Next]_vars
    PROVE  IInv'
<1> USE DEF IInv
<1>1. RecordingsInv'
  BY RecordingsFixed DEF recordings, RecordingsInv
<1>2. TypeOK'
  BY TypesStep
<1>3. CallsInv'
  BY CallsStep
<1>4. ClassifyInv'
  BY ClassifyStep
<1>5. PassesInv'
  BY PassesStep
<1>6. ErasureInv'
  BY ErasureStep
<1>7. AssignmentInv'
  BY AssignmentStep
<1>8. NoShortSegment' /\ PointsInv'
  BY MembersStep
<1>9. FirstSliceInv'
  BY FirstSliceStep
<1>10. ComputeInv'
  BY ComputedStep
<1> QED
  BY <1>1, <1>2, <1>3, <1>4, <1>5, <1>6, <1>7, <1>8, <1>9, <1>10

\* The inductive invariant holds throughout, for every recording and in every order of
\* the calls.
THEOREM Invariance == Spec => []IInv
<1>1. Init => IInv
  BY SlicerAssumption, InitInv
<1>2. IInv /\ [Next]_vars => IInv'
  BY SlicerAssumption, StepInv
<1> QED
  BY <1>1, <1>2, PTL DEF Spec

\* Every variable keeps its type: the recordings, the segments, the profiles of a
\* segment and what is computed for them.
THEOREM Types == Spec => []TypeOK
<1>1. IInv => TypeOK
  BY DEF IInv
<1> QED
  BY <1>1, Invariance, PTL

-----------------------------------------------------------------------------
(* What the invariant implies.                                             *)

\* The loop over a segment's readings and the windows around them stay inside it.
LEMMA ProfileLooksUp ==
    ASSUME SlicerAssumption, RecordingsInv, NEW n, NEW p, rfSegments[n] \in Seq(DOMAIN rf)
    PROVE  LooksUp(n, p)
<1> DEFINE s == rfSegments[n]
           k == ReadingFor(s, p)
<1>1. WindowingSize \in Nat /\ Len(s) \in Nat /\ DOMAIN s = 1 .. Len(s)
  BY DEF SlicerAssumption
<1>2. WindowingSize + 1 .. Len(s) - WindowingSize \subseteq DOMAIN s
  BY <1>1
<1>3. ASSUME p \in Placed(s)
      PROVE  /\ \A l \in 1 .. 2 * WindowingSize : WindowPlace(k, l) \in DOMAIN s
             /\ ReferenceIndex \in 1 .. 2 * WindowingSize
  <2>1. s \in Seq(DOMAIN rf)
    OBVIOUS
  <2> HIDE DEF s, k
  <2>2. k \in WindowingSize + 1 .. Len(s) - WindowingSize
    BY <1>3, <2>1, CorrectedFacts DEF k
  <2> QED
    BY <1>1, <2>2, SlicerAssumption DEF SlicerAssumption, WindowPlace, WindowStart, ReferenceIndex
<1> QED
  BY <1>2, <1>3 DEF LooksUp

\* No at(), front() or back() of Slice and ComputeRegularizedProfiles is out of
\* range, those of the regression windows included, and the unsigned bound of the loop
\* over the readings does not wrap, for every recording and in every order of the calls.
THEOREM NoAccessOutOfRange == Spec => []AccessInRange
<1>1. ASSUME IInv PROVE AccessInRange
  <2> USE DEF IInv
  <2>1. /\ Len(rf) \in Nat /\ DOMAIN rf = 1 .. Len(rf) /\ MinSegment \in Nat \ {0}
        /\ i \in Nat \ {0} /\ nIntervals \in Nat
        /\ segs \in Seq(Seq(DOMAIN rf)) /\ rfSegments \in Seq(Seq(DOMAIN rf))
    BY <1>1, SlicerAssumption, RecordingTypes DEF SlicerAssumption, TypeOK
  <2>2. pc = "classify" /\ i <= Len(rf) - nIntervals => i + nIntervals \in DOMAIN rf
    BY <2>1
  <2>3. pc = "assign" /\ i <= Len(segs) => segs[i] # <<>>
    <3>1. SUFFICES ASSUME pc = "assign", i <= Len(segs), segs[i] = <<>> PROVE FALSE
      OBVIOUS
    <3>2. i \in DOMAIN rfSegments /\ rfSegments[i] = <<>>
      BY <1>1, <2>1, <3>1 DEF AssignmentInv
    <3>3. Len(<<>>) = 0
      OBVIOUS
    <3> QED
      BY <1>1, <2>1, <3>2, <3>3 DEF NoShortSegment
  <2>4. ASSUME pc = "compute", i <= Len(rfSegments) PROVE i \in DOMAIN profileSegments
    <3>1. i \in DOMAIN rfSegments
      BY <2>1, <2>4
    <3> QED
      BY <1>1, <2>4, <3>1 DEF AssignmentInv
  <2>5. pc = "classify" => nIntervals <= Len(rf)
    BY <1>1, <2>1 DEF ClassifyInv
  <2>6. pc = "erase" /\ i <= Len(segs) => i \in DOMAIN segs
    BY <2>1
  <2>7. ASSUME pc = "compute", i <= Len(rfSegments), NEW p \in ToSet(Front(profileSegments[i]))
        PROVE  LooksUp(i, p)
    <3>1. i \in DOMAIN rfSegments
      BY <2>1, <2>7
    <3>2. rfSegments[i] \in Seq(DOMAIN rf)
      BY <2>1, <3>1, SeqElement
    <3> QED
      BY <1>1, <3>2, SlicerAssumption, ProfileLooksUp
  <2> QED
    BY <2>2, <2>3, <2>4, <2>5, <2>6, <2>7 DEF AccessInRange
<1> QED
  BY <1>1, Invariance, PTL

\* Slice leaves no short segment, although the erasure removes elements of the vector
\* it walks.
THEOREM LongSegments == Spec => []NoShortSegment
<1>1. IInv => NoShortSegment
  BY DEF IInv
<1> QED
  BY <1>1, Invariance, PTL

\* After every Slice, for every recording and interval, the segments are the passes
\* that are long enough, in their order: none is missing, none is cut, none is joined
\* with another.
THEOREM SegmentsAreLongPasses == Spec => []SegmentsArePasses
<1>1. ASSUME IInv PROVE SegmentsArePasses
  <2> USE DEF IInv
  <2>1. SUFFICES ASSUME pc = "ready", slices > 0
                 PROVE  /\ {ToSet(rfSegments[n]) : n \in DOMAIN rfSegments} = Passes
                        /\ Ordered(rfSegments)
    BY DEF SegmentsArePasses
  <2>2. segs = rfSegments
    BY <1>1, <2>1 DEF AssignmentInv
  <2>3. HoldsPasses(rfSegments)
    BY <1>1, <2>1, <2>2 DEF PassesInv, HoldsPasses
  <2>4. /\ rfSegments \in Seq(Seq(DOMAIN rf)) /\ Ordered(rfSegments)
        /\ MinSegment \in Nat \ {0} /\ RecordingsInv /\ nIntervals \in Nat
    BY <1>1, <2>3, SlicerAssumption DEF TypeOK, HoldsPasses, SlicerAssumption
  <2>5. ASSUME NEW n \in DOMAIN rfSegments PROVE ToSet(rfSegments[n]) \in Passes
    <3>1. Cardinality(ToSet(rfSegments[n])) >= MinSegment /\ Len(rfSegments[n]) >= MinSegment
      BY <1>1, <2>4, SlicerAssumption, SegmentSize DEF NoShortSegment
    <3>2. 1 \in DOMAIN rfSegments[n]
      <4>1. rfSegments[n] \in Seq(DOMAIN rf)
        BY <2>4, SeqElement
      <4> QED
        BY <2>4, <3>1, <4>1
    <3>3. rfSegments[n][1] \in ToSet(rfSegments[n])
      BY <3>2 DEF ToSet
    <3>4. PICK k \in Moved : ToSet(rfSegments[n]) = PassOf(k)
      BY <2>3, <3>3 DEF HoldsPasses
    <3> QED
      BY <3>1, <3>4 DEF Passes
  <2>6. ASSUME NEW R \in Passes PROVE \E n \in DOMAIN rfSegments : R = ToSet(rfSegments[n])
    <3>1. PICK k \in Moved : R = PassOf(k)
      BY DEF Passes
    <3>2. Cardinality(R) >= MinSegment
      BY DEF Passes
    <3>3. Cardinality(R) \in Nat
      <4>1. Moved \in SUBSET DOMAIN rf /\ IsFiniteSet(DOMAIN rf)
        BY <2>4, SlicerAssumption, MovedFacts, RecordingTypes, UpTo
      <4>2. R \in SUBSET DOMAIN rf
        BY <3>1, <4>1 DEF PassOf
      <4> QED
        BY <4>1, <4>2, FS_Subset, FS_CardinalityType
    <3>4. ~(Cardinality(PassOf(k)) < MinSegment)
      BY <2>4, <3>1, <3>2, <3>3
    <3>5. PICK n \in DOMAIN rfSegments : k \in ToSet(rfSegments[n])
      BY <2>3, <3>4 DEF HoldsPasses
    <3>6. ToSet(rfSegments[n]) = PassOf(k)
      BY <2>3, <3>5 DEF HoldsPasses
    <3> QED
      BY <3>1, <3>6
  <2> QED
    BY <2>4, <2>5, <2>6
<1> QED
  BY <1>1, Invariance, PTL

\* An entry was computed at a place of its segment that has a full window.
LEMMA EntryFacts ==
    ASSUME SlicerAssumption, IInv, pc = "compute",
           NEW n \in DOMAIN regularized, NEW m \in Entries(n)
    PROVE  /\ n \in DOMAIN rfSegments
           /\ rfSegments[n] \in Seq(DOMAIN rf)
           /\ m.place \in WindowingSize + 1 .. Len(rfSegments[n]) - WindowingSize
           /\ m.profile \in DOMAIN profiles
           /\ m.profile \in ToSet(profileSegments[n])
           /\ m.profile \in Placed(rfSegments[n])
           /\ m.place = ReadingFor(rfSegments[n], m.profile)
           /\ m = Corrected(rfSegments[n], m.profile)
<1> USE DEF IInv
<1>1. RecordingsInv /\ rfSegments \in Seq(Seq(DOMAIN rf)) /\ regularized \in Seq(Seq([profile : DOMAIN profiles, place : Nat, x : Int, den : Int]))
  BY DEF TypeOK
<1>2. n \in DOMAIN rfSegments
  <2>1. DOMAIN regularized = 1 .. Len(regularized)
    BY <1>1
  <2>2. Len(regularized) = i - 1 /\ i <= Len(rfSegments) + 1
    BY DEF ComputeInv
  <2>3. i \in Nat /\ Len(rfSegments) \in Nat /\ DOMAIN rfSegments = 1 .. Len(rfSegments)
    BY <1>1 DEF TypeOK
  <2>4. n \in 1 .. i - 1
    BY <2>1, <2>2
  <2> QED
    BY <2>2, <2>3, <2>4
<1>3. rfSegments[n] \in Seq(DOMAIN rf)
  BY <1>1, <1>2, SeqElement
<1>4. /\ m.profile \in ToSet(profileSegments[n])
      /\ NotBefore(rfSegments[n], m.profile) # {}
      /\ m = Corrected(rfSegments[n], m.profile)
  BY DEF ComputeInv
<1>5. m.profile \in DOMAIN profiles
  <2>1. n \in DOMAIN profileSegments /\ profileSegments \in Seq(Seq(DOMAIN profiles))
    BY <1>2 DEF AssignmentInv, TypeOK
  <2>2. profileSegments[n] \in Seq(DOMAIN profiles)
    BY <2>1, SeqElement
  <2>3. \A j \in DOMAIN profileSegments[n] : profileSegments[n][j] \in DOMAIN profiles
    BY <2>2, SeqElement
  <2> QED
    BY <1>4, <2>3 DEF ToSet
<1>6. m.profile \in Placed(rfSegments[n])
  BY <1>4, <1>5 DEF Placed
<1>7. /\ Corrected(rfSegments[n], m.profile).place = ReadingFor(rfSegments[n], m.profile)
      /\ ReadingFor(rfSegments[n], m.profile) \in WindowingSize + 1 .. Len(rfSegments[n]) - WindowingSize
  BY <1>1, <1>3, <1>6, CorrectedFacts
<1> QED
  BY <1>2, <1>3, <1>4, <1>5, <1>6, <1>7

\* Every reading of an entry's window has a point, whatever the recording lacks.
LEMMA WindowHasPoints ==
    ASSUME SlicerAssumption, IInv, pc = "compute",
           NEW n \in DOMAIN regularized, NEW m \in Entries(n),
           NEW l \in DOMAIN Window(rfSegments[n], m.place)
    PROVE  Window(rfSegments[n], m.place)[l].x # NoPoint
<1> DEFINE s == rfSegments[n]
           k == m.place
<1>1. RecordingsInv /\ PointsInv
  BY DEF IInv
<1>2. n \in DOMAIN rfSegments /\ s \in Seq(DOMAIN rf) /\ k \in WindowingSize + 1 .. Len(s) - WindowingSize
  BY EntryFacts
<1>6. l \in DOMAIN Window(s, k)
  OBVIOUS
<1> HIDE DEF s, k
<1>3. WindowStart(k) + l - 1 \in DOMAIN s /\ Window(s, k)[l] = rf[s[WindowStart(k) + l - 1]]
  BY <1>1, <1>2, <1>6, WindowFacts
<1>4. s[WindowStart(k) + l - 1] \in ToSet(s)
  BY <1>3 DEF ToSet
<1>5. Window(s, k)[l].x # NoPoint
  BY <1>1, <1>2, <1>3, <1>4 DEF PointsInv, s
<1> QED
  BY <1>5 DEF s, k

\* A profile taken together with a reading during uniform motion gets just the distance
\* that reading measured, for every size of the window.
THEOREM TiedProfilesAreExact == Spec => []TiedProfilesExact
<1>1. ASSUME IInv PROVE TiedProfilesExact
  <2>1. SUFFICES ASSUME pc = "compute", NEW n \in DOMAIN regularized, NEW m \in Entries(n),
                        Uniform(n, m.place), Time(m) = Reading(n, m.place).t
                 PROVE  AtProfileTime(n, m)
    BY DEF TiedProfilesExact
  <2> DEFINE s == rfSegments[n]
             k == m.place
             w == Window(s, k)
             ref == WindowingSize + 1
             here == Reading(n, k)
             dx == here.x - w[1].x
             dt == here.t - w[1].t
             line == LinearRegressionSlope(w, ref)
  <2>2. /\ s \in Seq(DOMAIN rf) /\ k \in WindowingSize + 1 .. Len(s) - WindowingSize
        /\ m.profile \in DOMAIN profiles /\ m.profile \in Placed(s)
        /\ k = ReadingFor(s, m.profile) /\ m = Corrected(s, m.profile)
    BY <1>1, <2>1, SlicerAssumption, EntryFacts
  <2>3. RecordingsInv
    BY <1>1 DEF IInv
  <2>4. /\ w \in Windows /\ Len(w) = 2 * WindowingSize /\ DOMAIN w = 1 .. 2 * WindowingSize
        /\ ref \in DOMAIN w /\ w[ref] = rf[s[k]]
    <3> HIDE DEF s, k
    <3> QED
      BY <2>2, <2>3, SlicerAssumption, WindowFacts
  <2>5. WindowingSize \in Nat \ {0}
    BY SlicerAssumption DEF SlicerAssumption
  <2>6. here = w[ref]
    BY <2>4 DEF Reading
  <2>7. Len(w) >= 2 /\ 1 \in DOMAIN w
    <3> HIDE DEF w
    <3> QED
      BY <2>4, <2>5
  <2>8. Valid(w) = DOMAIN w
    BY <1>1, <2>1, SlicerAssumption, WindowHasPoints DEF Valid
  <2>9. \A a, b, c \in DOMAIN w :
           (w[b].x - w[a].x) * (w[c].t - w[a].t) = (w[c].x - w[a].x) * (w[b].t - w[a].t)
    BY <2>1 DEF Uniform
  <2>10. m.x = At(line, here.t - Time(m)) /\ m.den = 10 * line.den
    <3>1. LineAt(s, k) = line
      BY DEF LineAt, ReferenceIndex
    <3>2. Corrected(s, m.profile) = [profile |-> m.profile, place |-> k,
                    x |-> At(line, rf[s[k]].t - profiles[m.profile].t), den |-> 10 * line.den]
      BY <2>2, <3>1 DEF Corrected
    <3> QED
      BY <2>2, <3>2 DEF Reading, Time
  <2>11. AtProfileTime(n, m) <=>
            m.x * 10 * dt = (here.x * dt + dx * (Time(m) - here.t)) * m.den
    BY DEF AtProfileTime
  <2>12. Time(m) = here.t
    BY <2>1
  <2> HIDE DEF s, k, w, ref, here, line
  <2>13. \A l \in DOMAIN w : w[l].t \in Int /\ w[l].x \in Int
    BY <2>4, ReadingType
  <2>14. /\ here.t \in Int /\ here.x \in Int /\ w[1].t \in Int /\ w[1].x \in Int
         /\ w[ref].t \in Int /\ w[ref].x \in Int
    BY <2>4, <2>6, <2>7, <2>13
  <2>15. dx \in Int /\ dt \in Int /\ dt = w[ref].t - w[1].t
    BY <2>6, <2>14
  <2>16. ASSUME NEW l \in DOMAIN w PROVE dt * (w[l].x - w[ref].x) = dx * (w[l].t - w[ref].t)
    <3>1. (w[l].x - w[ref].x) * (w[1].t - w[ref].t) = (w[1].x - w[ref].x) * (w[l].t - w[ref].t)
      BY <2>4, <2>7, <2>9
    <3> DEFINE X == w[l].x - w[ref].x
               U == w[l].t - w[ref].t
    <3>2. X \in Int /\ U \in Int
      BY <2>13, <2>14
    <3>3. w[1].t - w[ref].t = -dt /\ w[1].x - w[ref].x = -dx
      BY <2>6, <2>14
    <3> HIDE DEF X, U, dx, dt
    <3>4. X * (-dt) = (-dx) * U
      BY <3>1, <3>3 DEF X, U
    <3>5. X * (-dt) = -(dt * X) /\ (-dx) * U = -(dx * U)
      BY ONLY <2>15, <3>2
    <3>6. dt * X \in Int /\ dx * U \in Int
      BY ONLY <2>15, <3>2
    <3>7. dt * X = dx * U
      BY ONLY <3>4, <3>5, <3>6
    <3> QED
      BY <3>7 DEF X, U
  <2> HIDE DEF dx, dt
  <2>17. line = LinearRegressionSlope(w, ref)
    BY DEF line
  <2>18. line.intercept * dt = (w[ref].x * dt) * line.den
    BY <2>4, <2>7, <2>8, <2>15, <2>16, <2>17, UniformWindow
  <2>19. line.slope \in Int /\ line.intercept \in Int /\ line.den \in Int
    <3>1. line \in [slope : Int, intercept : Int, den : Int]
      BY <2>4, <2>17, LineType
    <3> QED
      BY <3>1
  <2>20. m.x = line.intercept
    <3>1. here.t - Time(m) = 0
      BY <2>12, <2>14
    <3>2. line.slope * 0 = 0
      BY <2>19
    <3> QED
      BY <2>10, <2>19, <3>1, <3>2 DEF At
  <2>21. here.x * dt + dx * (Time(m) - here.t) = here.x * dt
    <3>1. Time(m) - here.t = 0 /\ dx * 0 = 0 /\ here.x * dt \in Int
      BY <2>12, <2>14, <2>15
    <3> QED
      BY <3>1
  <2>22. m.x * 10 * dt = (here.x * dt) * m.den
    <3>1. ASSUME NEW a \in Int, NEW b \in Int, NEW c \in Int, NEW d \in Int, a * b = c * d
          PROVE  a * 10 * b = c * (10 * d)
      BY ONLY <3>1
    <3>2. here.x * dt \in Int
      BY <2>14, <2>15
    <3>3. line.intercept * dt = (here.x * dt) * line.den
      BY <2>6, <2>18
    <3> DEFINE b == line.intercept
               c == here.x * dt
               d == line.den
    <3>4. b \in Int /\ c \in Int /\ d \in Int /\ b * dt = c * d
      BY <2>19, <3>2, <3>3
    <3>5. m.x = b /\ m.den = 10 * d
      BY <2>10, <2>20
    <3> HIDE DEF b, c, d
    <3>6. b * 10 * dt = c * (10 * d)
      BY ONLY <2>15, <3>1, <3>4
    <3> QED
      BY <3>5, <3>6 DEF c
  <2> QED
    BY <2>11, <2>21, <2>22 DEF dx, dt
<1> QED
  BY <1>1, Invariance, PTL

-----------------------------------------------------------------------------
(* Recordings made in the order of their times.                            *)

\* A recorder's thread stamps one reading after the other, and sleeps in between.
Chronological == \A r \in Recordings : \A a, b \in DOMAIN r : a < b => r[a].t < r[b].t

\* Its clock is not put back.
NeverBack == \A r \in Recordings : \A a, b \in DOMAIN r : a < b => r[a].t <= r[b].t

\* Until a second Slice the profiles of a segment were taken during it, and are listed
\* once.
LEMMA FirstSliceProfiles ==
    ASSUME SlicerAssumption, IInv, slices <= 1, NEW n \in DOMAIN profileSegments
    PROVE  /\ n \in DOMAIN rfSegments
           /\ \A p \in ToSet(profileSegments[n]) :
                 StartTime(rfSegments[n]) <= profiles[p].t /\ profiles[p].t <= EndTime(rfSegments[n])
           /\ \A a, b \in DOMAIN profileSegments[n] :
                 a < b => profileSegments[n][a] < profileSegments[n][b]
<1>1. RecordingsInv /\ FirstSliceInv
  BY DEF IInv
<1>2. n \in DOMAIN rfSegments /\ profileSegments[n] \in {<<>>, ProfilesDuring(rfSegments[n])}
  BY <1>1 DEF FirstSliceInv
<1>3. CASE profileSegments[n] = <<>>
  BY <1>2, <1>3 DEF ToSet
<1>4. CASE profileSegments[n] = ProfilesDuring(rfSegments[n])
  BY <1>1, <1>2, <1>4, ProfilesDuringFacts
<1> QED
  BY <1>2, <1>3, <1>4

\* The ends of a segment are readings of the recording.
LEMMA SegmentEnds ==
    ASSUME SlicerAssumption, IInv, NEW n \in DOMAIN rfSegments
    PROVE  /\ rfSegments[n] \in Seq(DOMAIN rf) /\ Len(rfSegments[n]) \in Nat
           /\ DOMAIN rfSegments[n] = 1 .. Len(rfSegments[n])
           /\ 1 \in DOMAIN rfSegments[n] /\ Len(rfSegments[n]) \in DOMAIN rfSegments[n]
           /\ \A k \in DOMAIN rfSegments[n] :
                 rfSegments[n][k] \in DOMAIN rf /\ rf[rfSegments[n][k]].t \in Int
<1>1. RecordingsInv /\ rfSegments \in Seq(Seq(DOMAIN rf)) /\ Len(rfSegments[n]) >= MinSegment
      /\ MinSegment \in Nat \ {0}
  BY DEF IInv, TypeOK, NoShortSegment, SlicerAssumption
<1>2. rfSegments[n] \in Seq(DOMAIN rf)
  BY <1>1, SeqElement
<1>3. Len(rfSegments[n]) \in Nat /\ DOMAIN rfSegments[n] = 1 .. Len(rfSegments[n])
  BY <1>2
<1>4. 1 \in DOMAIN rfSegments[n] /\ Len(rfSegments[n]) \in DOMAIN rfSegments[n]
  BY <1>1, <1>3
<1>5. \A k \in DOMAIN rfSegments[n] : rfSegments[n][k] \in DOMAIN rf
  BY <1>2, SeqElement
<1>6. \A k \in DOMAIN rfSegments[n] : rf[rfSegments[n][k]].t \in Int
  BY <1>1, <1>5, RecordingTypes
<1> QED
  BY <1>2, <1>3, <1>4, <1>5, <1>6

\* What has entries was computed after a Slice, from segments in their order.
LEMMA ComputedInOrder ==
    ASSUME SlicerAssumption, IInv, pc = "compute", NEW n \in DOMAIN rfSegments
    PROVE  Ordered(rfSegments)
<1>1. slices \in Nat
  BY DEF IInv, TypeOK
<1>2. slices # 0
  <2>1. SUFFICES ASSUME slices = 0 PROVE FALSE
    OBVIOUS
  <2>2. profileSegments = <<>>
    BY <2>1 DEF IInv, FirstSliceInv
  <2>3. n \in DOMAIN profileSegments
    BY DEF IInv, AssignmentInv
  <2> QED
    BY <2>2, <2>3
<1> QED
  BY <1>1, <1>2 DEF IInv, PassesInv, AssignmentInv

\* The regression of ComputeRegularizedProfiles finds its line for every profile that is
\* corrected, over a full window of readings with points, for every recording whose
\* readings have one time after the other, whatever readings without points lie in it.
THEOREM LinesExist ==
    ASSUME Chronological
    PROVE  Spec => []LineExists
<1>1. ASSUME IInv PROVE LineExists
  <2>1. SUFFICES ASSUME pc = "compute", NEW n \in DOMAIN regularized, NEW m \in Entries(n)
                 PROVE  LineAt(rfSegments[n], m.place) # NoLine
    BY <1>1, SlicerAssumption, WindowHasPoints DEF LineExists
  <2> DEFINE s == rfSegments[n]
             k == m.place
             w == Window(s, k)
             a == WindowPlace(k, 1)
             b == WindowPlace(k, 2)
  <2>2. /\ n \in DOMAIN rfSegments /\ s \in Seq(DOMAIN rf)
        /\ k \in WindowingSize + 1 .. Len(s) - WindowingSize
    BY <1>1, <2>1, SlicerAssumption, EntryFacts
  <2>3. RecordingsInv /\ WindowingSize \in Nat \ {0}
    BY <1>1, SlicerAssumption DEF IInv, SlicerAssumption
  <2>4. \A l \in DOMAIN w : w[l].x # NoPoint
    BY <1>1, <2>1, SlicerAssumption, WindowHasPoints
  <2>5. Ordered(rfSegments)
    BY <1>1, <2>1, <2>2, SlicerAssumption, ComputedInOrder
  <2>6. \A c, d \in DOMAIN s : c < d => s[c] < s[d]
    BY <2>2, <2>5 DEF Ordered
  <2> HIDE DEF s, k
  <2>7. /\ w \in Windows /\ DOMAIN w = 1 .. 2 * WindowingSize /\ Len(w) = 2 * WindowingSize
        /\ ReferenceIndex \in DOMAIN w
        /\ \A l \in DOMAIN w : WindowStart(k) + l - 1 \in DOMAIN s
                              /\ w[l] = rf[s[WindowStart(k) + l - 1]]
        /\ WindowStart(k) \in Nat
    BY <2>2, <2>3, SlicerAssumption, WindowFacts DEF ReferenceIndex
  <2> HIDE DEF w
  <2>8. 1 \in DOMAIN w /\ 2 \in DOMAIN w /\ Len(w) >= 2
    BY <2>3, <2>7
  <2>9. a \in DOMAIN s /\ b \in DOMAIN s /\ w[1] = rf[s[a]] /\ w[2] = rf[s[b]] /\ a < b
    BY <2>7, <2>8 DEF WindowPlace
  <2> HIDE DEF a, b
  <2>10. s[a] \in DOMAIN rf /\ s[b] \in DOMAIN rf /\ s[a] < s[b]
    BY <2>2, <2>6, <2>9, SeqElement
  <2>11. rf[s[a]].t < rf[s[b]].t /\ rf[s[a]].t \in Int /\ rf[s[b]].t \in Int
    BY <2>3, <2>10, SlicerAssumption, RecordingTypes, Chronological DEF RecordingsInv, Chronological
  <2>12. TwoTimes(w)
    <3>1. 1 \in Valid(w) /\ 2 \in Valid(w)
      BY <2>4, <2>8 DEF Valid
    <3>2. w[1].t # w[2].t
      BY <2>9, <2>11
    <3> QED
      BY <3>1, <3>2 DEF TwoTimes
  <2>13. LinearRegressionSlope(w, ReferenceIndex) # NoLine
    BY <2>7, <2>8, <2>12, LineFound
  <2> QED
    BY <2>13 DEF LineAt, w, s, k
<1> QED
  BY <1>1, Invariance, PTL

\* Until a second Slice a profile belongs to one segment at most, and once, for every
\* recording whose readings have one time after the other.
THEOREM ProfileInOneSegment ==
    ASSUME Chronological
    PROVE  Spec => [](slices <= 1 => ProfilesInOneSegment)
<1>1. ASSUME IInv, slices <= 1, ~(slices = 0 \/ pc \in {"classify", "erase"})
      PROVE  Ordered(rfSegments)
  <2>1. slices \in Nat /\ slices > 0
    BY <1>1 DEF IInv, TypeOK
  <2> QED
    BY <1>1, <2>1 DEF IInv, PassesInv, AssignmentInv
<1>2. ASSUME IInv, slices <= 1,
             NEW m \in DOMAIN profileSegments, NEW n \in DOMAIN profileSegments, m < n,
             NEW p \in ToSet(profileSegments[m]), p \in ToSet(profileSegments[n])
      PROVE  FALSE
  <2>1. /\ m \in DOMAIN rfSegments /\ profiles[p].t <= EndTime(rfSegments[m])
        /\ n \in DOMAIN rfSegments /\ StartTime(rfSegments[n]) <= profiles[p].t
    BY <1>2, SlicerAssumption, FirstSliceProfiles
  <2>2. profileSegments # <<>>
    BY <1>2
  <2>3. Ordered(rfSegments)
    BY <1>1, <1>2, <2>2 DEF IInv, FirstSliceInv
  <2> DEFINE last == rfSegments[m][Len(rfSegments[m])]
             first == rfSegments[n][1]
  <2>4. /\ Len(rfSegments[m]) \in DOMAIN rfSegments[m] /\ 1 \in DOMAIN rfSegments[n]
        /\ last \in DOMAIN rf /\ first \in DOMAIN rf
        /\ rf[last].t \in Int /\ rf[first].t \in Int
    BY <1>2, <2>1, SlicerAssumption, SegmentEnds
  <2>5. last < first
    BY <1>2, <2>1, <2>3, <2>4 DEF Ordered
  <2>6. rf[last].t < rf[first].t
    BY <1>2, <2>4, <2>5, Chronological DEF IInv, RecordingsInv, Chronological
  <2>7. profiles[p].t \in Int
    <3>1. profileSegments \in Seq(Seq(DOMAIN profiles)) /\ RecordingsInv
      BY <1>2 DEF IInv, TypeOK
    <3>2. profileSegments[m] \in Seq(DOMAIN profiles)
      BY <3>1, SeqElement
    <3>3. \A a \in DOMAIN profileSegments[m] : profileSegments[m][a] \in DOMAIN profiles
      BY <3>2, SeqElement
    <3>4. p \in DOMAIN profiles
      BY <3>3 DEF ToSet
    <3> QED
      BY <3>1, <3>4, SlicerAssumption, RecordingTypes
  <2>8. EndTime(rfSegments[m]) = rf[last].t /\ StartTime(rfSegments[n]) = rf[first].t
    BY DEF EndTime, StartTime
  <2> HIDE DEF last, first
  <2> QED
    BY <2>1, <2>4, <2>6, <2>7, <2>8
<1>3. ASSUME IInv, slices <= 1 PROVE ProfilesInOneSegment
  <2>1. SUFFICES ASSUME NEW m \in DOMAIN profileSegments, NEW n \in DOMAIN profileSegments,
                        NEW a \in DOMAIN profileSegments[m], NEW b \in DOMAIN profileSegments[n],
                        profileSegments[m][a] = profileSegments[n][b]
                 PROVE  m = n /\ a = b
    BY DEF ProfilesInOneSegment
  <2>2. /\ profileSegments[m][a] \in ToSet(profileSegments[m])
        /\ profileSegments[n][b] \in ToSet(profileSegments[n])
    BY DEF ToSet
  <2>13. profileSegments \in Seq(Seq(DOMAIN profiles))
    BY <1>3 DEF IInv, TypeOK
  <2>3. profileSegments \in Seq(Seq(DOMAIN profiles)) /\ m \in Nat /\ n \in Nat
    BY <2>13
  <2>4. ~(m < n) /\ ~(n < m)
    BY <1>2, <1>3, <2>1, <2>2
  <2>5. m = n
    BY <2>3, <2>4
  <2>6. profileSegments[m] \in Seq(DOMAIN profiles)
    BY <2>3, SeqElement
  <2>7. a \in Nat /\ b \in Nat /\ profileSegments[m][a] \in DOMAIN profiles
    BY <2>5, <2>6, SeqElement
  <2>8. profileSegments[m][a] \in Nat
    BY <1>3, <2>7, SlicerAssumption, RecordingTypes DEF IInv
  <2>9. a < b => profileSegments[m][a] < profileSegments[m][b]
    BY <1>3, <2>5, SlicerAssumption, FirstSliceProfiles
  <2>10. b < a => profileSegments[m][b] < profileSegments[m][a]
    BY <1>3, <2>5, SlicerAssumption, FirstSliceProfiles
  <2>11. profileSegments[m][b] = profileSegments[m][a]
    BY <2>1, <2>5
  <2>12. ~(a < b) /\ ~(b < a)
    BY <2>8, <2>9, <2>10, <2>11
  <2> QED
    BY <2>5, <2>7, <2>12
<1> QED
  BY <1>3, Invariance, PTL

\* Until a second Slice a corrected profile was taken within the window it is corrected
\* with, between its reading and the one before unless it precedes the first full window,
\* for every recording whose clock is not put back.
THEOREM ProfileTakenInWindow ==
    ASSUME NeverBack
    PROVE  Spec => [](slices <= 1 => ProfileWithinWindow)
<1>1. ASSUME IInv, slices <= 1 PROVE ProfileWithinWindow
  <2>1. SUFFICES ASSUME pc = "compute", NEW n \in DOMAIN regularized, NEW m \in Entries(n)
                 PROVE  /\ Reading(n, WindowStart(m.place)).t <= Time(m)
                        /\ Time(m) <= Reading(n, m.place).t
                        /\ m.place > WindowingSize + 1 => Reading(n, m.place - 1).t < Time(m)
    BY DEF ProfileWithinWindow
  <2> DEFINE s == rfSegments[n]
             k == m.place
  <2>2. /\ n \in DOMAIN rfSegments /\ s \in Seq(DOMAIN rf)
        /\ k \in WindowingSize + 1 .. Len(s) - WindowingSize
        /\ m.profile \in DOMAIN profiles /\ m.profile \in ToSet(profileSegments[n])
        /\ m.profile \in Placed(s) /\ k = ReadingFor(s, m.profile)
    BY <1>1, <2>1, SlicerAssumption, EntryFacts
  <2>3. RecordingsInv /\ WindowingSize \in Nat \ {0}
    BY <1>1, SlicerAssumption DEF IInv, SlicerAssumption
  <2>4. Time(m) = profiles[m.profile].t /\ Time(m) \in Int
    BY <2>2, <2>3, SlicerAssumption, RecordingTypes DEF Time
  <2>5. \A l : Reading(n, l) = rf[s[l]]
    BY DEF Reading
  <2>6. Len(s) \in Nat /\ DOMAIN s = 1 .. Len(s)
        /\ \A l \in DOMAIN s : s[l] \in DOMAIN rf /\ rf[s[l]].t \in Int
    BY <1>1, <2>2, SlicerAssumption, SegmentEnds
  <2>7. StartTime(s) <= Time(m)
    <3>1. n \in DOMAIN profileSegments
      BY <1>1, <2>1, <2>2 DEF IInv, AssignmentInv
    <3> QED
      BY <1>1, <2>2, <2>4, <3>1, SlicerAssumption, FirstSliceProfiles
  <2>8. Ordered(rfSegments)
    BY <1>1, <2>1, <2>2, SlicerAssumption, ComputedInOrder
  <2>9. ASSUME NEW a \in DOMAIN s, NEW b \in DOMAIN s, a < b PROVE rf[s[a]].t <= rf[s[b]].t
    <3>1. s[a] < s[b]
      BY <2>2, <2>8, <2>9 DEF Ordered
    <3>2. s[a] \in DOMAIN rf /\ s[b] \in DOMAIN rf
      BY <2>6
    <3> HIDE DEF s
    <3> QED
      BY <2>3, <3>1, <3>2, NeverBack DEF RecordingsInv, NeverBack
  <2> HIDE DEF s, k
  <2>10. /\ rf[s[k]].t >= Time(m)
         /\ \A l \in WindowingSize + 1 .. Len(s) - WindowingSize : rf[s[l]].t >= Time(m) => k <= l
    BY <2>2, <2>3, <2>4, SlicerAssumption, CorrectedFacts
  <2>11. k \in DOMAIN s /\ rf[s[k]].t \in Int
    BY <2>2, <2>3, <2>6
  <2>12. Reading(n, k).t = rf[s[k]].t /\ Reading(n, WindowStart(k)).t = rf[s[WindowStart(k)]].t
    BY <2>5
  <2>13. Time(m) <= Reading(n, k).t
    BY <2>4, <2>10, <2>11, <2>12
  <2>14. rf[s[WindowStart(k)]].t <= Time(m)
    <3>1. CASE k = WindowingSize + 1
      <4>1. WindowStart(k) = 1
        BY <2>3, <3>1 DEF WindowStart
      <4> QED
        BY <2>7, <4>1 DEF StartTime
    <3>2. CASE k # WindowingSize + 1
      <4>1. /\ k - 1 \in WindowingSize + 1 .. Len(s) - WindowingSize /\ ~(k <= k - 1)
            /\ k - 1 \in DOMAIN s /\ WindowStart(k) \in DOMAIN s
            /\ WindowStart(k) < k - 1 \/ WindowStart(k) = k - 1
        BY <2>2, <2>3, <2>6, <3>2 DEF WindowStart
      <4>2. ~(rf[s[k - 1]].t >= Time(m)) /\ rf[s[k - 1]].t \in Int
        BY <2>6, <2>10, <4>1
      <4>3. rf[s[WindowStart(k)]].t <= rf[s[k - 1]].t /\ rf[s[WindowStart(k)]].t \in Int
        BY <2>6, <2>9, <4>1, <4>2
      <4> QED
        BY <2>4, <4>2, <4>3
    <3> QED
      BY <3>1, <3>2
  <2>15. k > WindowingSize + 1 => Reading(n, k - 1).t < Time(m)
    <3>1. SUFFICES ASSUME k > WindowingSize + 1 PROVE rf[s[k - 1]].t < Time(m)
      BY <2>5
    <3>2. /\ k - 1 \in WindowingSize + 1 .. Len(s) - WindowingSize /\ ~(k <= k - 1)
          /\ k - 1 \in DOMAIN s
      BY <2>2, <2>3, <2>6, <3>1
    <3>3. ~(rf[s[k - 1]].t >= Time(m)) /\ rf[s[k - 1]].t \in Int
      BY <2>6, <2>10, <3>2
    <3> QED
      BY <2>4, <3>3
  <2> QED
    BY <2>12, <2>13, <2>14, <2>15 DEF k
<1> QED
  BY <1>1, Invariance, PTL
=============================================================================
