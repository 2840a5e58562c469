----------------------- MODULE LinearRegression_proofs -----------------------
(***************************************************************************)
(* linearRegressionSlope returns the least-squares line of every window,   *)
(* and a uniform motion's own line.                                        *)
(*                                                                         *)
(* The sums of the regression are folds over the set of valid readings.    *)
(* What is needed about them - their type, that they are linear, that a    *)
(* sum of squares vanishes only with its squares - is proved by taking a   *)
(* smallest set for which it fails.                                        *)
(***************************************************************************)
EXTENDS MCLinearRegression, FiniteSetTheorems, WellFoundedInduction, TLAPS

-----------------------------------------------------------------------------
(* Smallest sets.                                                          *)

\* A non-empty set of natural numbers has a least element.
LEMMA LeastNat ==
    ASSUME NEW N \in SUBSET Nat, N # {}
    PROVE  \E m \in N : \A n \in N : m <= n
<1> DEFINE Less == {ss \in Nat \X Nat : ss[1] < ss[2]}
<1>1. IsWellFoundedOn(Less, Nat)
  BY NatLessThanWellFounded DEF OpToRel
<1>2. PICK m \in N : \A n \in N : <<n, m>> \notin Less
  <2> HIDE DEF Less
  <2> QED
    BY <1>1, WFMin
<1>3. ASSUME NEW n \in N PROVE m <= n
  <2>1. <<n, m>> \notin Less
    BY <1>2
  <2> QED
    BY <2>1
<1> QED
  BY <1>2, <1>3

\* The numbers up to n.
LEMMA UpTo ==
    ASSUME NEW n \in Nat
    PROVE  IsFiniteSet(1 .. n) /\ Cardinality(1 .. n) = n
<1>1. /\ IsFiniteSet(1 .. n)
      /\ Cardinality(1 .. n) = IF 1 > n THEN 0 ELSE n - 1 + 1
  BY FS_Interval
<1> QED
  BY <1>1

\* A non-empty collection of subsets of a finite set has a smallest member.
LEMMA SmallestSet ==
    ASSUME NEW D, IsFiniteSet(D), NEW C \in SUBSET SUBSET D, C # {}
    PROVE  \E S \in C : \A R \in SUBSET S : R # S => R \notin C
<1> DEFINE sizes == {Cardinality(S) : S \in C}
<1>1. ASSUME NEW S \in C PROVE IsFiniteSet(S) /\ Cardinality(S) \in Nat
  BY FS_Subset, FS_CardinalityType
<1>2. sizes \in SUBSET Nat /\ sizes # {}
  BY <1>1
<1>3. PICK m \in sizes : \A n \in sizes : m <= n
  <2> HIDE DEF sizes
  <2> QED
    BY <1>2, LeastNat
<1>4. PICK S \in C : m = Cardinality(S)
  BY <1>3
<1>5. ASSUME NEW R \in SUBSET S, R # S PROVE R \notin C
  <2>1. Cardinality(R) <= Cardinality(S) /\ Cardinality(R) # Cardinality(S)
    BY <1>1, <1>5, FS_Subset
  <2>2. CASE R \in C
    <3>1. Cardinality(R) \in sizes
      BY <2>2
    <3>2. m <= Cardinality(R)
      BY <1>3, <3>1
    <3>3. Cardinality(R) \in Nat /\ Cardinality(S) \in Nat
      BY <1>1, <2>2
    <3> QED
      BY <1>4, <2>1, <3>2, <3>3
  <2> QED
    BY <2>2
<1> QED
  BY <1>5

-----------------------------------------------------------------------------
(* The fold behind a sum.                                                  *)

\* The element a sum takes out first.
Some(S) == CHOOSE x \in S : TRUE

\* s gives the partial sums of f over the subsets of S.
PartialSums(f, S, s) ==
    s = [R \in SUBSET S |-> IF R = {} THEN 0 ELSE f[Some(R)] + s[R \ {Some(R)}]]

\* A sum is the last of the partial sums.
LEMMA SumByPartialSums ==
    ASSUME NEW f, NEW S
    PROVE  SumFunctionOnSet(f, S) = (CHOOSE s : PartialSums(f, S, s))[S]
BY DEF SumFunctionOnSet, FoldFunctionOnSet, MapThenFoldSet, PartialSums, Some

\* Some takes an element of the set.
LEMMA SomeIn == ASSUME NEW S, S # {} PROVE Some(S) \in S
BY DEF Some

\* Partial sums over two sets agree on the sets both have.
LEMMA PartialSumsAgree ==
    ASSUME NEW D, IsFiniteSet(D), NEW f, NEW S \in SUBSET D, NEW T \in SUBSET S,
           NEW s, PartialSums(f, S, s), NEW t, PartialSums(f, T, t)
    PROVE  s[T] = t[T]
<1> DEFINE Differ == {R \in SUBSET T : s[R] # t[R]}
<1>1. SUFFICES ASSUME Differ # {} PROVE FALSE
  BY <1>1
<1>2. Differ \in SUBSET SUBSET D
  OBVIOUS
<1>3. PICK R \in Differ : \A Q \in SUBSET R : Q # R => Q \notin Differ
  <2> HIDE DEF Differ
  <2> QED
    BY <1>1, <1>2, SmallestSet
<1>4. R \in SUBSET S /\ R \in SUBSET T /\ s[R] # t[R]
  BY <1>3
<1>5. /\ s[R] = IF R = {} THEN 0 ELSE f[Some(R)] + s[R \ {Some(R)}]
      /\ t[R] = IF R = {} THEN 0 ELSE f[Some(R)] + t[R \ {Some(R)}]
  BY <1>4 DEF PartialSums
<1>6. R # {}
  BY <1>4, <1>5
<1>7. R \ {Some(R)} \notin Differ
  <2>1. R \ {Some(R)} \in SUBSET R /\ R \ {Some(R)} # R
    BY <1>6, SomeIn
  <2> QED
    BY <2>1, <1>3
<1>8. s[R \ {Some(R)}] = t[R \ {Some(R)}]
  BY <1>7, <1>4
<1> QED
  BY <1>4, <1>5, <1>8

\* Every finite set has its partial sums.
LEMMA PartialSumsExist ==
    ASSUME NEW S, IsFiniteSet(S), NEW f
    PROVE  \E s : PartialSums(f, S, s)
<1> DEFINE Without == {R \in SUBSET S : ~ \E s : PartialSums(f, R, s)}
<1>1. SUFFICES ASSUME Without # {} PROVE FALSE
  BY <1>1
<1>2. PICK R \in Without : \A Q \in SUBSET R : Q # R => Q \notin Without
  <2>1. Without \in SUBSET SUBSET S
    OBVIOUS
  <2> HIDE DEF Without
  <2> QED
    BY <1>1, <2>1, SmallestSet
<1> DEFINE Sum(Q) == (CHOOSE s : PartialSums(f, Q, s))[Q]
           r == [Q \in SUBSET R |-> IF Q = {} THEN 0 ELSE f[Some(Q)] + Sum(Q \ {Some(Q)})]
<1>3. ASSUME NEW Q \in SUBSET R, Q # R PROVE Sum(Q) = r[Q]
  <2>1. Q \in SUBSET S /\ \E s : PartialSums(f, Q, s)
    BY <1>2, <1>3
  <2> DEFINE s == CHOOSE s : PartialSums(f, Q, s)
  <2>2. PartialSums(f, Q, s)
    BY <2>1
  <2>3. s[Q] = IF Q = {} THEN 0 ELSE f[Some(Q)] + s[Q \ {Some(Q)}]
    BY <2>2 DEF PartialSums
  <2>4. CASE Q = {}
    BY <2>3, <2>4
  <2>5. CASE Q # {}
    <3> DEFINE P == Q \ {Some(Q)}
               q == CHOOSE q : PartialSums(f, P, q)
    <3>1. P \in SUBSET Q /\ P \in SUBSET R /\ P # R /\ P \in SUBSET S
      BY <2>1, <2>5, SomeIn
    <3>2. PartialSums(f, P, q)
      BY <3>1, <1>2
    <3>3. s[P] = q[P]
      <4> HIDE DEF P, s, q
      <4> QED
        BY <2>1, <2>2, <3>1, <3>2, PartialSumsAgree
    <3> QED
      BY <2>3, <2>5, <3>3
  <2> QED
    BY <2>4, <2>5
<1>4. PartialSums(f, R, r)
  <2>1. ASSUME NEW Q \in SUBSET R, Q # {} PROVE Sum(Q \ {Some(Q)}) = r[Q \ {Some(Q)}]
    <3>1. Q \ {Some(Q)} \in SUBSET R /\ Q \ {Some(Q)} # R
      BY <2>1, SomeIn
    <3> HIDE DEF Sum, r
    <3> QED
      BY <3>1, <1>3
  <2> DEFINE before(Q) == IF Q = {} THEN 0 ELSE f[Some(Q)] + Sum(Q \ {Some(Q)})
             after(Q) == IF Q = {} THEN 0 ELSE f[Some(Q)] + r[Q \ {Some(Q)}]
  <2>2. r = [Q \in SUBSET R |-> before(Q)]
    OBVIOUS
  <2>3. r = [Q \in SUBSET R |-> after(Q)]
    <3> HIDE DEF r, Sum
    <3>1. ASSUME NEW Q \in SUBSET R PROVE before(Q) = after(Q)
      BY <2>1
    <3> HIDE DEF before, after
    <3> QED
      BY <2>2, <3>1
  <2> HIDE DEF r
  <2> QED
    BY <2>3 DEF PartialSums
<1> HIDE DEF r
<1> QED
  BY <1>2, <1>4

\* A sum is the element that is taken out first and the sum of the others.
LEMMA SumUnfold ==
    ASSUME NEW S, IsFiniteSet(S), NEW f
    PROVE  SumFunctionOnSet(f, S) =
               IF S = {} THEN 0 ELSE f[Some(S)] + SumFunctionOnSet(f, S \ {Some(S)})
<1> DEFINE s == CHOOSE s : PartialSums(f, S, s)
<1>1. PartialSums(f, S, s)
  BY PartialSumsExist
<1>2. SumFunctionOnSet(f, S) = s[S]
  BY SumByPartialSums
<1>3. s[S] = IF S = {} THEN 0 ELSE f[Some(S)] + s[S \ {Some(S)}]
  BY <1>1 DEF PartialSums
<1>4. CASE S # {}
  <2> DEFINE R == S \ {Some(S)}
             r == CHOOSE r : PartialSums(f, R, r)
  <2>1. R \in SUBSET S /\ IsFiniteSet(R)
    BY FS_Subset
  <2> HIDE DEF R, s
  <2>2. PartialSums(f, R, r)
    BY <2>1, PartialSumsExist
  <2>3. SumFunctionOnSet(f, R) = r[R]
    BY SumByPartialSums
  <2>4. s[R] = r[R]
    <3> HIDE DEF r
    <3> QED
      BY <1>1, <2>1, <2>2, PartialSumsAgree
  <2> QED
    BY <1>2, <1>3, <1>4, <2>3, <2>4 DEF R
<1> QED
  BY <1>2, <1>3, <1>4

-----------------------------------------------------------------------------
(* What the proofs below use of sums.                                      *)

\* The sum of integers is an integer.
LEMMA SumInt ==
    ASSUME NEW S, IsFiniteSet(S), NEW f, \A x \in S : f[x] \in Int
    PROVE  SumFunctionOnSet(f, S) \in Int
<1> DEFINE Bad == {R \in SUBSET S : SumFunctionOnSet(f, R) \notin Int}
<1>1. SUFFICES ASSUME Bad # {} PROVE FALSE
  BY <1>1
<1>2. PICK R \in Bad : \A Q \in SUBSET R : Q # R => Q \notin Bad
  <2>1. Bad \in SUBSET SUBSET S
    OBVIOUS
  <2> HIDE DEF Bad
  <2> QED
    BY <1>1, <2>1, SmallestSet
<1>3. IsFiniteSet(R) /\ R \in SUBSET S /\ SumFunctionOnSet(f, R) \notin Int
  BY <1>2, FS_Subset
<1>4. CASE R = {}
  BY <1>3, <1>4, SumUnfold
<1>5. CASE R # {}
  <2>1. R \ {Some(R)} \in SUBSET R /\ R \ {Some(R)} # R /\ f[Some(R)] \in Int
    BY <1>3, <1>5, SomeIn
  <2>2. SumFunctionOnSet(f, R \ {Some(R)}) \in Int
    BY <1>2, <1>3, <2>1
  <2>3. SumFunctionOnSet(f, R) = f[Some(R)] + SumFunctionOnSet(f, R \ {Some(R)})
    BY <1>3, <1>5, SumUnfold
  <2> QED
    BY <1>3, <2>1, <2>2, <2>3
<1> QED
  BY <1>4, <1>5

\* Products distribute over a sum of two.
LEMMA Distribute ==
    ASSUME NEW a \in Int, NEW b \in Int, NEW x \in Int, NEW y \in Int,
           NEW X \in Int, NEW Y \in Int
    PROVE  (a * x + b * y) + (a * X + b * Y) = a * (x + X) + b * (y + Y)
OBVIOUS

\* A sum of combinations is the combination of the sums.
LEMMA SumLinear ==
    ASSUME NEW S, IsFiniteSet(S), NEW a \in Int, NEW b \in Int, NEW f, NEW g, NEW h,
           \A x \in S : f[x] \in Int /\ g[x] \in Int /\ h[x] = a * f[x] + b * g[x]
    PROVE  SumFunctionOnSet(h, S) = a * SumFunctionOnSet(f, S) + b * SumFunctionOnSet(g, S)
<1> DEFINE Good(R) == SumFunctionOnSet(h, R) =
                          a * SumFunctionOnSet(f, R) + b * SumFunctionOnSet(g, R)
           Bad == {R \in SUBSET S : ~Good(R)}
<1>1. SUFFICES ASSUME Bad # {} PROVE FALSE
  BY <1>1
<1>2. PICK R \in Bad : \A Q \in SUBSET R : Q # R => Q \notin Bad
  <2>1. Bad \in SUBSET SUBSET S
    OBVIOUS
  <2> HIDE DEF Bad
  <2> QED
    BY <1>1, <2>1, SmallestSet
<1>3. IsFiniteSet(R) /\ R \in SUBSET S /\ ~Good(R)
  BY <1>2, FS_Subset
<1>4. CASE R = {}
  <2>1. /\ SumFunctionOnSet(h, R) = 0
        /\ SumFunctionOnSet(f, R) = 0
        /\ SumFunctionOnSet(g, R) = 0
    BY <1>3, <1>4, SumUnfold
  <2> QED
    BY <1>3, <2>1
<1>5. CASE R # {}
  <2> DEFINE Q == R \ {Some(R)}
  <2>1. Q \in SUBSET R /\ Q # R /\ Some(R) \in S
    BY <1>3, <1>5, SomeIn
  <2>2. /\ SumFunctionOnSet(f, R) = f[Some(R)] + SumFunctionOnSet(f, Q)
        /\ SumFunctionOnSet(g, R) = g[Some(R)] + SumFunctionOnSet(g, Q)
        /\ SumFunctionOnSet(h, R) = h[Some(R)] + SumFunctionOnSet(h, Q)
    BY <1>3, <1>5, SumUnfold
  <2>3. IsFiniteSet(Q) /\ Q \in SUBSET S
    BY <1>3, <2>1, FS_Subset
  <2>4. Good(Q)
    BY <1>2, <2>1, <2>3
  <2>5. SumFunctionOnSet(f, Q) \in Int /\ SumFunctionOnSet(g, Q) \in Int
    BY <2>3, SumInt
  <2> HIDE DEF Q
  <2>6. Good(R)
    BY <2>1, <2>2, <2>4, <2>5, Distribute
  <2> QED
    BY <1>3, <2>6
<1> QED
  BY <1>4, <1>5

\* A sum of multiples is the multiple of the sum.
LEMMA SumScaled ==
    ASSUME NEW S, IsFiniteSet(S), NEW a \in Int, NEW f, NEW h,
           \A x \in S : f[x] \in Int /\ h[x] = a * f[x]
    PROVE  SumFunctionOnSet(h, S) = a * SumFunctionOnSet(f, S)
<1>1. \A x \in S : f[x] \in Int /\ h[x] = a * f[x] + 0 * f[x]
  OBVIOUS
<1>2. SumFunctionOnSet(h, S) = a * SumFunctionOnSet(f, S) + 0 * SumFunctionOnSet(f, S)
  BY <1>1, SumLinear
<1>3. SumFunctionOnSet(f, S) \in Int
  BY SumInt
<1> QED
  BY <1>2, <1>3

\* A sum of equal terms.
LEMMA SumConstant ==
    ASSUME NEW S, IsFiniteSet(S), NEW c \in Int, NEW f, \A x \in S : f[x] = c
    PROVE  SumFunctionOnSet(f, S) = c * Cardinality(S)
<1> DEFINE Bad == {R \in SUBSET S : SumFunctionOnSet(f, R) # c * Cardinality(R)}
<1>1. SUFFICES ASSUME Bad # {} PROVE FALSE
  BY <1>1
<1>2. PICK R \in Bad : \A Q \in SUBSET R : Q # R => Q \notin Bad
  <2>1. Bad \in SUBSET SUBSET S
    OBVIOUS
  <2> HIDE DEF Bad
  <2> QED
    BY <1>1, <2>1, SmallestSet
<1>3. IsFiniteSet(R) /\ R \in SUBSET S /\ SumFunctionOnSet(f, R) # c * Cardinality(R)
  BY <1>2, FS_Subset
<1>4. CASE R = {}
  <2>1. SumFunctionOnSet(f, R) = 0 /\ Cardinality(R) = 0
    BY <1>3, <1>4, SumUnfold, FS_EmptySet
  <2> QED
    BY <1>3, <2>1
<1>5. CASE R # {}
  <2> DEFINE Q == R \ {Some(R)}
  <2>1. Q \in SUBSET R /\ Q # R /\ Some(R) \in R /\ Q \in SUBSET S
    BY <1>3, <1>5, SomeIn
  <2>2. SumFunctionOnSet(f, R) = c + SumFunctionOnSet(f, Q)
    BY <1>3, <1>5, <2>1, SumUnfold
  <2>3. /\ Cardinality(R) \in Nat
        /\ Cardinality(Q) \in Nat
        /\ Cardinality(Q) = Cardinality(R) - 1
    BY <1>3, <2>1, FS_RemoveElement, FS_CardinalityType
  <2>4. SumFunctionOnSet(f, Q) = c * Cardinality(Q)
    BY <1>2, <2>1
  <2> HIDE DEF Q
  <2>5. c + c * (Cardinality(R) - 1) = c * Cardinality(R)
    BY <2>3
  <2> QED
    BY <1>3, <2>2, <2>3, <2>4, <2>5
<1> QED
  BY <1>4, <1>5

\* A sum of natural numbers is one, and is 0 only when all of them are.
LEMMA SumNat ==
    ASSUME NEW S, IsFiniteSet(S), NEW f, \A x \in S : f[x] \in Nat
    PROVE  /\ SumFunctionOnSet(f, S) \in Nat
           /\ SumFunctionOnSet(f, S) = 0 => \A x \in S : f[x] = 0
<1> DEFINE Good(R) == /\ SumFunctionOnSet(f, R) \in Nat
                      /\ SumFunctionOnSet(f, R) = 0 => \A x \in R : f[x] = 0
           Bad == {R \in SUBSET S : ~Good(R)}
<1>1. SUFFICES ASSUME Bad # {} PROVE FALSE
  BY <1>1
<1>2. PICK R \in Bad : \A Q \in SUBSET R : Q # R => Q \notin Bad
  <2>1. Bad \in SUBSET SUBSET S
    OBVIOUS
  <2> HIDE DEF Bad
  <2> QED
    BY <1>1, <2>1, SmallestSet
<1>3. IsFiniteSet(R) /\ R \in SUBSET S /\ ~Good(R)
  BY <1>2, FS_Subset
<1>4. CASE R = {}
  BY <1>3, <1>4, SumUnfold
<1>5. CASE R # {}
  <2> DEFINE Q == R \ {Some(R)}
  <2>1. Q \in SUBSET R /\ Q # R /\ Some(R) \in R /\ R = Q \cup {Some(R)}
    BY <1>3, <1>5, SomeIn
  <2>2. SumFunctionOnSet(f, R) = f[Some(R)] + SumFunctionOnSet(f, Q)
    BY <1>3, <1>5, SumUnfold
  <2>3. Good(Q)
    BY <1>2, <1>3, <2>1
  <2> HIDE DEF Q
  <2>4. f[Some(R)] \in Nat
    BY <1>3, <2>1
  <2>5. /\ SumFunctionOnSet(f, R) \in Nat
        /\ SumFunctionOnSet(f, R) = 0 => f[Some(R)] = 0 /\ SumFunctionOnSet(f, Q) = 0
    BY <2>2, <2>3, <2>4
  <2>6. Good(R)
    BY <2>1, <2>3, <2>5
  <2> QED
    BY <1>3, <2>6
<1> QED
  BY <1>4, <1>5

-----------------------------------------------------------------------------
(* The sums of the regression, by name.                                    *)

Windows == Seq([t : Int, x : Int])

Offsets(w, ref)       == [l \in Valid(w) |-> w[l].t - w[ref].t]
Points(w)             == [l \in Valid(w) |-> w[l].x]
OffsetSquares(w, ref) == [l \in Valid(w) |-> (w[l].t - w[ref].t) * (w[l].t - w[ref].t)]
OffsetPoints(w, ref)  == [l \in Valid(w) |-> (w[l].t - w[ref].t) * w[l].x]

Count(w) == Cardinality(Valid(w))
SumT(w, ref)  == SumFunctionOnSet(Offsets(w, ref), Valid(w))
SumX(w)       == SumFunctionOnSet(Points(w), Valid(w))
SumTT(w, ref) == SumFunctionOnSet(OffsetSquares(w, ref), Valid(w))
SumTX(w, ref) == SumFunctionOnSet(OffsetPoints(w, ref), Valid(w))
Denom(w, ref) == Count(w) * SumTT(w, ref) - SumT(w, ref) * SumT(w, ref)
Rise(w, ref)  == Count(w) * SumTX(w, ref) - SumT(w, ref) * SumX(w)

\* What a sequence holds.
LEMMA SeqElement ==
    ASSUME NEW S, NEW s \in Seq(S), NEW k \in DOMAIN s
    PROVE  s[k] \in S
OBVIOUS

\* The readings of a window.
LEMMA ReadingType ==
    ASSUME NEW w \in Windows, NEW k \in DOMAIN w
    PROVE  w[k].t \in Int /\ w[k].x \in Int
<1>1. w[k] \in [t : Int, x : Int]
  BY SeqElement DEF Windows
<1> QED
  BY <1>1

\* The function in terms of these sums.
LEMMA Slope ==
    ASSUME NEW w \in Windows, NEW ref
    PROVE  LinearRegressionSlope(w, ref) =
               IF Len(w) < 2 \/ Count(w) < 2 \/ Denom(w, ref) = 0
               THEN NoLine
               ELSE [slope     |-> Count(w) * Rise(w, ref),
                     intercept |-> SumX(w) * Denom(w, ref) - Rise(w, ref) * SumT(w, ref),
                     den       |-> Count(w) * Denom(w, ref)]
<1>1. /\ DOMAIN Offsets(w, ref) = Valid(w)
      /\ DOMAIN Points(w) = Valid(w)
      /\ DOMAIN OffsetSquares(w, ref) = Valid(w)
      /\ DOMAIN OffsetPoints(w, ref) = Valid(w)
  BY DEF Offsets, Points, OffsetSquares, OffsetPoints
<1>2. /\ SumFunction(Offsets(w, ref)) = SumT(w, ref)
      /\ SumFunction(Points(w)) = SumX(w)
      /\ SumFunction(OffsetSquares(w, ref)) = SumTT(w, ref)
      /\ SumFunction(OffsetPoints(w, ref)) = SumTX(w, ref)
  BY <1>1 DEF SumFunction, SumT, SumX, SumTT, SumTX
<1>3. LinearRegressionSlope(w, ref) =
          LET n     == Cardinality(Valid(w))
              sumT  == SumFunction(Offsets(w, ref))
              sumX  == SumFunction(Points(w))
              sumTT == SumFunction(OffsetSquares(w, ref))
              sumTX == SumFunction(OffsetPoints(w, ref))
              denom == n * sumTT - sumT * sumT
              a     == n * sumTX - sumT * sumX
          IN  IF Len(w) < 2 \/ n < 2 \/ denom = 0
              THEN NoLine
              ELSE [slope     |-> n * a,
                    intercept |-> sumX * denom - a * sumT,
                    den       |-> n * denom]
  BY DEF LinearRegressionSlope, Offsets, Points, OffsetSquares, OffsetPoints
<1> QED
  BY <1>2, <1>3 DEF Count, Denom, Rise

\* The valid readings are finitely many, and the sums over them are integers.
LEMMA SumTypes ==
    ASSUME NEW w \in Windows, NEW ref \in DOMAIN w
    PROVE  /\ IsFiniteSet(Valid(w))
           /\ Count(w) \in Nat
           /\ \A l \in Valid(w) : /\ Offsets(w, ref)[l] \in Int
                                  /\ Points(w)[l] \in Int
                                  /\ OffsetSquares(w, ref)[l] \in Int
                                  /\ OffsetPoints(w, ref)[l] \in Int
           /\ SumT(w, ref) \in Int
           /\ SumX(w) \in Int
           /\ SumTT(w, ref) \in Int
           /\ SumTX(w, ref) \in Int
           /\ Denom(w, ref) \in Int
           /\ Rise(w, ref) \in Int
<1>1. IsFiniteSet(DOMAIN w) /\ Valid(w) \in SUBSET DOMAIN w
  BY FS_Interval DEF Windows, Valid
<1>2. IsFiniteSet(Valid(w)) /\ Count(w) \in Nat
  BY <1>1, FS_Subset, FS_CardinalityType DEF Count
<1>3. \A l \in DOMAIN w : w[l].t \in Int /\ w[l].x \in Int
  BY ReadingType
<1>4. ASSUME NEW l \in Valid(w)
      PROVE  /\ Offsets(w, ref)[l] \in Int
             /\ Points(w)[l] \in Int
             /\ OffsetSquares(w, ref)[l] \in Int
             /\ OffsetPoints(w, ref)[l] \in Int
  <2>1. w[l].t - w[ref].t \in Int /\ w[l].x \in Int
    BY <1>1, <1>3
  <2> QED
    BY <2>1 DEF Offsets, Points, OffsetSquares, OffsetPoints
<1>5. /\ SumT(w, ref) \in Int
      /\ SumX(w) \in Int
      /\ SumTT(w, ref) \in Int
      /\ SumTX(w, ref) \in Int
  BY <1>2, <1>4, SumInt DEF SumT, SumX, SumTT, SumTX
<1>6. Denom(w, ref) \in Int /\ Rise(w, ref) \in Int
  BY <1>2, <1>5 DEF Denom, Rise
<1> QED
  BY <1>2, <1>4, <1>5, <1>6

\* A line is made of integers.
LEMMA LineType ==
    ASSUME NEW w \in Windows, NEW ref \in DOMAIN w
    PROVE  LinearRegressionSlope(w, ref) \in [slope : Int, intercept : Int, den : Int]
<1>1. /\ Count(w) * Rise(w, ref) \in Int
      /\ SumX(w) * Denom(w, ref) - Rise(w, ref) * SumT(w, ref) \in Int
      /\ Count(w) * Denom(w, ref) \in Int
  BY SumTypes
<1> QED
  BY <1>1, Slope DEF NoLine

-----------------------------------------------------------------------------
(* The line.                                                               *)

\* What a square of a difference comes to.
LEMMA SquareOfDifference ==
    ASSUME NEW n \in Int, NEW s \in Int, NEW t \in Int
    PROVE  (n * t - s) * (n * t - s) = (n * n) * (t * t) + (1 * (s * s) + (-2 * n * s) * t)
OBVIOUS

\* A square is a natural number, and is 0 only if its root is.
LEMMA SquareNat ==
    ASSUME NEW d \in Int
    PROVE  d * d \in Nat /\ (d * d = 0 => d = 0)
<1>1. CASE d >= 0
  BY <1>1
<1>2. CASE d < 0
  BY <1>2
<1> QED
  BY <1>1, <1>2

\* The denominator is what the squared deviations of the times add up to, over n.
LEMMA DenomIsVariance ==
    ASSUME NEW w \in Windows, NEW ref \in DOMAIN w,
           NEW f, \A l \in Valid(w) : f[l] = (Count(w) * Offsets(w, ref)[l] - SumT(w, ref))
                                             * (Count(w) * Offsets(w, ref)[l] - SumT(w, ref))
    PROVE  SumFunctionOnSet(f, Valid(w)) = Count(w) * Denom(w, ref)
<1> DEFINE n == Count(w)
           s == SumT(w, ref)
           c == [l \in Valid(w) |-> s * s]
           g == [l \in Valid(w) |-> 1 * (s * s) + (-2 * n * s) * Offsets(w, ref)[l]]
<1>1. /\ IsFiniteSet(Valid(w)) /\ n \in Nat /\ s \in Int
      /\ SumTT(w, ref) \in Int
      /\ \A l \in Valid(w) : Offsets(w, ref)[l] \in Int /\ OffsetSquares(w, ref)[l] \in Int
  BY SumTypes
<1>2. s * s \in Int /\ -2 * n * s \in Int /\ n * n \in Int
  BY <1>1
<1>3. SumFunctionOnSet(c, Valid(w)) = (s * s) * n
  <2>1. \A l \in Valid(w) : c[l] = s * s
    OBVIOUS
  <2> HIDE DEF c, s
  <2> QED
    BY <1>1, <1>2, <2>1, SumConstant DEF Count
<1>4. SumFunctionOnSet(g, Valid(w)) = 1 * ((s * s) * n) + (-2 * n * s) * s
  <2>1. \A l \in Valid(w) : /\ c[l] \in Int
                            /\ Offsets(w, ref)[l] \in Int
                            /\ g[l] = 1 * c[l] + (-2 * n * s) * Offsets(w, ref)[l]
    BY <1>1, <1>2
  <2>2. SumFunctionOnSet(g, Valid(w)) =
            1 * SumFunctionOnSet(c, Valid(w)) + (-2 * n * s) * SumFunctionOnSet(Offsets(w, ref), Valid(w))
    <3> HIDE DEF c, g, n, s
    <3> QED
      BY <1>1, <1>2, <2>1, SumLinear
  <2> QED
    BY <1>3, <2>2 DEF SumT
<1>5. SumFunctionOnSet(f, Valid(w)) =
          (n * n) * SumTT(w, ref) + 1 * (1 * ((s * s) * n) + (-2 * n * s) * s)
  <2>1. ASSUME NEW l \in Valid(w)
        PROVE  /\ OffsetSquares(w, ref)[l] \in Int
               /\ g[l] \in Int
               /\ f[l] = (n * n) * OffsetSquares(w, ref)[l] + 1 * g[l]
    <3>1. Offsets(w, ref)[l] \in Int /\ g[l] = 1 * (s * s) + (-2 * n * s) * Offsets(w, ref)[l]
      BY <1>1
    <3>2. g[l] \in Int
      BY <1>2, <3>1
    <3>3. OffsetSquares(w, ref)[l] = Offsets(w, ref)[l] * Offsets(w, ref)[l]
      BY DEF Offsets, OffsetSquares
    <3>4. f[l] = (n * n) * (Offsets(w, ref)[l] * Offsets(w, ref)[l])
                     + (1 * (s * s) + (-2 * n * s) * Offsets(w, ref)[l])
      <4> HIDE DEF n, s, g, c
      <4> QED
        BY <1>1, <3>1, SquareOfDifference DEF n, s
    <3> QED
      BY <1>1, <3>1, <3>2, <3>3, <3>4
  <2>2. SumFunctionOnSet(f, Valid(w)) =
            (n * n) * SumFunctionOnSet(OffsetSquares(w, ref), Valid(w)) + 1 * SumFunctionOnSet(g, Valid(w))
    <3> HIDE DEF c, g, n, s
    <3> QED
      BY <1>1, <1>2, <2>1, SumLinear
  <2> QED
    BY <1>4, <2>2 DEF SumTT
<1> HIDE DEF n, s
<1>6. (n * n) * SumTT(w, ref) + 1 * (1 * ((s * s) * n) + (-2 * n * s) * s)
          = n * (n * SumTT(w, ref) - s * s)
  BY <1>1
<1> QED
  BY <1>5, <1>6 DEF Denom, n, s

\* Valid readings at two different times.
TwoTimes(w) == \E l, m \in Valid(w) : w[l].t # w[m].t

\* The denominator is positive with two times.
LEMMA TwoTimesDenom ==
    ASSUME NEW w \in Windows, NEW ref \in DOMAIN w, TwoTimes(w)
    PROVE  Count(w) >= 2 /\ Denom(w, ref) > 0
<1> DEFINE n == Count(w)
           s == SumT(w, ref)
           d == [l \in Valid(w) |-> n * Offsets(w, ref)[l] - s]
           f == [l \in Valid(w) |-> d[l] * d[l]]
<1>1. /\ IsFiniteSet(Valid(w)) /\ n \in Nat /\ s \in Int
      /\ Denom(w, ref) \in Int
      /\ \A l \in Valid(w) : Offsets(w, ref)[l] \in Int
  BY SumTypes
<1>2. PICK l \in Valid(w), m \in Valid(w) : w[l].t # w[m].t
  BY DEF TwoTimes
<1>3. n >= 2
  <2>1. Cardinality({l, m}) = 2 /\ {l, m} \in SUBSET Valid(w)
    <3>1. IsFiniteSet({l}) /\ Cardinality({l}) = 1 /\ m \notin {l}
      BY <1>2, FS_Singleton
    <3>2. {l, m} = {l} \cup {m}
      OBVIOUS
    <3> QED
      BY <3>1, <3>2, FS_AddElement
  <2> QED
    BY <1>1, <2>1, FS_Subset DEF Count
<1>4. ASSUME NEW k \in Valid(w)
      PROVE  d[k] \in Int /\ f[k] \in Nat /\ (f[k] = 0 => d[k] = 0)
  <2>1. d[k] \in Int
    BY <1>1
  <2>2. f[k] = d[k] * d[k]
    OBVIOUS
  <2> QED
    BY <2>1, <2>2, SquareNat
<1>5. SumFunctionOnSet(f, Valid(w)) = n * Denom(w, ref)
  <2> HIDE DEF n, s
  <2>1. \A k \in Valid(w) : f[k] = (n * Offsets(w, ref)[k] - s) * (n * Offsets(w, ref)[k] - s)
    OBVIOUS
  <2> HIDE DEF f
  <2> QED
    BY <2>1, DenomIsVariance DEF n, s
<1>6. f[l] # 0 \/ f[m] # 0
  <2>1. SUFFICES ASSUME f[l] = 0, f[m] = 0 PROVE FALSE
    BY <2>1
  <2>2. n * Offsets(w, ref)[l] - s = 0 /\ n * Offsets(w, ref)[m] - s = 0
    BY <1>4, <2>1
  <2>3. Offsets(w, ref)[l] # Offsets(w, ref)[m]
    <3>1. ref \in DOMAIN w /\ l \in DOMAIN w /\ m \in DOMAIN w
      BY DEF Valid
    <3>2. w[ref].t \in Int /\ w[l].t \in Int /\ w[m].t \in Int
      BY <3>1, ReadingType
    <3> QED
      BY <1>2, <3>2 DEF Offsets
  <2> HIDE DEF n, s
  <2>4. n * (Offsets(w, ref)[l] - Offsets(w, ref)[m]) = 0
    BY <1>1, <2>2
  <2>5. Offsets(w, ref)[l] - Offsets(w, ref)[m] \in Int /\ Offsets(w, ref)[l] - Offsets(w, ref)[m] # 0
    BY <1>1, <2>3
  <2> QED
    BY <1>1, <1>3, <2>4, <2>5
<1>7. n * Denom(w, ref) \in Nat /\ n * Denom(w, ref) # 0
  <2> HIDE DEF f, d, n
  <2> QED
    BY <1>1, <1>4, <1>5, <1>6, SumNat
<1> HIDE DEF n
<1>8. Denom(w, ref) > 0
  BY <1>1, <1>3, <1>7
<1> QED
  BY <1>3, <1>8 DEF n

\* It is 0 without.
LEMMA OneTimeDenom ==
    ASSUME NEW w \in Windows, NEW ref \in DOMAIN w, ~TwoTimes(w)
    PROVE  Denom(w, ref) = 0
<1>1. /\ IsFiniteSet(Valid(w)) /\ Count(w) \in Nat
      /\ \A l \in Valid(w) : Offsets(w, ref)[l] \in Int /\ OffsetSquares(w, ref)[l] \in Int
  BY SumTypes
<1>2. CASE Valid(w) = {}
  <2>1. SumT(w, ref) = 0 /\ SumTT(w, ref) = 0 /\ Count(w) = 0
    BY <1>1, <1>2, SumUnfold, FS_EmptySet DEF SumT, SumTT, Count
  <2> QED
    BY <2>1 DEF Denom
<1>3. CASE Valid(w) # {}
  <2>1. PICK m \in Valid(w) : TRUE
    BY <1>3
  <2> DEFINE t == Offsets(w, ref)[m]
  <2>2. t \in Int /\ t * t \in Int
    BY <1>1
  <2>3. ASSUME NEW l \in Valid(w) PROVE Offsets(w, ref)[l] = t /\ OffsetSquares(w, ref)[l] = t * t
    <3>1. w[l].t = w[m].t
      BY DEF TwoTimes
    <3> QED
      BY <3>1 DEF Offsets, OffsetSquares
  <2> HIDE DEF t
  <2>4. SumT(w, ref) = t * Count(w)
    BY <1>1, <2>2, <2>3, SumConstant DEF SumT, Count
  <2>5. SumTT(w, ref) = (t * t) * Count(w)
    BY <1>1, <2>2, <2>3, SumConstant DEF SumTT, Count
  <2>6. Count(w) * ((t * t) * Count(w)) - (t * Count(w)) * (t * Count(w)) = 0
    BY <1>1, <2>2
  <2> QED
    BY <2>4, <2>5, <2>6 DEF Denom
<1> QED
  BY <1>2, <1>3

\* The residuals of the line add up to zero.
LEMMA ResidualsCancel ==
    ASSUME NEW n \in Int, NEW d \in Int, NEW a \in Int, NEW sT \in Int, NEW sX \in Int,
           NEW den, den = n * d, NEW slope, slope = n * a, NEW b, b = sX * d - a * sT
    PROVE  den * sX + (-1) * (slope * sT + b * n) = 0
OBVIOUS

\* And so do the residuals weighted with the times.
LEMMA WeightedResidualsCancel ==
    ASSUME NEW n \in Int, NEW sT \in Int, NEW sX \in Int, NEW sTT \in Int, NEW sTX \in Int,
           NEW d \in Int, d = n * sTT - sT * sT,
           NEW a \in Int, a = n * sTX - sT * sX
    PROVE  (n * d) * sTX + (-1) * ((n * a) * sTT + (sX * d - a * sT) * sT) = 0
<1>1. /\ d * a = d * (n * sTX) - d * (sT * sX)
      /\ a * d = a * (n * sTT) - a * (sT * sT)
  OBVIOUS
<1>2. /\ (n * d) * sTX = d * (n * sTX)
      /\ (n * a) * sTT = a * (n * sTT)
      /\ (sX * d - a * sT) * sT = d * (sT * sX) - a * (sT * sT)
  OBVIOUS
<1>3. d * a = a * d
  OBVIOUS
<1>4. /\ d * (n * sTX) \in Int /\ d * (sT * sX) \in Int
      /\ a * (n * sTT) \in Int /\ a * (sT * sT) \in Int
  OBVIOUS
<1> QED
  BY <1>1, <1>2, <1>3, <1>4

\* A value times a line's residual, in the order of the sums.
LEMMA ResidualTerm ==
    ASSUME NEW t \in Int, NEW x \in Int, NEW v \in Int, NEW b \in Int, NEW d \in Int
    PROVE  /\ x * d - (v * t + b) = d * x + (-1) * (v * t + b * 1)
           /\ t * (x * d - (v * t + b)) = d * (t * x) + (-1) * (v * (t * t) + b * t)
OBVIOUS

\* With two times the function returns a line, and both sums of residuals are zero.
LEMMA LineIsLeastSquares ==
    ASSUME NEW w \in Windows, NEW ref \in DOMAIN w, TwoTimes(w),
           NEW line, line = LinearRegressionSlope(w, ref),
           NEW r, r = [l \in Valid(w) |-> Points(w)[l] * line.den - At(line, Offsets(w, ref)[l])],
           NEW q, q = [l \in Valid(w) |-> Offsets(w, ref)[l] * r[l]]
    PROVE  /\ line.den > 0
           /\ SumFunctionOnSet(r, Valid(w)) = 0
           /\ SumFunctionOnSet(q, Valid(w)) = 0
<1> DEFINE n == Count(w)
           d == Denom(w, ref)
           a == Rise(w, ref)
           sT == SumT(w, ref)
           sX == SumX(w)
           den == n * d
           slope == n * a
           b == sX * d - a * sT
           one == [l \in Valid(w) |-> 1]
           g == [l \in Valid(w) |-> slope * Offsets(w, ref)[l] + b * one[l]]
           h == [l \in Valid(w) |-> slope * OffsetSquares(w, ref)[l] + b * Offsets(w, ref)[l]]
<1>1. /\ IsFiniteSet(Valid(w)) /\ n \in Nat /\ sT \in Int /\ sX \in Int
      /\ SumTT(w, ref) \in Int /\ SumTX(w, ref) \in Int
      /\ d \in Int /\ a \in Int
      /\ \A l \in Valid(w) : /\ Offsets(w, ref)[l] \in Int
                             /\ Points(w)[l] \in Int
                             /\ OffsetSquares(w, ref)[l] \in Int
                             /\ OffsetPoints(w, ref)[l] \in Int
  BY SumTypes
<1>2. n >= 2 /\ d > 0
  BY TwoTimesDenom
<1>3. line = [slope |-> slope, intercept |-> b, den |-> den]
  <2>1. Len(w) >= 2
    <3>1. Valid(w) \in SUBSET (1 .. Len(w)) /\ Len(w) \in Nat
      BY DEF Valid, Windows
    <3>2. IsFiniteSet(1 .. Len(w)) /\ Cardinality(1 .. Len(w)) = Len(w)
      BY <3>1, UpTo
    <3>3. n <= Len(w)
      BY <3>1, <3>2, FS_Subset DEF Count
    <3> QED
      BY <1>1, <1>2, <3>1, <3>3
  <2> HIDE DEF n, d, a, sT, sX
  <2>2. ~(Len(w) < 2 \/ n < 2 \/ d = 0)
    <3>1. Len(w) \in Nat
      BY DEF Windows
    <3> QED
      BY <1>1, <1>2, <2>1, <3>1
  <2> QED
    BY <2>2, Slope DEF n, d, a, sT, sX
<1>4. /\ den \in Int /\ slope \in Int /\ b \in Int /\ den > 0
      /\ line.den = den
      /\ \A t : At(line, t) = slope * t + b
  <2> HIDE DEF n, d, a, sT, sX
  <2> QED
    BY <1>1, <1>2, <1>3 DEF At
<1> HIDE DEF n, d, a, sT, sX, den, slope, b
<1>5. SumFunctionOnSet(one, Valid(w)) = n
  <2>1. \A l \in Valid(w) : one[l] = 1
    OBVIOUS
  <2> HIDE DEF one
  <2>2. SumFunctionOnSet(one, Valid(w)) = 1 * Count(w)
    BY <1>1, <2>1, SumConstant DEF Count
  <2> QED
    BY <1>1, <2>2 DEF n
<1>6. SumFunctionOnSet(g, Valid(w)) = slope * sT + b * n
  <2>1. \A l \in Valid(w) : /\ Offsets(w, ref)[l] \in Int /\ one[l] \in Int
                            /\ g[l] = slope * Offsets(w, ref)[l] + b * one[l]
    BY <1>1
  <2> HIDE DEF g, one
  <2>2. SumFunctionOnSet(g, Valid(w)) =
            slope * SumFunctionOnSet(Offsets(w, ref), Valid(w)) + b * SumFunctionOnSet(one, Valid(w))
    BY <1>1, <1>4, <2>1, SumLinear
  <2> QED
    BY <1>5, <2>2 DEF sT, SumT
<1>7. SumFunctionOnSet(h, Valid(w)) = slope * SumTT(w, ref) + b * sT
  <2>1. \A l \in Valid(w) : /\ OffsetSquares(w, ref)[l] \in Int /\ Offsets(w, ref)[l] \in Int
                            /\ h[l] = slope * OffsetSquares(w, ref)[l] + b * Offsets(w, ref)[l]
    BY <1>1
  <2> HIDE DEF h
  <2>2. SumFunctionOnSet(h, Valid(w)) =
            slope * SumFunctionOnSet(OffsetSquares(w, ref), Valid(w)) + b * SumFunctionOnSet(Offsets(w, ref), Valid(w))
    BY <1>1, <1>4, <2>1, SumLinear
  <2> QED
    BY <2>2 DEF sT, SumT, SumTT
<1>8. ASSUME NEW l \in Valid(w)
      PROVE  /\ g[l] \in Int
             /\ h[l] \in Int
             /\ r[l] = den * Points(w)[l] + (-1) * g[l]
             /\ q[l] = den * OffsetPoints(w, ref)[l] + (-1) * h[l]
  <2> DEFINE t == Offsets(w, ref)[l]
             x == Points(w)[l]
  <2>1. t \in Int /\ x \in Int
    BY <1>1
  <2>2. OffsetSquares(w, ref)[l] = t * t /\ OffsetPoints(w, ref)[l] = t * x
    BY DEF Offsets, Points, OffsetSquares, OffsetPoints
  <2>3. r[l] = x * den - (slope * t + b) /\ q[l] = t * r[l]
    BY <1>4
  <2>4. g[l] = slope * t + b * 1 /\ h[l] = slope * (t * t) + b * t
    BY <2>2
  <2> HIDE DEF t, x, g, h
  <2>5. g[l] \in Int /\ h[l] \in Int
    BY <1>4, <2>1, <2>4
  <2>6. /\ r[l] = den * x + (-1) * (slope * t + b * 1)
        /\ q[l] = den * (t * x) + (-1) * (slope * (t * t) + b * t)
    BY <1>4, <2>1, <2>3, ResidualTerm
  <2> QED
    BY <2>2, <2>4, <2>5, <2>6 DEF x
<1> HIDE DEF g, h
<1>9. SumFunctionOnSet(r, Valid(w)) = 0
  <2>1. SumFunctionOnSet(r, Valid(w)) = den * SumX(w) + (-1) * (slope * sT + b * n)
    <3>1. SumFunctionOnSet(r, Valid(w)) =
              den * SumFunctionOnSet(Points(w), Valid(w)) + (-1) * SumFunctionOnSet(g, Valid(w))
      BY <1>1, <1>4, <1>8, SumLinear
    <3> QED
      BY <1>6, <3>1 DEF SumX
  <2>2. den = n * d /\ slope = n * a /\ b = sX * d - a * sT
    BY DEF den, slope, b
  <2>3. n \in Int /\ d \in Int /\ a \in Int /\ sT \in Int /\ sX \in Int
    BY <1>1
  <2>4. den * sX + (-1) * (slope * sT + b * n) = 0
    BY ONLY <2>2, <2>3, ResidualsCancel
  <2> QED
    BY <2>1, <2>4 DEF sX
<1>10. SumFunctionOnSet(q, Valid(w)) = 0
  <2>1. SumFunctionOnSet(q, Valid(w)) =
            den * SumTX(w, ref) + (-1) * (slope * SumTT(w, ref) + b * sT)
    <3>1. SumFunctionOnSet(q, Valid(w)) =
              den * SumFunctionOnSet(OffsetPoints(w, ref), Valid(w)) + (-1) * SumFunctionOnSet(h, Valid(w))
      BY <1>1, <1>4, <1>8, SumLinear
    <3> QED
      BY <1>7, <3>1 DEF SumTX
  <2>2. d = n * SumTT(w, ref) - sT * sT /\ a = n * SumTX(w, ref) - sT * sX
    BY DEF Denom, Rise, n, d, a, sT, sX
  <2>3. (n * d) * SumTX(w, ref)
            + (-1) * ((n * a) * SumTT(w, ref) + (sX * d - a * sT) * sT) = 0
    BY <1>1, <2>2, WeightedResidualsCancel
  <2> QED
    BY <2>1, <2>3 DEF den, slope, b
<1> QED
  BY <1>4, <1>9, <1>10

\* The windows that a run of MCLinearRegression comes across.
WindowInv == data \in Seq([t : Times, x : Distances])

\* Every step leaves a window of such readings.
LEMMA WindowsOnly == WindowSpec => []WindowInv
<1>1. NoReadings => WindowInv
  BY DEF NoReadings, WindowInv
<1>2. WindowInv /\ [AddReading \/ Full]_data => WindowInv'
  <2>1. SUFFICES ASSUME WindowInv, AddReading PROVE WindowInv'
    BY <2>1 DEF WindowInv, Full
  <2>2. PICK t \in Times, x \in Distances : data' = Append(data, [t |-> t, x |-> x])
    BY <2>1 DEF AddReading
  <2>3. [t |-> t, x |-> x] \in [t : Times, x : Distances]
    OBVIOUS
  <2> HIDE DEF AddReading
  <2> DEFINE Readings == [t : Times, x : Distances]
  <2>4. ASSUME NEW R, data \in Seq(R), NEW e \in R, data' = Append(data, e)
        PROVE  data' \in Seq(R)
    BY <2>4
  <2> QED
    BY <2>1, <2>2, <2>3, <2>4 DEF WindowInv
<1> QED
  BY <1>1, <1>2, PTL DEF WindowSpec

\* The function returns the least-squares line of every window, whatever times and
\* distances its readings have and however many they are, and {0.0, 0.0} when there is none.
THEOREM LeastSquares == WindowSpec => []IsLeastSquares
<1>1. ASSUME WindowInv, NEW ref \in DOMAIN data, NEW line,
             line = LinearRegressionSlope(data, ref)
      PROVE  LET t(l)        == data[l].t - data[ref].t
                 residual(l) == data[l].x * line.den - At(line, t(l))
             IN  IF Determined
                 THEN /\ line.den > 0
                      /\ SumFunction([l \in Measurements |-> residual(l)]) = 0
                      /\ SumFunction([l \in Measurements |-> t(l) * residual(l)]) = 0
                 ELSE line = NoLine
  <2>0. Times \subseteq Int /\ \A x \in Distances : x \in Int /\ (x >= 0 <=> x # NoPoint)
    <3>1. ASSUME NEW x \in Distances PROVE x \in Int /\ (x >= 0 <=> x # -1)
      <4>1. x \in Nat \/ x = -1
        BY RegressionAssumption DEF RegressionAssumption, NoPoint
      <4>2. CASE x \in Nat
        BY <4>2
      <4>3. CASE x = -1
        BY <4>3
      <4> QED
        BY <4>1, <4>2, <4>3
    <3> QED
      BY <3>1, RegressionAssumption DEF RegressionAssumption, NoPoint
  <2>1. \A l \in DOMAIN data : data[l].t \in Times /\ data[l].x \in Distances
    <3>1. ASSUME NEW l \in DOMAIN data PROVE data[l] \in [t : Times, x : Distances]
      BY <1>1, SeqElement DEF WindowInv
    <3> QED
      BY <3>1
  <2>2. data \in Windows
    <3>1. [t : Times, x : Distances] \subseteq [t : Int, x : Int]
      BY <2>0
    <3>2. ASSUME NEW R, NEW Q, R \subseteq Q, NEW s \in Seq(R) PROVE s \in Seq(Q)
      BY <3>2
    <3> QED
      BY <1>1, <3>1, <3>2 DEF WindowInv, Windows
  <2>3. Measurements = Valid(data)
    <3>1. ASSUME NEW l \in DOMAIN data PROVE data[l].x >= 0 <=> data[l].x # NoPoint
      BY <2>0, <2>1
    <3> QED
      BY <3>1 DEF Measurements, Valid
  <2>4. Determined <=> TwoTimes(data)
    BY <2>3 DEF Determined, TwoTimes
  <2> DEFINE r == [l \in Valid(data) |-> Points(data)[l] * line.den - At(line, Offsets(data, ref)[l])]
             q == [l \in Valid(data) |-> Offsets(data, ref)[l] * r[l]]
  <2>5. CASE Determined
    <3>1. /\ line.den > 0
          /\ SumFunctionOnSet(r, Valid(data)) = 0
          /\ SumFunctionOnSet(q, Valid(data)) = 0
      <4> HIDE DEF r, q
      <4>1. r = [l \in Valid(data) |-> Points(data)[l] * line.den - At(line, Offsets(data, ref)[l])]
        BY DEF r
      <4>2. q = [l \in Valid(data) |-> Offsets(data, ref)[l] * r[l]]
        BY DEF q
      <4> QED
        BY <1>1, <2>2, <2>4, <2>5, <4>1, <4>2, LineIsLeastSquares
    <3>2. SumFunction(r) = 0 /\ SumFunction(q) = 0
      BY <3>1 DEF SumFunction
    <3>3. r = [l \in Measurements |->
                  data[l].x * line.den - At(line, data[l].t - data[ref].t)]
      BY <2>3 DEF Points, Offsets
    <3>4. q = [l \in Measurements |->
                  (data[l].t - data[ref].t)
                      * (data[l].x * line.den - At(line, data[l].t - data[ref].t))]
      BY <2>3 DEF Points, Offsets
    <3> HIDE DEF r, q
    <3> QED
      BY <2>5, <3>1, <3>2, <3>3, <3>4
  <2>6. CASE ~Determined
    <3>1. Denom(data, ref) = 0
      BY <1>1, <2>2, <2>4, <2>6, OneTimeDenom
    <3> QED
      BY <1>1, <2>2, <2>6, <3>1, Slope
  <2> QED
    BY <2>5, <2>6
<1>2. WindowInv => IsLeastSquares
  BY <1>1 DEF IsLeastSquares
<1> QED
  BY <1>2, WindowsOnly, PTL

-----------------------------------------------------------------------------
(* Uniform motion.                                                         *)

\* Readings at two different times have a line, which is not the {0.0, 0.0} of a failure.
LEMMA LineFound ==
    ASSUME NEW w \in Windows, NEW ref \in DOMAIN w, TwoTimes(w), Len(w) >= 2
    PROVE  LinearRegressionSlope(w, ref) # NoLine
<1> DEFINE n == Count(w)
           d == Denom(w, ref)
           line == LinearRegressionSlope(w, ref)
<1>1. n \in Nat /\ d \in Int /\ n >= 2 /\ d > 0 /\ Len(w) \in Nat
  <2>1. n \in Nat /\ d \in Int
    BY SumTypes
  <2>2. n >= 2 /\ d > 0
    BY TwoTimesDenom
  <2> QED
    BY <2>1, <2>2 DEF Windows
<1> HIDE DEF n, d
<1>2. ~(Len(w) < 2 \/ n < 2 \/ d = 0)
  BY <1>1
<1>3. line.den = n * d
  BY <1>2, Slope DEF n, d
<1>4. n * d > 1
  BY ONLY <1>1
<1>5. NoLine.den = 1
  BY DEF NoLine
<1> QED
  BY <1>1, <1>3, <1>4, <1>5

\* In a window whose readings all lie on the line through the first one and the one
\* the time counts from, the regression's line goes through the latter.
LEMMA UniformWindow ==
    ASSUME NEW w \in Windows, Len(w) >= 2, NEW ref \in DOMAIN w,
           Valid(w) = DOMAIN w,
           NEW dx \in Int, NEW dt \in Int, dt = w[ref].t - w[1].t,
           \A l \in DOMAIN w : dt * (w[l].x - w[ref].x) = dx * (w[l].t - w[ref].t),
           NEW line, line = LinearRegressionSlope(w, ref)
    PROVE  line.intercept * dt = (w[ref].x * dt) * line.den
<1> DEFINE n == Count(w)
           d == Denom(w, ref)
           a == Rise(w, ref)
           sT == SumT(w, ref)
           sX == SumX(w)
           x == w[ref].x
           c == dt * x
           one == [l \in Valid(w) |-> 1]
<1>1. /\ IsFiniteSet(Valid(w)) /\ n \in Nat /\ sT \in Int /\ sX \in Int
      /\ SumTT(w, ref) \in Int /\ SumTX(w, ref) \in Int
      /\ d \in Int /\ a \in Int
      /\ \A l \in Valid(w) : /\ Offsets(w, ref)[l] \in Int
                             /\ Points(w)[l] \in Int
                             /\ OffsetSquares(w, ref)[l] \in Int
                             /\ OffsetPoints(w, ref)[l] \in Int
  BY SumTypes
<1>2. x \in Int /\ c \in Int
  BY ReadingType
<1>3. ASSUME NEW l \in Valid(w)
      PROVE  /\ dt * Points(w)[l] = c * 1 + dx * Offsets(w, ref)[l]
             /\ dt * OffsetPoints(w, ref)[l] = c * Offsets(w, ref)[l] + dx * OffsetSquares(w, ref)[l]
  <2> DEFINE t == Offsets(w, ref)[l]
             y == Points(w)[l]
  <2>1. t \in Int /\ y \in Int
    BY <1>1
  <2>2. dt * (y - x) = dx * t
    BY DEF Offsets, Points
  <2>3. OffsetSquares(w, ref)[l] = t * t /\ OffsetPoints(w, ref)[l] = t * y
    BY DEF Offsets, Points, OffsetSquares, OffsetPoints
  <2> HIDE DEF t, y, x
  <2>4. dt * y = c * 1 + dx * t
    BY <1>2, <2>1, <2>2
  <2>5. dt * (t * y) = t * (dt * y)
    BY <2>1
  <2>6. t * (c * 1 + dx * t) = c * t + dx * (t * t)
    BY <1>2, <2>1
  <2> QED
    BY <2>3, <2>4, <2>5, <2>6 DEF t, y
<1>4. SumFunctionOnSet(one, Valid(w)) = n
  <2>1. \A l \in Valid(w) : one[l] = 1
    OBVIOUS
  <2> HIDE DEF one
  <2>2. SumFunctionOnSet(one, Valid(w)) = 1 * Count(w)
    BY <1>1, <2>1, SumConstant DEF Count
  <2> QED
    BY <1>1, <2>2 DEF n
<1>5. dt * sX = c * n + dx * sT
  <2> HIDE DEF c
  <2> DEFINE f == [l \in Valid(w) |-> dt * Points(w)[l]]
  <2>1. \A l \in Valid(w) : Points(w)[l] \in Int /\ f[l] = dt * Points(w)[l]
    BY <1>1
  <2>2. \A l \in Valid(w) : /\ one[l] \in Int /\ Offsets(w, ref)[l] \in Int
                            /\ f[l] = c * one[l] + dx * Offsets(w, ref)[l]
    BY <1>1, <1>3
  <2> HIDE DEF f, one, c
  <2>3. IsFiniteSet(Valid(w)) /\ dt \in Int /\ c \in Int /\ dx \in Int
    BY <1>1, <1>2
  <2>4. SumFunctionOnSet(f, Valid(w)) = dt * SumFunctionOnSet(Points(w), Valid(w))
    BY ONLY <2>1, <2>3, SumScaled
  <2>5. SumFunctionOnSet(f, Valid(w)) =
            c * SumFunctionOnSet(one, Valid(w)) + dx * SumFunctionOnSet(Offsets(w, ref), Valid(w))
    <3> DEFINE V == Valid(w)
               o == Offsets(w, ref)
    <3>1. IsFiniteSet(V) /\ c \in Int /\ dx \in Int
      BY <2>3
    <3>2. \A l \in V : one[l] \in Int /\ o[l] \in Int /\ f[l] = c * one[l] + dx * o[l]
      BY <2>2
    <3> HIDE DEF V, o
    <3>3. SumFunctionOnSet(f, V) = c * SumFunctionOnSet(one, V) + dx * SumFunctionOnSet(o, V)
      BY ONLY <3>1, <3>2, SumLinear
    <3> QED
      BY <3>3 DEF V, o
  <2> QED
    BY <1>1, <1>4, <2>4, <2>5 DEF sT, SumT, sX, SumX
<1>6. dt * SumTX(w, ref) = c * sT + dx * SumTT(w, ref)
  <2> DEFINE f == [l \in Valid(w) |-> dt * OffsetPoints(w, ref)[l]]
  <2>1. \A l \in Valid(w) : OffsetPoints(w, ref)[l] \in Int /\ f[l] = dt * OffsetPoints(w, ref)[l]
    BY <1>1
  <2>2. \A l \in Valid(w) : /\ Offsets(w, ref)[l] \in Int /\ OffsetSquares(w, ref)[l] \in Int
                            /\ f[l] = c * Offsets(w, ref)[l] + dx * OffsetSquares(w, ref)[l]
    BY <1>1, <1>3
  <2> HIDE DEF f, c
  <2>3. IsFiniteSet(Valid(w)) /\ dt \in Int /\ c \in Int /\ dx \in Int
    BY <1>1, <1>2
  <2>4. SumFunctionOnSet(f, Valid(w)) = dt * SumFunctionOnSet(OffsetPoints(w, ref), Valid(w))
    BY ONLY <2>1, <2>3, SumScaled
  <2>5. SumFunctionOnSet(f, Valid(w)) =
            c * SumFunctionOnSet(Offsets(w, ref), Valid(w))
                + dx * SumFunctionOnSet(OffsetSquares(w, ref), Valid(w))
    BY ONLY <2>2, <2>3, SumLinear
  <2> QED
    BY <1>1, <2>4, <2>5 DEF sT, SumT, SumTT, SumTX
<1>7. ASSUME NEW b, b = sX * d - a * sT, NEW den, den = n * d
      PROVE  b * dt = (x * dt) * den
  <2> DEFINE sTT == SumTT(w, ref)
             sTX == SumTX(w, ref)
  <2>1. /\ n \in Int /\ sT \in Int /\ sTT \in Int /\ sX \in Int /\ sTX \in Int
        /\ x \in Int /\ dx \in Int /\ dt \in Int /\ d \in Int /\ a \in Int /\ c \in Int
    BY <1>1, <1>2
  <2>2. d = n * sTT - sT * sT /\ a = n * sTX - sT * sX /\ c = dt * x
    BY DEF Denom, Rise
  <2>3. dt * sX = c * n + dx * sT /\ dt * sTX = c * sT + dx * sTT
    BY <1>5, <1>6
  <2>4. b = sX * d - a * sT /\ den = n * d
    BY <1>7
  <2> HIDE DEF n, d, a, sT, sX, x, c, sTT, sTX
  <2>5. dt * a = dx * d
    <3>1. dt * a = n * (dt * sTX) - sT * (dt * sX)
      BY ONLY <2>1, <2>2
    <3>2. n * (c * sT + dx * sTT) - sT * (c * n + dx * sT) = dx * (n * sTT - sT * sT)
      BY ONLY <2>1
    <3> QED
      BY ONLY <2>2, <2>3, <3>1, <3>2
  <2>6. b * dt = (dt * sX) * d - (dt * a) * sT
    BY ONLY <2>1, <2>4
  <2>7. (c * n + dx * sT) * d - (dx * d) * sT = c * (n * d)
    BY ONLY <2>1
  <2>8. c * (n * d) = (x * dt) * (n * d)
    BY ONLY <2>1, <2>2
  <2> QED
    BY ONLY <2>3, <2>4, <2>5, <2>6, <2>7, <2>8
<1>8. CASE TwoTimes(w)
  <2>1. n >= 2 /\ d > 0
    BY <1>8, TwoTimesDenom
  <2>2. ~(Len(w) < 2 \/ n < 2 \/ d = 0)
    <3>1. Len(w) \in Nat
      BY DEF Windows
    <3> HIDE DEF n, d
    <3> QED
      BY <1>1, <2>1, <3>1
  <2>3. line.intercept = sX * d - a * sT /\ line.den = n * d
    BY <2>2, Slope
  <2> HIDE DEF n, d, a, sT, sX, x
  <2> QED
    BY <1>7, <2>3 DEF x
<1>9. CASE ~TwoTimes(w)
  <2>1. d = 0
    BY <1>9, OneTimeDenom
  <2>2. line = NoLine
    BY <2>1, Slope
  <2>3. dt = 0
    <3>1. 1 \in Valid(w) /\ ref \in Valid(w)
      BY DEF Windows
    <3>2. w[1].t = w[ref].t /\ w[1].t \in Int
      BY <1>9, <3>1, ReadingType DEF TwoTimes
    <3> QED
      BY <3>2
  <2>4. line.intercept = 0 /\ line.den = 1
    BY <2>2 DEF NoLine
  <2> HIDE DEF x
  <2>5. line.intercept * dt = (x * dt) * line.den
    BY ONLY <1>2, <2>3, <2>4
  <2> QED
    BY <2>5 DEF x
<1> QED
  BY <1>8, <1>9
=============================================================================
