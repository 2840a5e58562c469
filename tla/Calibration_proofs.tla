------------------------- MODULE Calibration_proofs -------------------------
(***************************************************************************)
(* The calibration and what is streamed with it, for every mount,          *)
(* trajectory and set of points with integer coordinates.                  *)
(***************************************************************************)
EXTENDS Calibration, SequenceTheorems, TLAPS

USE GeometryAssumption

-----------------------------------------------------------------------------
(* Rigid maps.                                                             *)

LEMMA PlusPair == ASSUME NEW p \in Pairs, NEW q \in Pairs PROVE Plus(p, q) \in Pairs /\ Minus(p, q) \in Pairs
  BY DEF Pairs, Plus, Minus

LEMMA TurnedPair == ASSUME NEW n \in 0 .. 3, NEW p \in Pairs PROVE Turned(n, p) \in Pairs
  BY DEF Pairs, Turned

LEMMA MovedPair == ASSUME NEW m \in Maps, NEW p \in Pairs PROVE Moved(m, p) \in Pairs
<1>1. m.turn \in 0 .. 3 /\ m.shift \in Pairs
  BY DEF Maps
<1> QED
  BY <1>1, PlusPair, TurnedPair DEF Moved

\* Turning twice is turning by the sum.
LEMMA TurnedTwice ==
  ASSUME NEW m \in 0 .. 3, NEW n \in 0 .. 3, NEW p \in Pairs
  PROVE  (m + n) % 4 \in 0 .. 3 /\ Turned((m + n) % 4, p) = Turned(m, Turned(n, p))
<1> DEFINE k == (m + n) % 4
<1>1. k = IF m + n < 4 THEN m + n ELSE m + n - 4
  OBVIOUS
<1> HIDE DEF k
<1>2. p[1] \in Int /\ p[2] \in Int /\ p = <<p[1], p[2]>>
  BY DEF Pairs
<1>3. k \in 0 .. 3
  BY <1>1
<1>4. Turned(k, p) = Turned(m, Turned(n, p))
  <2>1. CASE n = 0
    BY <1>1, <1>2, <2>1 DEF Turned
  <2>2. CASE n = 1
    BY <1>1, <1>2, <2>2 DEF Turned
  <2>3. CASE n = 2
    BY <1>1, <1>2, <2>3 DEF Turned
  <2>4. CASE n = 3
    BY <1>1, <1>2, <2>4 DEF Turned
  <2> QED
    BY <2>1, <2>2, <2>3, <2>4
<1> QED
  BY <1>3, <1>4 DEF k

\* A turn is linear.
LEMMA TurnedPlus ==
  ASSUME NEW n \in 0 .. 3, NEW p \in Pairs, NEW q \in Pairs
  PROVE  Turned(n, Plus(p, q)) = Plus(Turned(n, p), Turned(n, q))
  BY DEF Turned, Plus, Pairs

LEMMA PlusAssociates ==
  ASSUME NEW p \in Pairs, NEW q \in Pairs, NEW r \in Pairs
  PROVE  Plus(Plus(p, q), r) = Plus(p, Plus(q, r))
  BY DEF Plus, Pairs

\* The product of two maps is the second followed by the first.
LEMMA TimesMoves ==
  ASSUME NEW a \in Maps, NEW b \in Maps, NEW p \in Pairs
  PROVE  Times(a, b) \in Maps /\ Moved(Times(a, b), p) = Moved(a, Moved(b, p))
<1>1. a.turn \in 0 .. 3 /\ b.turn \in 0 .. 3 /\ a.shift \in Pairs /\ b.shift \in Pairs
  BY DEF Maps
<1>2. (a.turn + b.turn) % 4 \in 0 .. 3 /\ Turned((a.turn + b.turn) % 4, p) = Turned(a.turn, Turned(b.turn, p))
  BY <1>1, TurnedTwice
<1>3. Moved(a, b.shift) \in Pairs
  BY <1>1, MovedPair
<1>4. Times(a, b) \in Maps
  BY <1>2, <1>3 DEF Times, Maps
<1>5. Turned(b.turn, p) \in Pairs /\ Turned(a.turn, Turned(b.turn, p)) \in Pairs /\ Turned(a.turn, b.shift) \in Pairs
  BY <1>1, TurnedPair
<1>6. Moved(Times(a, b), p)
        = Plus(Turned(a.turn, Turned(b.turn, p)), Plus(Turned(a.turn, b.shift), a.shift))
  BY <1>2 DEF Moved, Times
<1>7. Moved(a, Moved(b, p))
        = Plus(Plus(Turned(a.turn, Turned(b.turn, p)), Turned(a.turn, b.shift)), a.shift)
  BY <1>1, <1>5, TurnedPlus DEF Moved
<1> QED
  BY <1>1, <1>4, <1>5, <1>6, <1>7, PlusAssociates

\* A map and its inverse, in both orders.
LEMMA InvertedMoves ==
  ASSUME NEW m \in Maps, NEW p \in Pairs
  PROVE  /\ Inverted(m) \in Maps
         /\ Moved(m, Moved(Inverted(m), p)) = p
         /\ Moved(Inverted(m), Moved(m, p)) = p
<1> DEFINE back == (4 - m.turn) % 4
<1>1. m.turn \in 0 .. 3 /\ m.shift \in Pairs
  BY DEF Maps
<1>2. back = IF m.turn = 0 THEN 0 ELSE 4 - m.turn
  BY <1>1
<1>3. Inverted(m) = [turn |-> back, shift |-> Turned(back, Minus(<<0, 0>>, m.shift))]
  BY DEF Inverted
<1> HIDE DEF back
<1>4. back \in 0 .. 3 /\ <<0, 0>> \in Pairs
  BY <1>1, <1>2 DEF Pairs
<1>5. Inverted(m) \in Maps
  BY <1>1, <1>3, <1>4, TurnedPair, PlusPair DEF Maps
<1> DEFINE s == m.shift
<1>6. /\ Moved(m, Moved(Inverted(m), p))
           = Plus(Turned(m.turn, Plus(Turned(back, p), Turned(back, Minus(<<0, 0>>, s)))), s)
      /\ Moved(Inverted(m), Moved(m, p))
           = Plus(Turned(back, Plus(Turned(m.turn, p), s)), Turned(back, Minus(<<0, 0>>, s)))
  BY <1>3 DEF Moved
<1>7. s \in Pairs
  BY <1>1
<1> HIDE DEF s
<1>8. p = <<p[1], p[2]>> /\ s = <<s[1], s[2]>> /\ p[1] \in Int /\ p[2] \in Int /\ s[1] \in Int /\ s[2] \in Int
  BY <1>7 DEF Pairs
<1>9. CASE m.turn = 0
  BY <1>2, <1>5, <1>6, <1>8, <1>9 DEF Turned, Plus, Minus
<1>10. CASE m.turn = 1
  BY <1>2, <1>5, <1>6, <1>8, <1>10 DEF Turned, Plus, Minus
<1>11. CASE m.turn = 2
  BY <1>2, <1>5, <1>6, <1>8, <1>11 DEF Turned, Plus, Minus
<1>12. CASE m.turn = 3
  BY <1>2, <1>5, <1>6, <1>8, <1>12 DEF Turned, Plus, Minus
<1> QED
  BY <1>1, <1>9, <1>10, <1>11, <1>12

LEMMA FlippedTwice ==
  ASSUME NEW flip \in BOOLEAN, NEW p \in Pairs
  PROVE  Flipped(flip, p) \in Pairs /\ Flipped(flip, Flipped(flip, p)) = p
  BY DEF Flipped, Pairs

-----------------------------------------------------------------------------
(* The two components.                                                     *)

\* What the profiler sees of a point, flipped, is where the map takes it from.
LEMMA SeenBack ==
  ASSUME TypeOK, NEW from \in Pairs, NEW p \in Pairs
  PROVE  /\ Truth(from) \in Maps
         /\ Measured(from, p) \in Pairs
         /\ Flipped(mirrored, Measured(from, p)) \in Pairs
         /\ Moved(Truth(from), Flipped(mirrored, Measured(from, p))) = p
<1>1. mount.turn \in 0 .. 3 /\ mount.shift \in Pairs /\ mirrored \in BOOLEAN
  BY DEF TypeOK, Maps
<1>2. Truth(from) \in Maps
  BY <1>1, PlusPair DEF Truth, Maps
<1> DEFINE q == Moved(Inverted(Truth(from)), p)
<1>3. q \in Pairs /\ Moved(Truth(from), q) = p
  BY <1>2, InvertedMoves, MovedPair
<1>4. Measured(from, p) = Flipped(mirrored, q)
  BY DEF Measured
<1> HIDE DEF q
<1> QED
  BY <1>1, <1>2, <1>3, <1>4, FlippedTwice

\* The correction that follows an imprecise first map restores the map looked for.
LEMMA RefinementRestores ==
  ASSUME NEW t \in Maps, NEW f \in Maps
  PROVE  Times(Times(t, Inverted(f)), f) = t
<1>1. /\ t.turn \in 0 .. 3 /\ t.shift \in Pairs /\ t = [turn |-> t.turn, shift |-> t.shift]
      /\ f.turn \in 0 .. 3 /\ f.shift \in Pairs
  BY DEF Maps
<1> DEFINE back == (4 - f.turn) % 4
           half == (t.turn + back) % 4
<1>2. back = IF f.turn = 0 THEN 0 ELSE 4 - f.turn
  BY <1>1
<1>3. half = IF t.turn + back < 4 THEN t.turn + back ELSE t.turn + back - 4
  BY <1>1, <1>2
<1>4. (half + f.turn) % 4 = t.turn
  BY <1>1, <1>2, <1>3
<1>5. Times(Times(t, Inverted(f)), f)
        = [turn |-> (half + f.turn) % 4, shift |-> Moved(Times(t, Inverted(f)), f.shift)]
  BY DEF Times, Inverted
<1> HIDE DEF half, back
<1>6. <<0, 0>> \in Pairs
  BY DEF Pairs
<1>7. Moved(f, <<0, 0>>) = f.shift /\ Moved(t, <<0, 0>>) = t.shift
  BY <1>1 DEF Moved, Turned, Plus, Pairs
<1>8. Inverted(f) \in Maps /\ Moved(Inverted(f), f.shift) = <<0, 0>>
  BY <1>6, <1>7, InvertedMoves
<1>9. Moved(Times(t, Inverted(f)), f.shift) = t.shift
  BY <1>1, <1>7, <1>8, TimesMoves
<1> QED
  BY <1>1, <1>4, <1>5, <1>9

\* A point is placed where it is, but for the height of its trajectory.
LEMMA Placed ==
  ASSUME IInv, step = "stream", NEW from \in Pairs, NEW p \in Pairs
  PROVE  Place(from, Measured(from, p)) = Minus(p, <<0, from[2] - line[2]>>)
<1> DEFINE q == Flipped(mirrored, Measured(from, p))
           r == Turned(mount.turn, q)
<1>1. /\ data = <<total, line[1], line[2], mirrored>> /\ total = Truth(line)
      /\ TypeOK
  BY DEF IInv, MapFound
<1>2. q \in Pairs /\ Moved(Truth(from), q) = p
  BY <1>1, SeenBack
<1>3. line \in Pairs /\ mount.turn \in 0 .. 3 /\ mount.shift \in Pairs
  BY <1>1 DEF TypeOK, Maps
<1>4. Place(from, Measured(from, p)) = Plus(Moved(Truth(line), q), <<from[1] - line[1], 0>>)
  BY <1>1 DEF Place
<1> HIDE DEF q
<1>5. r \in Pairs
  BY <1>2, <1>3, TurnedPair
<1>6. /\ Moved(Truth(line), q) = Plus(r, Plus(mount.shift, line))
      /\ p = Plus(r, Plus(mount.shift, from))
  BY <1>2 DEF Moved, Truth
<1> HIDE DEF r
<1> QED
  BY <1>3, <1>4, <1>5, <1>6 DEF Plus, Minus, Pairs

LEMMA SeqsUpToPairs ==
  ASSUME NEW S, NEW T, S \subseteq T, NEW n \in Nat, NEW s \in SeqsUpTo(S, n)
  PROVE  s \in Seq(T) /\ s # <<>>
<1>1. PICK k \in 1 .. n : s \in [1 .. k -> S]
  BY DEF SeqsUpTo
<1>2. s \in Seq(T) /\ Len(s) = k
  BY <1>1
<1> QED
  BY <1>2, EmptySeq

LEMMA InitInvariant == Init => IInv
<1> SUFFICES ASSUME Init PROVE IInv
  OBVIOUS
<1>1. Points \subseteq Pairs /\ Lines \subseteq Pairs /\ Shifts \subseteq Pairs
  BY DEF Pairs
<1>2. mount \in Maps /\ line \in Pairs
  BY <1>1 DEF Init, RigidMaps, Maps
<1>3. trajectories \in Seq(Pairs) /\ trajectories # <<>>
  BY <1>1, SeqsUpToPairs DEF Init
<1>4. SeqsUpTo(Points, MaxPoints) \subseteq Seq(Pairs)
  BY <1>1, SeqsUpToPairs
<1>5. scanned \in Seq(Seq(Pairs))
  BY <1>4, SeqsUpToPairs DEF Init
<1>6. total \in Maps
  BY DEF Init, Maps, Pairs
<1>7. raw \in Seq(Pairs) /\ cloud \in Seq(Pairs) /\ results \in Seq(Seq(Pairs)) /\ Len(results) = 0
  BY EmptySeq DEF Init
<1>8. TypeOK
  BY <1>2, <1>3, <1>5, <1>6, <1>7 DEF Init, TypeOK
<1>9. step = "sort" /\ results = <<>>
  BY DEF Init
<1>10. CloudMatchesTransform
  BY <1>9 DEF CloudMatchesTransform
<1>11. Len(scanned) \in Nat /\ DOMAIN results = {}
  BY <1>5, <1>7
<1>12. MapFound
  BY <1>7, <1>9, <1>11 DEF MapFound
<1>13. StreamedInMachine
  BY <1>11 DEF StreamedInMachine
<1> QED
  BY <1>8, <1>10, <1>12, <1>13 DEF IInv

\* A map applied to a segment, and two of them.
LEMMA AllMovedTwice ==
  ASSUME NEW a \in Maps, NEW b \in Maps, NEW s \in Seq(Pairs)
  PROVE  /\ AllMoved(a, s) \in Seq(Pairs)
         /\ AllMoved(a, AllMoved(b, s)) = AllMoved(Times(a, b), s)
<1>1. ASSUME NEW m \in Maps, NEW t \in Seq(Pairs) PROVE AllMoved(m, t) \in Seq(Pairs)
  <2>1. DOMAIN t = 1 .. Len(t) /\ Len(t) \in Nat /\ \A k \in DOMAIN t : t[k] \in Pairs
    OBVIOUS
  <2>2. \A k \in DOMAIN t : Moved(m, t[k]) \in Pairs
    BY <2>1, MovedPair
  <2> QED
    BY <2>1, <2>2 DEF AllMoved
<1>2. \A k \in DOMAIN s : Moved(a, Moved(b, s[k])) = Moved(Times(a, b), s[k])
  BY TimesMoves
<1> QED
  BY <1>1, <1>2 DEF AllMoved

LEMMA TakeStep == ASSUME IInv, TakeLongest PROVE IInv'
<1>1. TypeOK /\ MapFound
  BY DEF IInv
<1>2. UNCHANGED <<mount, mirrored, line, trajectories, targets, scanned, total, data, results>>
  BY DEF TakeLongest, given
<1>3. PICK i \in DOMAIN scanned : raw' = [k \in DOMAIN scanned[i] |-> Flipped(mirrored, Measured(line, scanned[i][k]))]
  BY DEF TakeLongest, Pass
<1>4. scanned[i] \in Seq(Pairs) /\ line \in Pairs
  BY <1>1 DEF TypeOK
<1>5. \A k \in DOMAIN scanned[i] : Flipped(mirrored, Measured(line, scanned[i][k])) \in Pairs
  BY <1>1, <1>4, SeenBack
<1>6. raw' \in Seq(Pairs)
  <2>1. DOMAIN scanned[i] = 1 .. Len(scanned[i]) /\ Len(scanned[i]) \in Nat
    BY <1>4
  <2> QED
    BY <1>3, <1>5, <2>1
<1>7. step = "sort" /\ step' = "first" /\ cloud' = raw'
  BY DEF TakeLongest
<1>8. TypeOK'
  BY <1>1, <1>2, <1>6, <1>7 DEF TypeOK
<1>9. CloudMatchesTransform' /\ MapFound'
  BY <1>1, <1>2, <1>7 DEF CloudMatchesTransform, MapFound
<1>10. StreamedInMachine'
  BY <1>2 DEF IInv, StreamedInMachine, TrajectoryOf
<1> QED
  BY <1>8, <1>9, <1>10 DEF IInv

\* Neither transform nor the output changes what was streamed or given.
LEMMA StreamedKept ==
  ASSUME IInv, UNCHANGED <<given, results>> PROVE StreamedInMachine'
  BY DEF IInv, StreamedInMachine, TrajectoryOf, given

LEMMA FirstStep == ASSUME IInv, FirstTransform PROVE IInv'
<1>1. TypeOK /\ MapFound
  BY DEF IInv
<1>2. UNCHANGED <<mount, mirrored, line, trajectories, targets, scanned, raw, data, results>>
  BY DEF FirstTransform, given
<1>3. PICK first \in IF targets THEN RigidMaps ELSE {Truth(line)} :
        cloud' = AllMoved(first, cloud) /\ total' = first
  BY DEF FirstTransform
<1>4. step = "first" /\ cloud = raw /\ step' = IF targets THEN "second" ELSE "output"
  BY <1>1 DEF FirstTransform, MapFound
<1>5. Shifts \subseteq Pairs
  BY DEF Pairs
<1>6. RigidMaps \subseteq Maps
  BY <1>5 DEF RigidMaps, Maps
<1>7. Truth(line) \in Maps
  <2>1. mount.turn \in 0 .. 3 /\ mount.shift \in Pairs /\ line \in Pairs
    BY <1>1 DEF TypeOK, Maps
  <2> QED
    BY <2>1, PlusPair DEF Truth, Maps
<1>8. first \in Maps /\ (step' = "output" => first = Truth(line))
  BY <1>3, <1>4, <1>6, <1>7
<1>9. cloud' \in Seq(Pairs)
  BY <1>1, <1>3, <1>8, AllMovedTwice DEF TypeOK
<1>10. TypeOK'
  BY <1>1, <1>2, <1>3, <1>4, <1>8, <1>9 DEF TypeOK
<1>11. CloudMatchesTransform'
  BY <1>2, <1>3, <1>4 DEF CloudMatchesTransform, AllMoved
<1>12. Truth(line)' = Truth(line)
  BY <1>2 DEF Truth
<1>13. MapFound'
  BY <1>1, <1>2, <1>3, <1>4, <1>8, <1>12 DEF MapFound
<1>14. StreamedInMachine'
  BY StreamedKept DEF FirstTransform
<1> QED
  BY <1>10, <1>11, <1>13, <1>14 DEF IInv

LEMMA SecondStep == ASSUME IInv, SecondTransform PROVE IInv'
<1>1. TypeOK /\ MapFound /\ CloudMatchesTransform
  BY DEF IInv
<1>2. UNCHANGED <<mount, mirrored, line, trajectories, targets, scanned, raw, data, results>>
  BY DEF SecondTransform, given
<1>3. /\ step = "second" /\ step' = "output"
      /\ cloud' = AllMoved(Refinement, cloud) /\ total' = Times(Refinement, total)
  BY DEF SecondTransform
<1>4. total \in Maps /\ raw \in Seq(Pairs) /\ cloud = AllMoved(total, raw)
  BY <1>1, <1>3 DEF TypeOK, CloudMatchesTransform
<1>5. Truth(line) \in Maps
  <2>1. mount.turn \in 0 .. 3 /\ mount.shift \in Pairs /\ line \in Pairs
    BY <1>1 DEF TypeOK, Maps
  <2> QED
    BY <2>1, PlusPair DEF Truth, Maps
<1>6. Inverted(total) \in Maps
  BY <1>4, InvertedMoves, <<0, 0>> \in Pairs DEF Pairs
<1>7. Refinement \in Maps
  BY <1>5, <1>6, TimesMoves, <<0, 0>> \in Pairs DEF Refinement, Pairs
<1>8. total' = Truth(line) /\ Truth(line)' = Truth(line)
  BY <1>2, <1>3, <1>4, <1>5, RefinementRestores DEF Refinement, Truth
<1>9. cloud' = AllMoved(total', raw) /\ cloud' \in Seq(Pairs)
  BY <1>3, <1>4, <1>7, AllMovedTwice
<1>10. TypeOK'
  BY <1>1, <1>2, <1>3, <1>5, <1>8, <1>9 DEF TypeOK
<1>11. CloudMatchesTransform'
  BY <1>2, <1>9 DEF CloudMatchesTransform, AllMoved
<1>12. MapFound'
  BY <1>1, <1>2, <1>3, <1>8 DEF MapFound
<1>13. StreamedInMachine'
  BY StreamedKept DEF SecondTransform
<1> QED
  BY <1>10, <1>11, <1>12, <1>13 DEF IInv

LEMMA OutputStep == ASSUME IInv, Output PROVE IInv'
<1>1. TypeOK /\ MapFound /\ CloudMatchesTransform
  BY DEF IInv
<1>2. UNCHANGED <<mount, mirrored, line, trajectories, targets, scanned, raw, cloud, total, results>>
  BY DEF Output, given
<1>3. step = "output" /\ step' = "stream" /\ data' = <<total, line[1], line[2], mirrored>>
  BY DEF Output
<1>4. TypeOK' /\ CloudMatchesTransform'
  BY <1>1, <1>2, <1>3 DEF TypeOK, CloudMatchesTransform, AllMoved
<1>5. Truth(line)' = Truth(line)
  BY <1>2 DEF Truth
<1>6. MapFound'
  BY <1>1, <1>2, <1>3, <1>5 DEF MapFound
<1>7. StreamedInMachine'
  BY StreamedKept DEF Output
<1> QED
  BY <1>4, <1>6, <1>7 DEF IInv

LEMMA StreamStep == ASSUME IInv, StreamSegment PROVE IInv'
<1> DEFINE i == Len(results) + 1
           from == TrajectoryOf(i)
           placed == [k \in DOMAIN scanned[i] |-> Place(from, Measured(from, scanned[i][k]))]
           expected(n) == [k \in DOMAIN scanned[n] |->
                             Minus(scanned[n][k], <<0, TrajectoryOf(n)[2] - line[2]>>)]
<1>1. TypeOK /\ MapFound /\ CloudMatchesTransform /\ StreamedInMachine
  BY DEF IInv
<1>2. UNCHANGED <<mount, mirrored, line, trajectories, targets, scanned, step, raw, cloud, total, data>>
  BY DEF StreamSegment, given, calibration
<1>3. step = "stream" /\ Len(results) < Len(scanned) /\ results' = Append(results, placed)
  BY DEF StreamSegment, Pass
<1>4. /\ results \in Seq(Seq(Pairs)) /\ Len(results) \in Nat /\ Len(scanned) \in Nat
      /\ i \in DOMAIN scanned /\ scanned[i] \in Seq(Pairs)
  BY <1>1, <1>3 DEF TypeOK
<1>5. from \in Pairs /\ line \in Pairs
  <2>1. trajectories \in Seq(Pairs) /\ Len(trajectories) >= 1
    BY <1>1, EmptySeq DEF TypeOK
  <2> QED
    BY <1>1, <1>4, <2>1 DEF TrajectoryOf, TypeOK
<1>6. \A k \in DOMAIN scanned[i] : scanned[i][k] \in Pairs
  BY <1>4
<1>7. \A k \in DOMAIN scanned[i] :
        Place(from, Measured(from, scanned[i][k])) = Minus(scanned[i][k], <<0, from[2] - line[2]>>)
  BY <1>3, <1>5, <1>6, Placed
<1>8. placed = expected(i)
  BY <1>7
<1>9. <<0, from[2] - line[2]>> \in Pairs
  BY <1>5 DEF Pairs
<1>10. placed \in Seq(Pairs)
  <2>1. \A k \in DOMAIN scanned[i] : Minus(scanned[i][k], <<0, from[2] - line[2]>>) \in Pairs
    BY <1>6, <1>9, PlusPair
  <2>2. DOMAIN scanned[i] = 1 .. Len(scanned[i]) /\ Len(scanned[i]) \in Nat
    BY <1>4
  <2> HIDE DEF from
  <2> QED
    BY <1>7, <2>1, <2>2
<1>11. \A n \in DOMAIN results : results[n] = expected(n)
  BY <1>1 DEF StreamedInMachine
<1> HIDE DEF placed, expected
<1>12. /\ results' \in Seq(Seq(Pairs)) /\ Len(results') = Len(results) + 1
       /\ \A n \in DOMAIN results' : results'[n] = IF n = i THEN placed ELSE results[n]
       /\ \A n \in DOMAIN results' : n = i \/ n \in DOMAIN results
  BY <1>3, <1>4, <1>10
<1>13. \A n \in DOMAIN results' : results'[n] = expected(n)
  BY <1>8, <1>11, <1>12
<1>14. StreamedInMachine'
  BY <1>2, <1>13 DEF StreamedInMachine, TrajectoryOf, expected
<1>15. TypeOK'
  BY <1>1, <1>2, <1>12 DEF TypeOK
<1>16. Truth(line)' = Truth(line)
  BY <1>2 DEF Truth
<1>17. MapFound'
  BY <1>1, <1>2, <1>3, <1>4, <1>12, <1>16 DEF MapFound
<1>18. CloudMatchesTransform'
  BY <1>1, <1>2 DEF CloudMatchesTransform, AllMoved
<1> QED
  BY <1>14, <1>15, <1>17, <1>18 DEF IInv

LEMMA StepInvariant == IInv /\ [Next]_vars => IInv'
<1> SUFFICES ASSUME IInv, [Next]_vars PROVE IInv'
  OBVIOUS
<1>1. CASE UNCHANGED vars
  BY <1>1 DEF vars, given, calibration, IInv, TypeOK, CloudMatchesTransform, MapFound, StreamedInMachine,
     Truth, TrajectoryOf, AllMoved
<1> QED
  BY <1>1, TakeStep, FirstStep, SecondStep, OutputStep, StreamStep DEF Next, Done

\* The inductive invariant holds in every state.
THEOREM Invariance == Spec => []IInv
  BY InitInvariant, StepInvariant, PTL DEF Spec

\* The map handed on does to the raw points what the transforms did to the cloud, for
\* every rigid map with integer coordinates (calibrate/code.py:142-146, 191-192).
THEOREM MapGoesWithCloud == Spec => []CloudMatchesTransform
<1>1. IInv => CloudMatchesTransform
  BY DEF IInv
<1> QED
  BY <1>1, Invariance, PTL

\* What is streamed lies where it is in the machine, but for the height of its
\* trajectory (stream/code.py:104-127).
THEOREM StreamedInPlace == Spec => []StreamedInMachine
<1>1. IInv => StreamedInMachine
  BY DEF IInv
<1> QED
  BY <1>1, Invariance, PTL
=============================================================================
