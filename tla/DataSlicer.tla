----------------------------- MODULE DataSlicer -----------------------------
(***************************************************************************)
(* DataSlicer (PostProcess.cc): Slice cuts the rangefinder recording into  *)
(* the passes during which the profiler moved and assigns the profiles to  *)
(* them; ComputeRegularizedProfiles gives every profile of a pass the      *)
(* position the rangefinder saw.                                           *)
(*                                                                         *)
(* Readings and profiles are named by their place in the recording, from 1.*)
(* Times are microseconds, the finest the code looks at; distances are in   *)
(* the rangefinder's unit.                                                 *)
(***************************************************************************)
EXTENDS LinearRegression, SequencesExt

CONSTANTS
    Recordings,         \* rangefinder recordings: sequences of [t, x]
    ProfileRecordings,  \* profile recordings: sequences of [t, empty]
    Intervals,          \* arguments of Slice, in milliseconds
    Millisecond,        \* a millisecond in the unit of times: 1000
    MinSegment,         \* readings a segment must have: 10
    WindowingSize,      \* half the regression window: 20
    MaxSlices,          \* bound: calls of Slice
    MaxComputes         \* bound: calls of ComputeRegularizedProfiles

ASSUME SlicerAssumption ==
    /\ \A r \in Recordings : r \in Seq([t : Int, x : Int])
    /\ \A p \in ProfileRecordings : p \in Seq([t : Int, empty : BOOLEAN])
    /\ Intervals \subseteq Int
    /\ Millisecond \in Nat \ {0}
    /\ MinSegment \in Nat \ {0}
    /\ WindowingSize \in Nat \ {0}
    /\ MaxSlices \in Nat
    /\ MaxComputes \in Nat

VARIABLES
    rf,                 \* unsortedRangeFinderDistances
    profiles,           \* unsortedProfiles
    pc,                 \* "ready" between calls, or the loop the call is in
    i,                  \* the loop's counter, from 1
    nIntervals,         \* stride of the speed estimate
    isIdle,             \* the profiler stands still between two passes
    segs,               \* the local rangeFinderDistanceSegments
    rfSegments,         \* rangeFinderDistancesSortedIntoSegments
    profileSegments,    \* profilesSortedIntoSegments
    numberOfSegments,   \* a uint8_t
    regularized,        \* the vector ComputeRegularizedProfiles builds
    correctionDistances,
    slices, computes    \* calls made

recordings == <<rf, profiles>>
calls == <<slices, computes>>
locals == <<nIntervals, isIdle, segs>>
members == <<rfSegments, profileSegments, numberOfSegments>>
output == <<regularized, correctionDistances>>
vars == <<recordings, pc, i, locals, members, output, calls>>

Init ==
    /\ rf \in Recordings
    /\ profiles \in ProfileRecordings
    /\ pc = "ready"
    /\ i = 1
    /\ nIntervals = 0
    /\ isIdle = FALSE
    /\ segs = <<>>
    /\ rfSegments = <<>>
    /\ profileSegments = <<>>
    /\ numberOfSegments = 0
    /\ regularized = <<>>
    /\ correctionDistances = <<>>
    /\ slices = 0
    /\ computes = 0

-----------------------------------------------------------------------------
(* Slice: the stride and the speed.                                        *)

\* duration_cast<milliseconds>: what is less than a millisecond is cut off.
Milliseconds(d) == IF d < 0 THEN -((-d) \div Millisecond) ELSE d \div Millisecond

\* The first reading more than the interval after the first one gives the stride;
\* 0 when there is none.
Stride(interval) ==
    LET later == {k \in DOMAIN rf \ {1} : Milliseconds(rf[k].t - rf[1].t) > interval}
    IN  IF later = {} THEN 0 ELSE Min(later) - 1

HasPoints(k) == rf[k].x # NoPoint
Distance(k) == rf[k + nIntervals].x - rf[k].x
Duration(k) == Milliseconds(rf[k + nIntervals].t - rf[k].t)
Abs(n) == IF n < 0 THEN -n ELSE n

\* Fault: only the reading ahead has to have a point.
MeasuredAhead(k) == HasPoints(k + nIntervals)

\* There is a speed: both readings have a point.
Measured(k) == HasPoints(k) /\ HasPoints(k + nIntervals)

\* |speed| < 0.005 and |speed| >= 0.005 in units per millisecond.  With a duration
\* of 0 the speed is infinite or, for equal distances, not a number: then neither.
Still(k)  == Duration(k) # 0 /\ Abs(Distance(k)) * 200 < Abs(Duration(k))
Moving(k) == Abs(Distance(k)) * 200 >= Abs(Duration(k)) /\ (Duration(k) # 0 \/ Distance(k) # 0)

Slice(interval) ==
    /\ pc = "ready"
    /\ slices < MaxSlices
    /\ slices' = slices + 1
    /\ nIntervals' = Stride(interval)
    /\ isIdle' = FALSE
    /\ segs' = <<>>
    /\ i' = 1
    /\ pc' = "classify"
    /\ UNCHANGED <<recordings, members, output, computes>>

-----------------------------------------------------------------------------
(* Slice: one step per reading.                                            *)

Classifying ==
    /\ pc = "classify"
    /\ i <= Len(rf) - nIntervals

NextReading ==
    /\ i' = i + 1
    /\ UNCHANGED <<recordings, pc, nIntervals, members, output, calls>>

\* Nothing to do: no point, not started, still idle, or a speed that is not a number.
PassOver ==
    /\ Classifying
    /\ \/ ~Measured(i)
       \/ Still(i) /\ (segs = <<>> \/ isIdle)
       \/ ~Still(i) /\ ~Moving(i)
    /\ NextReading
    /\ UNCHANGED <<isIdle, segs>>

\* Fault: standing still does not end the segment.
BecomeIdleSameSegment ==
    /\ Classifying
    /\ Measured(i) /\ Still(i)
    /\ segs # <<>> /\ ~isIdle
    /\ isIdle' = TRUE
    /\ NextReading
    /\ UNCHANGED segs

\* The profiler has come to a stand: the next movement is another segment.
BecomeIdle ==
    /\ Classifying
    /\ Measured(i) /\ Still(i)
    /\ segs # <<>> /\ ~isIdle
    /\ segs' = Append(segs, <<>>)
    /\ isIdle' = TRUE
    /\ NextReading

\* The reading belongs to the current segment, the first if there is none yet.
Move ==
    /\ Classifying
    /\ Measured(i) /\ Moving(i)
    /\ segs' = IF segs = <<>> THEN << <<i>> >>
                              ELSE [segs EXCEPT ![Len(segs)] = Append(@, i)]
    /\ isIdle' = FALSE
    /\ NextReading

EndClassify ==
    /\ pc = "classify"
    /\ i > Len(rf) - nIntervals
    /\ pc' = "erase"
    /\ i' = 1
    /\ UNCHANGED <<recordings, locals, members, output, calls>>

-----------------------------------------------------------------------------
(* Slice: short segments are erased, then the profiles are assigned.       *)

\* Fault: the counter is not put back after an erasure.
EraseShortSkipping ==
    /\ pc = "erase"
    /\ i <= Len(segs)
    /\ Len(segs[i]) < MinSegment
    /\ segs' = RemoveAt(segs, i)
    /\ i' = i + 1
    /\ UNCHANGED <<recordings, pc, nIntervals, isIdle, members, output, calls>>

\* Fault: the counter is put back once too far.
EraseShortBack ==
    /\ pc = "erase"
    /\ i <= Len(segs)
    /\ Len(segs[i]) < MinSegment
    /\ segs' = RemoveAt(segs, i)
    /\ i' = i - 1
    /\ UNCHANGED <<recordings, pc, nIntervals, isIdle, members, output, calls>>

\* Fault: the short segment is not erased, and the counter is put back.
EraseNothing ==
    /\ pc = "erase"
    /\ i <= Len(segs)
    /\ Len(segs[i]) < MinSegment
    /\ UNCHANGED vars

\* What follows the erased segment moves to its place.
EraseShort ==
    /\ pc = "erase"
    /\ i <= Len(segs)
    /\ Len(segs[i]) < MinSegment
    /\ segs' = RemoveAt(segs, i)
    /\ UNCHANGED <<recordings, pc, i, nIntervals, isIdle, members, output, calls>>

KeepLong ==
    /\ pc = "erase"
    /\ i <= Len(segs)
    /\ Len(segs[i]) >= MinSegment
    /\ i' = i + 1
    /\ UNCHANGED <<recordings, pc, locals, members, output, calls>>

EndErase ==
    /\ pc = "erase"
    /\ i > Len(segs)
    /\ rfSegments' = segs
    /\ numberOfSegments' = Len(segs) % 256
    /\ pc' = "assign"
    /\ i' = 1
    /\ UNCHANGED <<recordings, locals, profileSegments, output, calls>>

\* std::vector::resize: cut, or filled up with empty vectors.
Resized(s, n) == [k \in 1 .. n |-> IF k <= Len(s) THEN s[k] ELSE <<>>]

StartTime(s) == rf[s[1]].t
EndTime(s) == rf[s[Len(s)]].t

\* The numbers in S, a finite set of them, from the least to the greatest.
InOrder(S) ==
    [n \in 1 .. Cardinality(S) |-> CHOOSE k \in S : Cardinality({h \in S : h <= k}) = n]

\* Fault: everything taken after the first reading of the segment counts.
ProfilesFrom(s) == InOrder({p \in DOMAIN profiles : StartTime(s) <= profiles[p].t})

\* Fault: everything taken before the last reading of the segment counts.
ProfilesUntil(s) == InOrder({p \in DOMAIN profiles : profiles[p].t <= EndTime(s)})

\* The profiles taken between the first and the last reading of a segment.
ProfilesDuring(s) ==
    InOrder({p \in DOMAIN profiles : StartTime(s) <= profiles[p].t /\ profiles[p].t <= EndTime(s)})

\* They are added to what the member already holds for a segment of that number.
AssignProfiles ==
    /\ pc = "assign"
    /\ i <= Len(segs)
    /\ profileSegments' =
          [Resized(profileSegments, Len(segs)) EXCEPT ![i] = @ \o ProfilesDuring(segs[i])]
    /\ i' = i + 1
    /\ UNCHANGED <<recordings, pc, locals, rfSegments, numberOfSegments, output, calls>>

EndSlice ==
    /\ pc = "assign"
    /\ i > Len(segs)
    /\ pc' = "ready"
    /\ UNCHANGED <<recordings, i, locals, members, output, calls>>

-----------------------------------------------------------------------------
(* ComputeRegularizedProfiles.                                             *)

ComputeRegularizedProfiles ==
    /\ pc = "ready"
    /\ computes < MaxComputes
    /\ computes' = computes + 1
    /\ regularized' = <<>>
    /\ pc' = "compute"
    /\ i' = 1
    /\ UNCHANGED <<recordings, locals, members, correctionDistances, slices>>

\* Fault: the loop begins one place too early.
NotBeforeEarly(s, p) ==
    {k \in WindowingSize .. Len(s) - WindowingSize : rf[s[k]].t >= profiles[p].t}

\* Places in the segment far enough from its ends whose reading is not older than
\* the profile: the first one is the profile's reading.
NotBefore(s, p) ==
    {k \in WindowingSize + 1 .. Len(s) - WindowingSize : rf[s[k]].t >= profiles[p].t}
ReadingFor(s, p) == Min(NotBefore(s, p))

\* WindowingSize readings before place k, the one at k, WindowingSize - 1 after it.
WindowStart(k) == k - WindowingSize
WindowPlace(k, l) == WindowStart(k) + l - 1
Window(s, k) == [l \in 1 .. 2 * WindowingSize |-> rf[s[WindowPlace(k, l)]]]

\* Fault: the time of the regression counts from the reading before.
LineAtPrevious(s, k) == LinearRegressionSlope(Window(s, k), WindowingSize)

\* The reading at k in its window.
ReferenceIndex == WindowingSize + 1

\* The line through the window; its time counts from the reading at k.
LineAt(s, k) == LinearRegressionSlope(Window(s, k), ReferenceIndex)

\* A profile and the x its points get: the line's value at t_rangefinder - tProfile,
\* over 10.
Corrected(s, p) ==
    LET k    == ReadingFor(s, p)
        line == LineAt(s, k)
    IN  [profile |-> p,
         place   |-> k,
         x       |-> At(line, rf[s[k]].t - profiles[p].t),
         den     |-> 10 * line.den]

\* The elements of s that are in T, in the order they have in s.
Only(s, T) ==
    LET places == InOrder({k \in DOMAIN s : s[k] \in T})
    IN  [n \in DOMAIN places |-> s[places[n]]]

\* The profiles that find a reading in the segment s, and those that have points.
Placed(s) == {p \in DOMAIN profiles : NotBefore(s, p) # {}}
WithPoints == {p \in DOMAIN profiles : ~profiles[p].empty}

\* One segment.  Its last profile is left out, and so are those that find no reading;
\* a profile without points adds a correction distance and no point.
RegularizeSegment ==
    /\ pc = "compute"
    /\ i <= Len(rfSegments)
    /\ LET s       == rfSegments[i]
           all     == Front(profileSegments[i])
           moved   == [p \in Placed(s) |-> Corrected(s, p)]
           listed  == Only(all, Placed(s) \cap WithPoints)
           counted == Only(all, Placed(s))
       IN  /\ regularized' = Append(regularized, [j \in DOMAIN listed |-> moved[listed[j]]])
           /\ correctionDistances' =
                 correctionDistances
                 \o [j \in DOMAIN counted |->
                       [x |-> moved[counted[j]].x, den |-> moved[counted[j]].den]]
    /\ i' = i + 1
    /\ UNCHANGED <<recordings, pc, locals, members, calls>>

EndCompute ==
    /\ pc = "compute"
    /\ i > Len(rfSegments)
    /\ pc' = "ready"
    /\ UNCHANGED <<recordings, i, locals, members, output, calls>>

-----------------------------------------------------------------------------
SliceStep ==
    \/ PassOver \/ BecomeIdle \/ Move \/ EndClassify
    \/ EraseShort \/ KeepLong \/ EndErase
    \/ AssignProfiles \/ EndSlice

ComputeStep == RegularizeSegment \/ EndCompute

\* All the calls that the bounds allow have been made.
Terminating ==
    /\ pc = "ready"
    /\ slices = MaxSlices
    /\ computes = MaxComputes
    /\ UNCHANGED vars

Next ==
    \/ \E interval \in Intervals : Slice(interval)
    \/ SliceStep
    \/ ComputeRegularizedProfiles
    \/ ComputeStep
    \/ Terminating

Spec == Init /\ [][Next]_vars

\* A call runs to its end; nobody has to make one.
FairSpec == Spec /\ WF_vars(SliceStep \/ ComputeStep)

-----------------------------------------------------------------------------
(* Properties.                                                             *)

\* Every variable has its type.
TypeOK ==
    /\ rf \in Seq([t : Int, x : Int])
    /\ profiles \in Seq([t : Int, empty : BOOLEAN])
    /\ pc \in {"ready", "classify", "erase", "assign", "compute"}
    /\ i \in Nat \ {0}
    /\ nIntervals \in Nat
    /\ isIdle \in BOOLEAN
    /\ segs \in Seq(Seq(DOMAIN rf))
    /\ rfSegments \in Seq(Seq(DOMAIN rf))
    /\ profileSegments \in Seq(Seq(DOMAIN profiles))
    /\ numberOfSegments \in 0 .. 255
    /\ regularized \in
          Seq(Seq([profile : DOMAIN profiles, place : Nat, x : Int, den : Int]))
    /\ correctionDistances \in Seq([x : Int, den : Int])
    /\ slices \in 0 .. MaxSlices
    /\ computes \in 0 .. MaxComputes

\* What RegularizeSegment looks up for profile p of segment n: the readings of its loop,
\* those of its window, and the one the window's times count from.
LooksUp(n, p) ==
    LET s == rfSegments[n]
    IN  /\ WindowingSize + 1 .. Len(s) - WindowingSize \subseteq DOMAIN s
        /\ p \in Placed(s) =>
              /\ \A l \in 1 .. 2 * WindowingSize : WindowPlace(ReadingFor(s, p), l) \in DOMAIN s
              /\ ReferenceIndex \in 1 .. 2 * WindowingSize

\* No at(), front() or back() of either call is out of range, and the unsigned bound of
\* the loop over the readings does not wrap: the reading ahead exists, a segment that
\* gets profiles has a first and a last reading, every segment of readings has one of
\* profiles, and every profile of it that finds a reading a full window around it
\* (PostProcess.cc:37-41, 79, 90-98, 113-135).
AccessInRange ==
    /\ pc = "classify" => nIntervals <= Len(rf)
    /\ pc = "classify" /\ i <= Len(rf) - nIntervals => i + nIntervals \in DOMAIN rf
    /\ pc = "erase" /\ i <= Len(segs) => i \in DOMAIN segs
    /\ pc = "assign" /\ i <= Len(segs) => segs[i] # <<>>
    /\ pc = "compute" /\ i <= Len(rfSegments) =>
          /\ i \in DOMAIN profileSegments
          /\ \A p \in ToSet(Front(profileSegments[i])) : LooksUp(i, p)

\* No segment that Slice leaves is short, although the erasure removes elements of the
\* vector it walks.
NoShortSegment == \A n \in DOMAIN rfSegments : Len(rfSegments[n]) >= MinSegment

\* The passes of the recording, without a loop: the readings that move and have no
\* measured standstill between them.
Speeds == 1 .. Len(rf) - nIntervals
Moved == {k \in Speeds : Measured(k) /\ Moving(k)}
Stood == {k \in Speeds : Measured(k) /\ Still(k)}
Apart(k, m) == \E h \in Stood : (k < h /\ h < m) \/ (m < h /\ h < k)
PassOf(k) == {m \in Moved : ~Apart(k, m)}
Passes == {R \in {PassOf(k) : k \in Moved} : Cardinality(R) >= MinSegment}

\* The readings of a list of segments, one segment after the other, are in their order.
Ordered(ss) ==
    \A m, n \in DOMAIN ss : \A a \in DOMAIN ss[m], b \in DOMAIN ss[n] :
        m < n \/ (m = n /\ a < b) => ss[m][a] < ss[n][b]

\* After Slice the segments are the passes that are long enough, in order, whatever
\* lies between them: the erasure drops exactly the short ones.
SegmentsArePasses ==
    pc = "ready" /\ slices > 0 =>
        /\ {ToSet(rfSegments[n]) : n \in DOMAIN rfSegments} = Passes
        /\ Ordered(rfSegments)

\* A profile belongs to one segment at most, and once.  Holds for the first Slice of
\* a DataSlicer.  Refuted for the second one: PostProcess.hh says that what the getter
\* returns are "the profiles sorted into segments".
ProfilesInOneSegment ==
    \A m, n \in DOMAIN profileSegments :
        \A a \in DOMAIN profileSegments[m], b \in DOMAIN profileSegments[n] :
            profileSegments[m][a] = profileSegments[n][b] => m = n /\ a = b

\* The segment and the line an entry m of regularized[n] was computed from.
Reading(n, k) == rf[rfSegments[n][k]]
Time(m) == profiles[m.profile].t
Entries(n) == {regularized[n][j] : j \in DOMAIN regularized[n]}

\* The window a profile is corrected with is the one it was taken in: not before the
\* window's first reading, not after the profile's own, and after the reading before
\* that unless it precedes the first full window (PostProcess.cc:121-127).  This is not
\* where the line is evaluated, which is as far after the reading as the profile is
\* before it (UniformMotionRecovered).
ProfileWithinWindow ==
    pc = "compute" =>
        \A n \in DOMAIN regularized : \A m \in Entries(n) :
            /\ Reading(n, WindowStart(m.place)).t <= Time(m)
            /\ Time(m) <= Reading(n, m.place).t
            /\ m.place > WindowingSize + 1 => Reading(n, m.place - 1).t < Time(m)

\* The regression of a corrected profile finds its line, over all readings of its window:
\* none lacks a point, and they are not all of one time, so that the {0.0, 0.0} of a
\* failed regression (Utils.cc:27, 30) is never taken for a distance.  (A line that is
\* found has a denominator of 2 at least, and differs from NoLine.)
LineExists ==
    pc = "compute" =>
        \A n \in DOMAIN regularized : \A m \in Entries(n) :
            /\ LineAt(rfSegments[n], m.place) # NoLine
            /\ \A l \in DOMAIN Window(rfSegments[n], m.place) :
                  Window(rfSegments[n], m.place)[l].x # NoPoint

\* The readings of an entry's window lie on one line: there the motion was uniform.
Uniform(n, k) ==
    LET w == Window(rfSegments[n], k)
    IN  \A a, b, c \in DOMAIN w :
            (w[b].x - w[a].x) * (w[c].t - w[a].t) = (w[c].x - w[a].x) * (w[b].t - w[a].t)

\* Entry m lies where a uniform motion has it at the time the profile was taken.
AtProfileTime(n, m) ==
    LET w    == Window(rfSegments[n], m.place)
        here == Reading(n, m.place)
        dx   == here.x - w[1].x
        dt   == here.t - w[1].t
    IN  m.x * 10 * dt = (here.x * dt + dx * (Time(m) - here.t)) * m.den

\* A profile taken together with a reading during uniform motion gets just the
\* distance that reading measured.
TiedProfilesExact ==
    pc = "compute" =>
        \A n \in DOMAIN regularized : \A m \in Entries(n) :
            Uniform(n, m.place) /\ Time(m) = Reading(n, m.place).t => AtProfileTime(n, m)

\* Refuted by the code, which takes the correction the wrong way in time.
\* PostProcess.hh says the regularized profiles "account for the movement of the
\* profiler during scanning".
UniformMotionRecovered ==
    pc = "compute" =>
        \A n \in DOMAIN regularized : \A m \in Entries(n) :
            Uniform(n, m.place) => AtProfileTime(n, m)

-----------------------------------------------------------------------------
(* The inductive invariant.                                                *)

\* The recordings are those the constructor got.
RecordingsInv == rf \in Recordings /\ profiles \in ProfileRecordings

\* A loop of Slice runs in a call of Slice.
CallsInv == pc \in {"classify", "erase", "assign"} => slices > 0

\* A pass is complete as far as the loop has come: the current segment has no standstill
\* after it, and is empty just when there has been one since the last reading that moved.
ClassifyInv ==
    pc = "classify" =>
        /\ i + nIntervals <= Len(rf) + 1
        /\ Ordered(segs)
        /\ \A k \in Moved : k < i => \E n \in DOMAIN segs : k \in ToSet(segs[n])
        /\ \A n \in DOMAIN segs : \A k \in ToSet(segs[n]) :
              k \in Moved /\ ToSet(segs[n]) = {m \in PassOf(k) : m < i}
        /\ segs = <<>> => ~isIdle
        /\ segs # <<>> => (isIdle <=> segs[Len(segs)] = <<>>)
        /\ isIdle => \A k \in Moved : k < i => \E h \in Stood : k < h /\ h < i
        /\ segs # <<>> => \A k \in ToSet(segs[Len(segs)]) : ~ \E h \in Stood : k < h /\ h < i

\* The erasure drops short passes only, and the segments it leaves are whole ones.
PassesInv ==
    pc # "classify" /\ slices > 0 =>
        /\ nIntervals <= Len(rf)
        /\ Ordered(segs)
        /\ \A n \in DOMAIN segs : \A k \in ToSet(segs[n]) :
              k \in Moved /\ ToSet(segs[n]) = PassOf(k)
        /\ \A k \in Moved :
              \/ \E n \in DOMAIN segs : k \in ToSet(segs[n])
              \/ Cardinality(PassOf(k)) < MinSegment

\* The segments the erasure has passed are long, and it has not passed the end.
ErasureInv ==
    pc = "erase" =>
        /\ i <= Len(segs) + 1
        /\ \A n \in DOMAIN segs : n < i => Len(segs[n]) >= MinSegment

\* There are profiles, or none, for every segment once the first one has them.
AssignmentInv ==
    /\ pc \notin {"classify", "erase"} => segs = rfSegments
    /\ pc = "assign" => i = 1 \/ DOMAIN rfSegments \subseteq DOMAIN profileSegments
    /\ pc # "assign" => DOMAIN rfSegments \subseteq DOMAIN profileSegments

\* Every reading of a segment has a point.
PointsInv == \A n \in DOMAIN rfSegments : \A k \in ToSet(rfSegments[n]) : rf[k].x # NoPoint

\* Until a second Slice a segment has the profiles taken during it, once assigned.
FirstSliceInv ==
    slices <= 1 =>
        /\ slices = 0 \/ pc \in {"classify", "erase"} => profileSegments = <<>>
        /\ \A n \in DOMAIN profileSegments :
              /\ n \in DOMAIN rfSegments
              /\ profileSegments[n] \in {<<>>, ProfilesDuring(rfSegments[n])}
              /\ pc = "assign" /\ n >= i => profileSegments[n] = <<>>

\* What is computed is computed from the segment it is listed for.
ComputeInv ==
    pc = "compute" =>
        /\ Len(regularized) = i - 1
        /\ i <= Len(rfSegments) + 1
        /\ \A n \in DOMAIN regularized : \A m \in Entries(n) :
              /\ m.profile \in ToSet(profileSegments[n])
              /\ NotBefore(rfSegments[n], m.profile) # {}
              /\ m = Corrected(rfSegments[n], m.profile)

\* The inductive invariant of the proofs.
IInv ==
    /\ RecordingsInv
    /\ TypeOK
    /\ CallsInv
    /\ ClassifyInv
    /\ PassesInv
    /\ ErasureInv
    /\ AssignmentInv
    /\ NoShortSegment
    /\ PointsInv
    /\ FirstSliceInv
    /\ ComputeInv

\* Every call returns: the erasure, which puts its counter back, too.
CallsReturn == pc # "ready" ~> pc = "ready"
=============================================================================
