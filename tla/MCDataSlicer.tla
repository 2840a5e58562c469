---------------------------- MODULE MCDataSlicer ----------------------------
(***************************************************************************)
(* The instances of DataSlicer that TLC checks: recordings of eight        *)
(* readings, 10 ms apart, every other one half a millisecond late.         *)
(* Between two of them the profiler stands still or moves by 10 units, and *)
(* at most one of them has no points, so that a recording has up to four   *)
(* passes.  Times are in half milliseconds.                                *)
(***************************************************************************)
EXTENDS DataSlicer

Readings == 8
Steps == [1 .. Readings - 1 -> {0, 10}]

\* The distance at reading k when the profiler moves by the given steps.
Reached(steps, k) == 10 * Cardinality({j \in 1 .. k - 1 : steps[j] = 10})

\* The recording of the steps in which reading number missing has no points.
RecordingOf(steps, missing) ==
    [k \in 1 .. Readings |->
        [t |-> 20 * k + (IF k % 2 = 0 THEN 1 ELSE 0), x |-> IF k = missing THEN NoPoint ELSE Reached(steps, k)]]

MCRecordings == {RecordingOf(s, m) : s \in Steps, m \in 0 .. Readings}

\* The recordings without a gap that begin with a short pass and end with a standstill.
BeginShortEndStill == {s \in Steps : s[1] = 10 /\ s[2] = 0 /\ s[Readings - 1] = 0}
MCFewRecordings == {RecordingOf(s, 0) : s \in BeginShortEndStill}

\* Profiles every 5 ms, some together with a reading, some without points; profiles
\* between the readings; none.
Dense   == [p \in 1 .. 15 |-> [t |-> 10 * p + 10, empty |-> p % 5 = 2]]
Between == [p \in 1 .. 7 |-> [t |-> 20 * p + 10, empty |-> FALSE]]
MCProfileRecordings == {Dense, Between, <<>>}
MCFewProfileRecordings == {Dense, Between}

\* A stride of one reading, of two readings (the second one is 10.5 ms after the first,
\* which is not more than 10 ms), and none.
MCIntervals == {5, 10, 100}
MCTwoIntervals == {5, 10}
=============================================================================
