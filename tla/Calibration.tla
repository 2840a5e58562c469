---------------------------- MODULE Calibration ----------------------------
(***************************************************************************)
(* The geometry of the two Grasshopper components: the calibration finds   *)
(* the map from the profiler's coordinates to the machine's, and the       *)
(* streaming component moves what was scanned along other trajectories     *)
(* with it.                                                                *)
(*                                                                         *)
(* Coordinates are pairs <<y, z>> of integers and rotations are quarter    *)
(* turns about x, along which the profiler moves: integers keep the order  *)
(* of rotations, shifts and reflections visible.  umeyama and the ICP are  *)
(* external: the picked points may give any map, the ICP then carries the  *)
(* cloud to the targets.                                                   *)
(***************************************************************************)
EXTENDS Integers, Sequences

CONSTANTS
    Points,         \* the points of the machine that are scanned
    Lines,          \* where trajectories start
    Shifts,         \* translations of a mount, and of the map from imprecise picks
    MaxPasses,      \* bound: trajectories, and segments found in one recording
    MaxPoints       \* bound: points of a segment

ASSUME GeometryAssumption ==
    /\ Points \subseteq Int \X Int
    /\ Lines \subseteq Int \X Int
    /\ Shifts \subseteq Int \X Int
    /\ MaxPasses \in Nat /\ MaxPoints \in Nat

VARIABLES
    mount,          \* from the profiler's coordinates to those of the tool end
    mirrored,       \* the profiler sees y reversed: i_flip_y_axis
    line,           \* i_trajectory[0], along which the calibration scans
    trajectories,   \* i_trajectories
    targets,        \* i_reference_targets are given
    scanned,        \* per segment, the points of the machine it shows
    step,           \* how far the components have come
    raw,            \* the flipped segment the calibration works on
    cloud,          \* rh_pc, its points in the machine's coordinates
    total,          \* total_rh_transform
    data,           \* o_calibration_data, <<>> while there is none
    results         \* the clouds of the segments that were streamed

given == <<mount, mirrored, line, trajectories, targets, scanned>>
calibration == <<raw, cloud, total, data>>
vars == <<given, step, calibration, results>>

-----------------------------------------------------------------------------
(* Rigid maps of the plane.                                                *)

Plus(p, q) == <<p[1] + q[1], p[2] + q[2]>>
Minus(p, q) == <<p[1] - q[1], p[2] - q[2]>>
Flipped(flip, p) == IF flip THEN <<-p[1], p[2]>> ELSE p

Turned(turn, p) ==
    CASE turn = 0 -> p
      [] turn = 1 -> <<-p[2], p[1]>>
      [] turn = 2 -> <<-p[1], -p[2]>>
      [] turn = 3 -> <<p[2], -p[1]>>

Moved(map, p) == Plus(Turned(map.turn, p), map.shift)
Times(a, b) == [turn |-> (a.turn + b.turn) % 4, shift |-> Moved(a, b.shift)]
Inverted(map) ==
    LET back == (4 - map.turn) % 4
    IN  [turn |-> back, shift |-> Turned(back, Minus(<<0, 0>>, map.shift))]

\* The same for the points of a segment.
AllMoved(map, s) == [k \in DOMAIN s |-> Moved(map, s[k])]

-----------------------------------------------------------------------------
(* The machine: a point seen from a trajectory that starts at from.        *)

\* The map the calibration looks for.
Truth(from) == [turn |-> mount.turn, shift |-> Plus(mount.shift, from)]

Measured(from, p) == Flipped(mirrored, Moved(Inverted(Truth(from)), p))

\* What the profiler is given as a pass: the points of a segment as it sees them.
Pass(from, s) == [k \in DOMAIN s |-> Measured(from, s[k])]

\* Pass i follows trajectory i; passes beyond the last one repeat it.
TrajectoryOf(i) ==
    trajectories[IF i <= Len(trajectories) THEN i ELSE Len(trajectories)]

-----------------------------------------------------------------------------
RigidMaps == [turn : 0 .. 3, shift : Shifts]
SeqsUpTo(S, n) == UNION {[1 .. k -> S] : k \in 1 .. n}

Init ==
    /\ mount \in RigidMaps
    /\ mirrored \in BOOLEAN
    /\ line \in Lines
    /\ trajectories \in SeqsUpTo(Lines, MaxPasses)
    /\ targets \in BOOLEAN
    /\ scanned \in SeqsUpTo(SeqsUpTo(Points, MaxPoints), MaxPasses)
    /\ step = "sort"
    /\ raw = <<>> /\ cloud = <<>>
    /\ total = [turn |-> 0, shift |-> <<0, 0>>]
    /\ data = <<>>
    /\ results = <<>>

\* The first of the longest segments is taken, and flipped if the input says so.
TakeLongest ==
    /\ step = "sort" /\ step' = "first"
    /\ \E i \in DOMAIN scanned :
          /\ \A j \in DOMAIN scanned : Len(scanned[j]) <= Len(scanned[i])
          /\ \A j \in 1 .. i - 1 : Len(scanned[j]) < Len(scanned[i])
          /\ LET pass == Pass(line, scanned[i])
             IN  raw' = [k \in DOMAIN pass |-> Flipped(mirrored, pass[k])]
    /\ cloud' = raw'
    /\ UNCHANGED <<given, total, data, results>>

\* The map from the points picked to the reference points, exact unless targets are
\* given to refine it.
FirstTransform ==
    /\ step = "first" /\ step' = IF targets THEN "second" ELSE "output"
    /\ \E first \in IF targets THEN RigidMaps ELSE {Truth(line)} :
          /\ cloud' = AllMoved(first, cloud)
          /\ total' = first
    /\ UNCHANGED <<given, raw, data, results>>

\* What the ICP finds.
Refinement == Times(Truth(line), Inverted(total))

\* Fault: the transforms are multiplied in the order they were found.
SecondTransformSwapped ==
    /\ step = "second" /\ step' = "output"
    /\ cloud' = AllMoved(Refinement, cloud)
    /\ total' = Times(total, Refinement)
    /\ UNCHANGED <<given, raw, data, results>>

SecondTransform ==
    /\ step = "second" /\ step' = "output"
    /\ cloud' = AllMoved(Refinement, cloud)
    /\ total' = Times(Refinement, total)
    /\ UNCHANGED <<given, raw, data, results>>

Output ==
    /\ step = "output" /\ step' = "stream"
    /\ data' = <<total, line[1], line[2], mirrored>>
    /\ UNCHANGED <<given, raw, cloud, total, results>>

\* Fault: the points are moved along y before they are turned.
PlaceShiftingFirst(from, p) ==
    Moved(data[1], Plus(Flipped(data[4], p), <<from[1] - data[2], 0>>))

\* The translation of the map follows the trajectory in y; the line that would make it
\* follow in z is commented out.
Place(from, p) ==
    Plus(Moved(data[1], Flipped(data[4], p)), <<from[1] - data[2], 0>>)

\* The same pass, or another, scanned again and streamed, segment by segment.
StreamSegment ==
    /\ step = "stream"
    /\ Len(results) < Len(scanned)
    /\ LET i == Len(results) + 1
           from == TrajectoryOf(i)
           pass == Pass(from, scanned[i])
       IN  results' = Append(results, [k \in DOMAIN pass |-> Place(from, pass[k])])
    /\ UNCHANGED <<given, step, calibration>>

Done ==
    /\ step = "stream" /\ Len(results) = Len(scanned)
    /\ UNCHANGED vars

Next == TakeLongest \/ FirstTransform \/ SecondTransform \/ Output \/ StreamSegment \/ Done

Spec == Init /\ [][Next]_vars

-----------------------------------------------------------------------------
(* Properties.                                                             *)

Pairs == Int \X Int
Maps == [turn : 0 .. 3, shift : Pairs]

\* Every variable has its type.
TypeOK ==
    /\ mount \in Maps
    /\ mirrored \in BOOLEAN
    /\ line \in Pairs
    /\ trajectories \in Seq(Pairs) /\ trajectories # <<>>
    /\ targets \in BOOLEAN
    /\ scanned \in Seq(Seq(Pairs))
    /\ step \in {"sort", "first", "second", "output", "stream"}
    /\ raw \in Seq(Pairs) /\ cloud \in Seq(Pairs)
    /\ total \in Maps
    /\ results \in Seq(Seq(Pairs))

\* The cloud that is shown and the map that is handed on belong together: the map, one
\* matrix product, does to the raw points what the one or two transforms did to the
\* cloud (calibrate/code.py:142-146, 191-192).
CloudMatchesTransform ==
    step \in {"second", "output", "stream"} => cloud = AllMoved(total, raw)

\* What the streaming rests on: the map handed on is the map looked for, whatever the
\* points picked first gave, and goes with the trajectory and the flip it was found for.
MapFound ==
    /\ step = "first" => cloud = raw
    /\ step \in {"output", "stream"} => total = Truth(line)
    /\ step = "stream" => data = <<total, line[1], line[2], mirrored>>
    /\ step # "stream" => results = <<>>
    /\ Len(results) <= Len(scanned)

\* Every point that is streamed comes to lie where it is in the machine, whatever
\* trajectory it was scanned along, up to the height of that trajectory above the one
\* of the calibration, which is not followed (stream/code.py:104-127).
StreamedInMachine ==
    \A i \in DOMAIN results :
        results[i] = [k \in DOMAIN scanned[i] |->
                         Minus(scanned[i][k], <<0, TrajectoryOf(i)[2] - line[2]>>)]

\* The inductive invariant.
IInv == TypeOK /\ CloudMatchesTransform /\ MapFound /\ StreamedInMachine
=============================================================================
