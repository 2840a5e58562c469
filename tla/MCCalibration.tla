--------------------------- MODULE MCCalibration ---------------------------
(***************************************************************************)
(* Calibration for TLC.  Two points off the axes tell every quarter turn   *)
(* and reflection apart; the trajectories differ in y, or in y and z.      *)
(***************************************************************************)
EXTENDS Calibration

MCPoints == {<<0, 0>>, <<2, 1>>}
MCLines == {<<0, 0>>, <<3, 0>>, <<5, 4>>}
MCShifts == {<<0, 0>>, <<1, -2>>}
=============================================================================
