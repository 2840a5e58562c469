------------------------- MODULE MCOPCUACommunicator -------------------------
(***************************************************************************)
(* The instance of OPCUACommunicator that TLC checks: the distance the     *)
(* mock server's node holds before its first update, and the two ends of   *)
(* its oscillation, whose high and low bytes differ.                       *)
(***************************************************************************)
EXTENDS OPCUACommunicator

MCDistances == {0, 500, 1500}
=============================================================================
