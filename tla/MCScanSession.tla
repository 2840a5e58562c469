--------------------------- MODULE MCScanSession ---------------------------
(***************************************************************************)
(* The instance of ScanSession that TLC checks, with both components.      *)
(***************************************************************************)
EXTENDS ScanSession
=============================================================================
