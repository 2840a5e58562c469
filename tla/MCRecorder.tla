----------------------------- MODULE MCRecorder -----------------------------
(***************************************************************************)
(* The instance of Recorder that TLC checks, with both classes.            *)
(***************************************************************************)
EXTENDS Recorder
=============================================================================
