------------------------- MODULE MCTCPCommunicator -------------------------
(***************************************************************************)
(* TCPCommunicator for TLC: the bounds are numbers, given in the cfg.      *)
(***************************************************************************)
EXTENDS TCPCommunicator
=============================================================================
