------------------------------ MODULE MCMTTcp ------------------------------
(***************************************************************************)
(* The instance of GUSIMTTcp that TLC checks.                              *)
(***************************************************************************)
EXTENDS GUSIMTTcp
=============================================================================
