----------------------------- MODULE MCPThread -----------------------------
(***************************************************************************)
(* The instance of GUSIPThread that TLC checks.                            *)
(***************************************************************************)
EXTENDS GUSIPThread
=============================================================================
