----------------------------- MODULE MCContext -----------------------------
(***************************************************************************)
(* The instances of GUSIContext that TLC checks: the main thread and one   *)
(* or two others.                                                          *)
(***************************************************************************)
EXTENDS GUSIContext
=============================================================================
