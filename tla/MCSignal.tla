----------------------------- MODULE MCSignal -----------------------------
(***************************************************************************)
(* The instance of GUSISignal that TLC checks: the alarm (1), a signal     *)
(* that is ignored by default, as SIGCHLD is (2), and one that can be      *)
(* neither blocked nor caught, as SIGKILL (3).                             *)
(***************************************************************************)
EXTENDS GUSISignal

MCActions ==
  <<{Action("ignore", {}, {}), Action("catch", {}, {"restart"})},
    {Action("catch", {1}, {"resethand"})}, {Action("ignore", {}, {})}>>

MCMasks == {{1, 3}}
=============================================================================
