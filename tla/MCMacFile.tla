----------------------------- MODULE MCMacFile -----------------------------
(***************************************************************************)
(* A file of five bytes, the longest there is: it grows again after it has  *)
(* been truncated.  Buffers of four and two bytes, blocks of two.          *)
(***************************************************************************)
EXTENDS GUSIMacFile

MCStart == <<1, 2, 3, 4, 5>>
=============================================================================
