------------------------------ MODULE MCSelect ------------------------------
(***************************************************************************)
(* Two contexts, the console and another socket, two descriptors.          *)
(***************************************************************************)
EXTENDS GUSISelect, TLC

Symmetry == Permutations(Contexts)
=============================================================================
