------------------------------- MODULE MCPipe -------------------------------
(***************************************************************************)
(* GUSIPipe with a few threads and one pair of sockets at a time.            *)
(***************************************************************************)
EXTENDS GUSIPipe, TLC

\* No action tells the threads, or the sockets of a pair, apart by name.
Symmetry == Permutations(Threads) \cup Permutations(PipeSockets)
=============================================================================
