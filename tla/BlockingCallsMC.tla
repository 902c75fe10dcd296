-------------------------- MODULE BlockingCallsMC --------------------------
(***************************************************************************)
(* BlockingCalls for TLC: threads and directories are interchangeable.     *)
(***************************************************************************)
EXTENDS BlockingCalls, TLC

Symmetry == Permutations(Threads) \cup Permutations(Dirs)
=============================================================================
