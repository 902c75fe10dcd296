---------------------------- MODULE EventFileMC ----------------------------
(***************************************************************************)
(* EventFile for TLC: threads and handles are interchangeable.             *)
(***************************************************************************)
EXTENDS EventFile, TLC

Symmetry == Permutations(Threads) \cup Permutations(Handles)
=============================================================================
