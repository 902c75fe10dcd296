----------------------------- MODULE FollowerMC -----------------------------
(***************************************************************************)
(* Follower for TLC.  The run checks liveness properties: no symmetry.     *)
(***************************************************************************)
EXTENDS Follower, TLC
=============================================================================
