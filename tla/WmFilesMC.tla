----------------------------- MODULE WmFilesMC -----------------------------
(***************************************************************************)
(* WmFiles for TLC.  The run checks a temporal property, so there is no    *)
(* symmetry to use.                                                        *)
(***************************************************************************)
EXTENDS WmFiles, TLC
=============================================================================
