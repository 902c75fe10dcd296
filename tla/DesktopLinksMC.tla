--------------------------- MODULE DesktopLinksMC ---------------------------
(***************************************************************************)
(* DesktopLinks for TLC.  Desktops are numbers and the windows differ in   *)
(* what they may do, so there is no symmetry to use.                       *)
(***************************************************************************)
EXTENDS DesktopLinks, TLC
=============================================================================
