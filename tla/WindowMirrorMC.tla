--------------------------- MODULE WindowMirrorMC ---------------------------
(***************************************************************************)
(* WindowMirror for TLC: window ids and names are interchangeable.         *)
(***************************************************************************)
EXTENDS WindowMirror, TLC

Symmetry == Permutations(Windows) \cup Permutations(Names)

(***************************************************************************)
(* Ids come back where the window manager does not reparent.               *)
(***************************************************************************)
IdsReused ==
    [handle_pseudo : {FALSE}, reparenting : {FALSE}, recycling : {TRUE}]

AllSetups ==
    IdsReused
        \cup [handle_pseudo : {TRUE}, reparenting : BOOLEAN, recycling : {TRUE}]
        \cup [handle_pseudo : BOOLEAN, reparenting : {TRUE}, recycling : {FALSE}]
=============================================================================
