----------------------------- MODULE EntryTreeMC -----------------------------
(***************************************************************************)
(* EntryTree for TLC.  Objects, handles and threads are interchangeable,   *)
(* but the run also checks a liveness property: no symmetry.               *)
(***************************************************************************)
EXTENDS EntryTree, TLC

MCWindows    == {"w"}
MCFiles      == {"e", "n"}
MCEventFiles == {"e"}

(***************************************************************************)
(* All paths of up to four letters, those of the files, and with a slash   *)
(* too many.                                                               *)
(***************************************************************************)
MCPaths ==
    LET letters == {"/", "w", "n"}
    IN  {<<"/">> \o rest : rest \in UNION {[1..len -> letters] : len \in 0..3}}
        \cup {<<"/", w, "/", n>> \o tail :
                  w \in MCWindows, n \in MCFiles, tail \in {<<>>, <<"/">>, <<"/", "n">>}}
        \cup {<<"/", w, "/", "/">> \o tail : w \in MCWindows, tail \in {<<>>, <<"n">>}}
=============================================================================
