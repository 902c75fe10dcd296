----------------------------- MODULE SelectionMC -----------------------------
(***************************************************************************)
(* Selection for TLC.  Every run checks a temporal property, so there is   *)
(* no symmetry to use.                                                     *)
(***************************************************************************)
EXTENDS Selection, TLC

CONSTANTS t1, t2, c1, c2

\* One user, who also writes.
Alone == [users |-> {t1}, contents |-> {c1, c2}, aborts |-> FALSE, writes |-> TRUE,
          changes |-> 3]

\* Two users, who also write.
Shared == [users |-> {t1, t2}, contents |-> {c1}, aborts |-> FALSE, writes |-> TRUE,
           changes |-> 1]

\* Two users, with interrupted reads and the shutdown.
Interrupted == [Shared EXCEPT !.aborts = TRUE, !.writes = FALSE, !.changes = 0]

\* Two users who only read.
Readers == [Shared EXCEPT !.writes = FALSE]

AllSetups   == {Alone, Shared, Interrupted}
OnlyReaders == {Readers}
=============================================================================
