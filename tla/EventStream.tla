---------------------------- MODULE EventStream ----------------------------
(***************************************************************************)
(* What an "events" file promises its readers, without saying how.        *)
(*                                                                         *)
(* The file publishes a sequence of events.  Whoever opens it follows the  *)
(* sequence from that point on: events arrive in the order in which they   *)
(* were published, none arrives twice, and an event is skipped only when   *)
(* MaxBacklog younger ones have been published (EventFile.hxx:26-27).      *)
(* End-of-file is reported only to a reader that has seen everything up    *)
(* to the last event, the "destroyed" event of a closed window.            *)
(***************************************************************************)
EXTENDS Integers

CONSTANTS Handles,     \* open file descriptions
          MaxBacklog   \* events kept for a slow reader, at least one

VARIABLES published,   \* number of events published so far
          closed,      \* the window the file belongs to is gone
          followers,   \* the handles that are open
          cursor,      \* number of the event last seen by each handle
          ended        \* the handles that were told end-of-file

vars == <<published, closed, followers, cursor, ended>>

Larger(a, b) == IF a >= b THEN a ELSE b

Init == /\ published = 0
        /\ closed = FALSE
        /\ followers = {}
        /\ cursor = [h \in Handles |-> 0]
        /\ ended = {}

Publish == /\ ~closed
           /\ published' = published + 1
           /\ UNCHANGED <<closed, followers, cursor, ended>>

Close == /\ ~closed
         /\ closed' = TRUE
         /\ UNCHANGED <<published, followers, cursor, ended>>

Follow(h) == /\ ~closed
             /\ h \notin followers
             /\ followers' = followers \cup {h}
             /\ cursor' = [cursor EXCEPT ![h] = published]
             /\ ended' = ended \ {h}
             /\ UNCHANGED <<published, closed>>

(***************************************************************************)
(* The follower gets the event after the last one it saw, or the oldest    *)
(* one still kept when that one has been dropped.                          *)
(***************************************************************************)
Deliver(h) == /\ h \in followers
              /\ cursor[h] < published
              /\ cursor' = [cursor EXCEPT ![h] =
                              Larger(cursor[h], published - MaxBacklog) + 1]
              /\ UNCHANGED <<published, closed, followers, ended>>

EndOfStream(h) == /\ h \in followers
                  /\ closed
                  /\ cursor[h] = published
                  /\ ended' = ended \cup {h}
                  /\ UNCHANGED <<published, closed, followers, cursor>>

Leave(h) == /\ h \in followers
            /\ followers' = followers \ {h}
            /\ cursor' = [cursor EXCEPT ![h] = 0]
            /\ ended' = ended \ {h}
            /\ UNCHANGED <<published, closed>>

Next == \/ Publish
        \/ Close
        \/ \E h \in Handles : \/ Follow(h)
                              \/ Deliver(h)
                              \/ EndOfStream(h)
                              \/ Leave(h)

Spec == Init /\ [][Next]_vars
=============================================================================
