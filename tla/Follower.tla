------------------------------ MODULE Follower ------------------------------
(***************************************************************************)
(* An events file together with a file it reports on: a program opens the  *)
(* events of a window, reads for example its name, and reads it again      *)
(* after each event.  The event thread changes the file and publishes the  *)
(* event under the write lock of the file system; a reader of events       *)
(* sleeps without the read lock, but needs it to return.                   *)
(***************************************************************************)
EXTENDS EventFile

CONSTANT Unknown   \* not read, or an event has come since

ASSUME FollowerAssumption == Unknown \notin Nat

VARIABLES
    content,  \* number of changes the file shows, 0 while there is no file
    due,      \* announced, but not yet in the file
    known     \* what the program with each handle has read

follower == <<content, due, known>>
allvars  == <<vars, follower>>

FollowerInit ==
    /\ Init
    /\ content \in {0, 1}
    /\ due = FALSE
    /\ known = [h \in Handles |-> Unknown]

(***************************************************************************)
(* The write lock covers the change of the file and the event.             *)
(***************************************************************************)
Unlocked_early == FSUnlocked

Unlocked == FSUnlocked /\ ~due

(***************************************************************************)
(* WindowDirEntry::update: the file first.  When there is none it is made, *)
(* and the function returns before the event.                              *)
(***************************************************************************)
update ==
    /\ Unlocked
    /\ content # 0
    /\ addEvent
    /\ content' = content + 1
    /\ UNCHANGED <<due, known>>

addSpecEntry ==
    /\ Unlocked
    /\ ~m_deleted
    /\ content = 0
    /\ content' = 1
    /\ UNCHANGED <<vars, due, known>>

(***************************************************************************)
(* newParent: the event first.                                             *)
(***************************************************************************)
newParent ==
    /\ Unlocked
    /\ content # 0
    /\ addEvent
    /\ due' = TRUE
    /\ UNCHANGED <<content, known>>

updateParent ==
    /\ due
    /\ ev = "idle"
    /\ content' = content + 1
    /\ due' = FALSE
    /\ UNCHANGED <<vars, known>>

openEvents(h) ==
    /\ Unlocked
    /\ createOpenContext(h)
    /\ known' = [known EXCEPT ![h] = Unknown]
    /\ UNCHANGED <<content, due>>

closeEvents(h) ==
    /\ Unlocked
    /\ destroyOpenContext(h)
    /\ known' = [known EXCEPT ![h] = Unknown]
    /\ UNCHANGED <<content, due>>

(***************************************************************************)
(* The read of events returns to the program, if it is one.                *)
(***************************************************************************)
returnEvent(t) ==
    /\ Unlocked
    /\ replyRead(t)
    /\ known' = IF res[t] = "event" THEN [known EXCEPT ![serving[t]] = Unknown] ELSE known
    /\ UNCHANGED <<content, due>>

Reading(h) == \E t \in Threads : serving[t] = h /\ pc[t] # "idle"

(***************************************************************************)
(* A read of the file; where there is none yet, the program knows that.    *)
(***************************************************************************)
readFile(h) ==
    /\ Unlocked
    /\ DirectoryFree
    /\ ~m_deleted
    /\ h \in opened
    /\ ~Reading(h)
    /\ known' = [known EXCEPT ![h] = content]
    /\ UNCHANGED <<vars, content, due>>

withLock == /\ Unlocked
            /\ \/ addDestroyedEvent
               \/ readAbortPipe
               \/ \E t \in Threads, h \in Handles : read(t, h)
            /\ UNCHANGED follower

withoutLock == /\ \/ broadcast
                  \/ markDeleted
                  \/ aborting
                  \/ \E t \in Threads : readEvent(t) \/ spuriousWakeup(t) \/ signalThread(t)
               /\ UNCHANGED follower

FollowerNext ==
    \/ update \/ addSpecEntry
    \/ newParent \/ updateParent
    \/ \E h \in Handles : openEvents(h) \/ closeEvents(h) \/ readFile(h)
    \/ \E t \in Threads : returnEvent(t)
    \/ withLock
    \/ withoutLock

(***************************************************************************)
(* As in EventFile: one strong fairness for the event thread, which also   *)
(* finishes its update, and one for each worker.                           *)
(***************************************************************************)
eventThreadStep ==
    \/ updateParent
    \/ (broadcast \/ markDeleted \/ aborting) /\ UNCHANGED follower
    \/ Unlocked /\ readAbortPipe /\ UNCHANGED follower

FollowerFairness ==
    /\ SF_allvars(eventThreadStep)
    /\ \A t \in Threads :
         SF_allvars(returnEvent(t) \/ (readEvent(t) /\ UNCHANGED follower))

FollowerSpec == FollowerInit /\ [][FollowerNext]_allvars /\ FollowerFairness

-----------------------------------------------------------------------------
(***************************************************************************)
(* "To obtain the new value you need to read the file in question"         *)
(* (xwmfs.asciidoc:100): a program that reads the file after each event    *)
(* and finds no more of them knows what the file shows, also when older    *)
(* events were dropped and when the event came before the change.  Only    *)
(* the making of a file that it found missing may escape it.               *)
(***************************************************************************)
UpToDate(h) == known[h] = content \/ known[h] = 0

FollowerKnows ==
    \A h \in opened :
        /\ Unlocked
        /\ known[h] # Unknown
        /\ last[h] = published
        /\ \A t \in Threads : serving[t] = h => pc[t] # "leave"
        => UpToDate(h)
=============================================================================
