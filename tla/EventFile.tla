----------------------------- MODULE EventFile -----------------------------
(***************************************************************************)
(* One "events" file of a window directory (fuse/EventFile, AbortHandler,  *)
(* the blocking-call bookkeeping of main/Xwmfs): a bounded queue filled by *)
(* the event thread and drained by FUSE worker threads that sleep on a     *)
(* condition variable while nothing is new.                                *)
(*                                                                         *)
(* One action is one critical section of the directory mutex, unless a     *)
(* second mutex is asked for within it: that of the registry of blocked    *)
(* threads, which readers take under the directory's and the event thread, *)
(* to abort a call, before it.  The text of the n-th event is abstracted   *)
(* to n, so ids (which wrap around) and events (which do not) can be told  *)
(* apart.                                                                  *)
(***************************************************************************)
EXTENDS Integers, Sequences, FiniteSets

CONSTANTS Threads,       \* FUSE worker threads
          Handles,       \* open file descriptions (OpenContext objects)
          MaxBacklog,    \* m_max_backlog, 64 in the program
          INVALID,       \* Event::ID::INVALID, 2^64 - 1 in the program
          MaxEvents,     \* bound: events published in a behaviour
          PipeCapacity   \* abort messages the pipe holds

ASSUME EventFileAssumption ==
    /\ MaxBacklog \in Nat \ {0}
    /\ INVALID \in Nat \ {0, 1}
    /\ MaxEvents \in Nat
    /\ PipeCapacity \in Nat \ {0}
    /\ Threads \cap {"SHUTDOWN"} = {}

VARIABLES
    m_event_queue,    \* the queued events, oldest first
    m_next_id,        \* the id given out last
    m_deleted,        \* the entry was taken out of its directory
    m_refcount,       \* one for the directory and one per open context
    opened,           \* handles with an EventOpenContext
    nonblocking,      \* handles opened with O_NONBLOCK
    cur_id,           \* EventOpenContext::cur_id of each handle
    pc,               \* where each worker thread is
    serving,          \* handle a worker thread reads from
    res,              \* what a read that leaves is answered
    m_abort_set,      \* threads an abort was recorded for
    m_blocking_calls, \* threads registered as blocked on this file
    m_shutdown,       \* Xwmfs::m_shutdown
    abort_pipe,       \* messages of the signal handlers to the event thread
    ev,               \* where the event thread is
    to_abort,         \* threads it has still to abort
    abort_all,        \* it is in abortAllBlockingCalls
    published,        \* ghost: events published so far
    last,             \* ghost: event each handle has seen last
    ended             \* ghost: handles that were told end-of-file

file    == <<m_event_queue, m_next_id, m_deleted, m_refcount, published>>
context == <<opened, nonblocking, cur_id, last, ended>>
thread  == <<pc, serving, res>>
abort   == <<m_abort_set, m_blocking_calls, m_shutdown, abort_pipe, to_abort,
             abort_all>>
vars    == <<file, context, thread, abort, ev>>

Event    == [text : Nat, id : Nat]
Results  == {"none", "event", "EOF", "ENODATA", "ENXIO"}
Places   == {"idle", "enter", "register", "wait", "woken", "unregister", "leave"}
EvStates == {"idle", "notify", "notify_destroyed", "mark", "notify_deleted",
             "abort", "notify_abort"}

Oldest == m_event_queue[1]
Newest == m_event_queue[Len(m_event_queue)]

(***************************************************************************)
(* The event thread holds the write lock of the file system while it       *)
(* handles an X event, so no other request of FUSE is served meanwhile; it *)
(* has no lock of the file system when it acts upon the abort pipe.        *)
(***************************************************************************)
FSUnlocked == ev \in {"idle", "abort", "notify_abort"}

(***************************************************************************)
(* Who keeps a mutex beyond one action: a reader the directory's, while it *)
(* asks for the registry's; the event thread the registry's, while it      *)
(* aborts calls.                                                           *)
(***************************************************************************)
DirectoryFree == \A t \in Threads : pc[t] \notin {"register", "unregister"}
RegistryFree  == ev \notin {"abort", "notify_abort"}

TypeOK ==
    /\ m_event_queue \in Seq(Event)
    /\ m_next_id \in Nat
    /\ m_deleted \in BOOLEAN
    /\ m_refcount \in Int
    /\ opened \subseteq Handles
    /\ nonblocking \subseteq opened
    /\ cur_id \in [Handles -> Nat]
    /\ pc \in [Threads -> Places]
    /\ serving \in [Threads -> Handles]
    /\ res \in [Threads -> Results]
    /\ m_abort_set \subseteq Threads
    /\ m_blocking_calls \subseteq Threads
    /\ m_shutdown \in BOOLEAN
    /\ abort_pipe \in Seq(Threads \cup {"SHUTDOWN"})
    /\ ev \in EvStates
    /\ to_abort \subseteq Threads
    /\ abort_all \in BOOLEAN
    /\ published \in Nat
    /\ last \in [Handles -> Nat]
    /\ ended \subseteq Handles

Init ==
    /\ m_event_queue = <<>>
    /\ m_next_id = 0
    /\ m_deleted = FALSE
    /\ m_refcount = 1
    /\ opened = {}
    /\ nonblocking = {}
    /\ cur_id = [h \in Handles |-> INVALID]
    /\ pc = [t \in Threads |-> "idle"]
    /\ serving \in [Threads -> Handles]   \* means nothing before the first read
    /\ res = [t \in Threads |-> "none"]
    /\ m_abort_set = {}
    /\ m_blocking_calls = {}
    /\ m_shutdown = FALSE
    /\ abort_pipe = <<>>
    /\ ev = "idle"
    /\ to_abort = {}
    /\ abort_all = FALSE
    /\ published = 0
    /\ last = [h \in Handles |-> 0]
    /\ ended = {}

-----------------------------------------------------------------------------
(* The event thread publishes.                                             *)

(***************************************************************************)
(* What nextID and the reset after it leave in m_next_id: the id INVALID   *)
(* is handed out, only the counter skips it.                               *)
(***************************************************************************)
nextID == m_next_id + 1
AfterID(id) == IF id = INVALID THEN 0 ELSE id

Trimmed_early == IF Len(m_event_queue) + 1 = MaxBacklog
                 THEN Tail(m_event_queue) ELSE m_event_queue

Trimmed == IF Len(m_event_queue) = MaxBacklog
           THEN Tail(m_event_queue) ELSE m_event_queue

(***************************************************************************)
(* addEvent up to the release of the directory mutex; without any          *)
(* reference it returns and wakes nobody.                                  *)
(***************************************************************************)
pushEvent(broadcast_from, otherwise) ==
    /\ DirectoryFree
    /\ published' = published + 1
    /\ IF m_refcount = 0
       THEN /\ ev' = otherwise
            /\ UNCHANGED <<m_event_queue, m_next_id>>
       ELSE /\ ev' = broadcast_from
            /\ m_event_queue' = Append(Trimmed, [text |-> published + 1, id |-> nextID])
            /\ m_next_id' = AfterID(nextID)

addEvent ==
    /\ ev = "idle"
    /\ ~m_deleted
    /\ published < MaxEvents
    /\ pushEvent("notify", "idle")
    /\ UNCHANGED <<m_deleted, m_refcount, context, thread, abort>>

(***************************************************************************)
(* The window is gone: WindowDirEntry::markDeleted publishes "destroyed"   *)
(* before the directory and the files in it are marked.                    *)
(***************************************************************************)
addDestroyedEvent ==
    /\ ev = "idle"
    /\ ~m_deleted
    /\ pushEvent("notify_destroyed", "mark")
    /\ UNCHANGED <<m_deleted, m_refcount, context, thread, abort>>

WakeAll_never == UNCHANGED pc
WakeAll_signal == \/ /\ \A t \in Threads : pc[t] # "wait"
                     /\ UNCHANGED pc
                  \/ \E t \in Threads : /\ pc[t] = "wait"
                                         /\ pc' = [pc EXCEPT ![t] = "woken"]

BroadcastDue == ev \in {"notify", "notify_destroyed", "notify_deleted", "notify_abort"}

WakeAll == pc' = [t \in Threads |-> IF pc[t] = "wait" THEN "woken" ELSE pc[t]]

(***************************************************************************)
(* m_cond.broadcast() at the end of addEvent, markDeleted and, for each    *)
(* thread, AbortHandler::abort.                                            *)
(***************************************************************************)
broadcast ==
    /\ BroadcastDue
    /\ WakeAll
    /\ ev' = CASE ev = "notify_destroyed" -> "mark"
               [] ev = "notify_abort"     -> "abort"
               [] OTHER                   -> "idle"
    /\ UNCHANGED <<file, context, serving, res, abort>>

ref   == m_refcount' = m_refcount + 1
unref == m_refcount' = m_refcount - 1

markDeleted ==
    /\ ev = "mark"
    /\ DirectoryFree
    /\ m_deleted' = TRUE
    /\ unref
    /\ ev' = "notify_deleted"
    /\ UNCHANGED <<m_event_queue, m_next_id, published, context, thread, abort>>

-----------------------------------------------------------------------------
(* Opening and closing the file.                                           *)

(***************************************************************************)
(* "No outdated events are presented to new readers": a new context starts *)
(* at the youngest event.                                                  *)
(***************************************************************************)
FirstId_none == INVALID

FirstId == IF m_event_queue = <<>> THEN INVALID ELSE Newest.id

createOpenContext(h) ==
    /\ FSUnlocked
    /\ ~m_deleted
    /\ h \notin opened
    /\ opened' = opened \cup {h}
    /\ nonblocking' \in {nonblocking, nonblocking \cup {h}}
    /\ cur_id' = [cur_id EXCEPT ![h] = FirstId]
    /\ ref
    /\ last' = [last EXCEPT ![h] = published]
    /\ ended' = ended \ {h}
    /\ UNCHANGED <<m_event_queue, m_next_id, m_deleted, published, thread, abort, ev>>

(***************************************************************************)
(* The kernel releases a handle when no request uses it any more; with the *)
(* EventOpenContext goes what it held.                                     *)
(***************************************************************************)
destroyOpenContext(h) ==
    /\ FSUnlocked
    /\ h \in opened
    /\ \A t \in Threads : serving[t] = h => pc[t] = "idle"
    /\ opened' = opened \ {h}
    /\ nonblocking' = nonblocking \ {h}
    /\ cur_id' = [cur_id EXCEPT ![h] = INVALID]
    /\ unref
    /\ last' = [last EXCEPT ![h] = 0]
    /\ ended' = ended \ {h}
    /\ UNCHANGED <<m_event_queue, m_next_id, m_deleted, published, thread, abort, ev>>

-----------------------------------------------------------------------------
(* Reading.                                                                *)

(***************************************************************************)
(* xwmfs_read asks under the read lock of the file system whether the      *)
(* entry may be read.  Events files may even when they are deleted, unlike *)
(* all other entries (Entry::isOperationAllowed).  EventFile::read gives   *)
(* the lock up before it takes the directory mutex.                        *)
(***************************************************************************)
isOperationAllowed_inherited == ~m_deleted

isOperationAllowed == TRUE

read(t, h) ==
    /\ FSUnlocked
    /\ pc[t] = "idle"
    /\ h \in opened
    /\ pc' = [pc EXCEPT ![t] = IF isOperationAllowed THEN "enter" ELSE "leave"]
    /\ res' = [res EXCEPT ![t] = IF isOperationAllowed THEN "none" ELSE "ENXIO"]
    /\ serving' = [serving EXCEPT ![t] = h]
    /\ UNCHANGED <<file, context, abort, ev>>

(***************************************************************************)
(* The event after prev_id, as a set: empty for nullptr.  An index beyond  *)
(* the deque is undefined behaviour and a failed search throws; both yield *)
(* Garbage.  The code tests oldest_id > prev_id twice, and the second test *)
(* cannot be reached.                                                      *)
(***************************************************************************)
Garbage == {[text |-> 0, id |-> 0]}

Successors(prev_id) ==
    { m_event_queue[i + 1] :
        i \in {j \in 1 .. Len(m_event_queue) - 1 : m_event_queue[j].id = prev_id} }

Indexed_next(i) ==
    IF i + 1 \in DOMAIN m_event_queue THEN {m_event_queue[i + 1]} ELSE Garbage

Indexed(i) == IF i \in DOMAIN m_event_queue THEN {m_event_queue[i]} ELSE Garbage

nextEvent(prev_id) ==
    IF m_event_queue = <<>>
    THEN {}
    ELSE IF prev_id = INVALID \/ Oldest.id > prev_id
    THEN {Oldest}
    ELSE IF Newest.id = prev_id
    THEN {}
    ELSE IF Oldest.id > Newest.id
    THEN IF Successors(prev_id) = {} THEN Garbage ELSE Successors(prev_id)
    ELSE Indexed(prev_id - Oldest.id + 2)

(***************************************************************************)
(* Back from the condition variable, with the directory's mutex again.     *)
(***************************************************************************)
relock(t) ==
    /\ pc[t] = "woken"
    /\ DirectoryFree
    /\ pc' = [pc EXCEPT ![t] = "unregister"]
    /\ UNCHANGED <<file, context, serving, res, abort, ev>>

(***************************************************************************)
(* The test of the loop in readEvent, under the directory's mutex: taken   *)
(* at the start, or kept since the wait and after unregistering.           *)
(***************************************************************************)
Entered(t) ==
    /\ \/ pc[t] = "enter" /\ DirectoryFree
       \/ pc[t] = "unregister" /\ RegistryFree
    /\ UNCHANGED <<file, opened, nonblocking, serving, m_shutdown, abort_pipe,
                   to_abort, abort_all, ev>>

finishedBlockingCall_forgotten(t) == UNCHANGED m_blocking_calls

finishedBlockingCall(t) == m_blocking_calls' = m_blocking_calls \ {t}

(***************************************************************************)
(* What readEvent returns, as xwmfs_read answers it: whatever is negative  *)
(* is a "bad return value" there and becomes NO_DATA.                      *)
(***************************************************************************)
Answer(result) == IF result \in {"EAGAIN", "EINTR"} THEN "ENODATA" ELSE result

LeaveWith(t, result) ==
    /\ pc' = [pc EXCEPT ![t] = "leave"]
    /\ res' = [res EXCEPT ![t] = Answer(result)]

deliverEvent(t) ==
    /\ Entered(t)
    /\ \E event \in nextEvent(cur_id[serving[t]]) :
          /\ cur_id' = [cur_id EXCEPT ![serving[t]] = event.id]
          /\ last' = [last EXCEPT ![serving[t]] = event.text]
    /\ LeaveWith(t, "event")
    /\ finishedBlockingCall(t)
    /\ UNCHANGED <<ended, m_abort_set>>

NothingNew(t) == Entered(t) /\ nextEvent(cur_id[serving[t]]) = {}

signalEOF(t) ==
    /\ NothingNew(t)
    /\ m_deleted
    /\ LeaveWith(t, "EOF")
    /\ finishedBlockingCall(t)
    /\ ended' = ended \cup {serving[t]}
    /\ UNCHANGED <<cur_id, last, m_abort_set>>

wouldBlock(t) ==
    /\ NothingNew(t)
    /\ ~m_deleted
    /\ serving[t] \in nonblocking
    /\ LeaveWith(t, "EAGAIN")
    /\ finishedBlockingCall(t)
    /\ UNCHANGED <<cur_id, last, ended, m_abort_set>>

MayBlock(t) == NothingNew(t) /\ ~m_deleted /\ serving[t] \notin nonblocking

(***************************************************************************)
(* wasAborted forgets the request it reports.                              *)
(***************************************************************************)
wasAborted(t) ==
    /\ MayBlock(t)
    /\ t \in m_abort_set
    /\ m_abort_set' = m_abort_set \ {t}
    /\ LeaveWith(t, "EINTR")
    /\ finishedBlockingCall(t)
    /\ UNCHANGED <<cur_id, last, ended>>

(***************************************************************************)
(* Nothing to return: the thread asks for the registry's mutex and keeps   *)
(* the directory's.                                                        *)
(***************************************************************************)
nothingToRead(t) ==
    /\ MayBlock(t)
    /\ t \notin m_abort_set
    /\ pc' = [pc EXCEPT ![t] = "register"]
    /\ finishedBlockingCall(t)
    /\ UNCHANGED <<cur_id, last, ended, m_abort_set, res>>

(***************************************************************************)
(* prepareBlockingCall, which fails once the shutdown flag is set, and the *)
(* wait, which gives the directory's mutex back.                           *)
(***************************************************************************)
mayRegister_always == TRUE

mayRegister == ~m_shutdown

refuseBlocking(t) ==
    /\ ~mayRegister
    /\ LeaveWith(t, "EINTR")
    /\ UNCHANGED m_blocking_calls

wait(t) ==
    /\ mayRegister
    /\ m_blocking_calls' = m_blocking_calls \cup {t}
    /\ pc' = [pc EXCEPT ![t] = "wait"]
    /\ UNCHANGED res

prepareBlockingCall(t) ==
    /\ pc[t] = "register"
    /\ RegistryFree
    /\ refuseBlocking(t) \/ wait(t)
    /\ UNCHANGED <<file, context, serving, m_abort_set, m_shutdown, abort_pipe,
                   to_abort, abort_all, ev>>

readEvent(t) == \/ relock(t)
                \/ deliverEvent(t) \/ signalEOF(t) \/ wouldBlock(t) \/ wasAborted(t)
                \/ nothingToRead(t)
                \/ prepareBlockingCall(t)

(***************************************************************************)
(* A condition variable may return without having been notified.           *)
(***************************************************************************)
spuriousWakeup(t) ==
    /\ pc[t] = "wait"
    /\ pc' = [pc EXCEPT ![t] = "woken"]
    /\ UNCHANGED <<file, context, serving, res, abort, ev>>

(***************************************************************************)
(* Back in xwmfs_read, with the read lock again, which returns the answer. *)
(***************************************************************************)
replyRead(t) ==
    /\ FSUnlocked
    /\ pc[t] = "leave"
    /\ pc' = [pc EXCEPT ![t] = "idle"]
    /\ res' = [res EXCEPT ![t] = "none"]
    /\ UNCHANGED <<file, context, serving, abort, ev>>

-----------------------------------------------------------------------------
(* Interrupting a read.                                                    *)

(***************************************************************************)
(* libfuse directs SIGUSR1 at the thread that serves an interrupted        *)
(* request; SIGINT or SIGTERM may hit any thread.  The handlers write to   *)
(* the abort pipe and are gone once a shutdown has been processed.  One    *)
(* that finds the pipe full is in BlockingCalls.                           *)
(***************************************************************************)
signalThread(t) ==
    /\ ~m_shutdown
    /\ Len(abort_pipe) < PipeCapacity
    /\ \/ pc[t] # "idle" /\ abort_pipe' = Append(abort_pipe, t)
       \/ abort_pipe' = Append(abort_pipe, "SHUTDOWN")
    /\ UNCHANGED <<file, context, thread, m_abort_set, m_blocking_calls, m_shutdown,
                   to_abort, abort_all, ev>>

(***************************************************************************)
(* abortBlockingCall and abortAllBlockingCalls keep the registry's mutex   *)
(* from the lookup to the last broadcast.  No reader keeps it beyond an    *)
(* action, so the lookup does not wait.                                    *)
(***************************************************************************)
AbortedBy_unchecked(msg) == {msg}

AbortedBy(msg) == IF msg = "SHUTDOWN" THEN m_blocking_calls
                                      ELSE m_blocking_calls \cap {msg}

readAbortPipe ==
    /\ ev = "idle"
    /\ abort_pipe # <<>>
    /\ abort_pipe' = Tail(abort_pipe)
    /\ to_abort' = AbortedBy(Head(abort_pipe))
    /\ abort_all' = (Head(abort_pipe) = "SHUTDOWN")
    /\ ev' = "abort"
    /\ UNCHANGED <<file, context, thread, m_abort_set, m_blocking_calls, m_shutdown>>

(***************************************************************************)
(* AbortHandler::abort for one of them; its broadcast follows.             *)
(***************************************************************************)
recordAbort(t) ==
    /\ ev = "abort"
    /\ t \in to_abort
    /\ DirectoryFree
    /\ m_abort_set' = m_abort_set \cup {t}
    /\ to_abort' = to_abort \ {t}
    /\ ev' = "notify_abort"
    /\ UNCHANGED <<file, context, thread, m_blocking_calls, m_shutdown, abort_pipe,
                   abort_all>>

finishAbort ==
    /\ ev = "abort"
    /\ to_abort = {}
    /\ m_shutdown' = (m_shutdown \/ abort_all)
    /\ abort_all' = FALSE
    /\ ev' = "idle"
    /\ UNCHANGED <<file, context, thread, m_abort_set, m_blocking_calls, abort_pipe,
                   to_abort>>

-----------------------------------------------------------------------------
Publisher == addEvent \/ addDestroyedEvent \/ broadcast \/ markDeleted

aborting == finishAbort \/ \E t \in Threads : recordAbort(t)

Next ==
    \/ Publisher
    \/ readAbortPipe
    \/ aborting
    \/ \E h \in Handles : createOpenContext(h) \/ destroyOpenContext(h)
    \/ \E t \in Threads : \/ \E h \in Handles : read(t, h)
                          \/ readEvent(t)
                          \/ spuriousWakeup(t)
                          \/ replyRead(t)
                          \/ signalThread(t)

Spec == Init /\ [][Next]_vars

(***************************************************************************)
(* The event thread finishes what it began and looks at the abort pipe, a  *)
(* runnable worker gets on; strong fairness, since others may take the     *)
(* mutex that either asks for in between.  No X event has to arrive,       *)
(* nobody has to read or to close a handle or to press Ctrl-C.             *)
(***************************************************************************)
Fairness == /\ SF_vars(broadcast \/ markDeleted \/ readAbortPipe \/ aborting)
            /\ \A t \in Threads : SF_vars(readEvent(t) \/ replyRead(t))

FairSpec == Spec /\ Fairness

-----------------------------------------------------------------------------
(* Properties.                                                             *)

(***************************************************************************)
(* nextEvent finds its way for every open handle: it never indexes past    *)
(* the deque and its linear search never fails (EventFile.cxx:121-134).    *)
(***************************************************************************)
CursorInQueue == \A h \in opened : nextEvent(cur_id[h]) \cap Garbage = {}

(***************************************************************************)
(* Nobody sleeps on the condition variable in spite of something to tell   *)
(* him, an event, the end of the file, an abort or the shutdown, unless    *)
(* the broadcast that wakes him is still to come.                          *)
(***************************************************************************)
SomethingToTell(t) == \/ nextEvent(cur_id[serving[t]]) # {}
                      \/ m_deleted
                      \/ t \in m_abort_set
                      \/ m_shutdown

NoLostWakeup ==
    \A t \in Threads : pc[t] = "wait" /\ SomethingToTell(t) => BroadcastDue

(***************************************************************************)
(* Exactly the threads in and behind m_cond.wait are known to the event    *)
(* thread, so that an abort finds the file to wake (Xwmfs.cxx:659-674),    *)
(* and a registered file is kept alive by the handle being read; a thread  *)
(* that is still to be aborted has not left its read.                      *)
(***************************************************************************)
BlockedIsRegistered ==
    /\ m_blocking_calls = {t \in Threads : pc[t] \in {"wait", "woken", "unregister"}}
    /\ \A t \in m_blocking_calls : serving[t] \in opened
    /\ to_abort \subseteq m_blocking_calls

(***************************************************************************)
(* The reference count is the directory's reference and one per context:   *)
(* it reaches zero when the last of them goes and not before.              *)
(***************************************************************************)
RefcountExact ==
    m_refcount = Cardinality(opened) + (IF m_deleted THEN 0 ELSE 1)

(***************************************************************************)
(* An event handed to a reader is younger than the one the same handle saw *)
(* before: no reordering and no duplicates (readEvent, nextEvent).         *)
(***************************************************************************)
InOrder ==
    [][\A t \in Threads : deliverEvent(t) => last'[serving[t]] > last[serving[t]]]_vars

(***************************************************************************)
(* "We always allow operations on event files, even if closed.  This is to *)
(* allow reads to see the final destroy event" (EventFile.hxx:52-55): once *)
(* the window is gone a read that ends, whatever aborts are pending, gives *)
(* an event or end-of-file, never an error.                                *)
(***************************************************************************)
ReadToTheEnd ==
    [][\A t \in Threads : m_deleted /\ pc[t] # "leave" /\ pc'[t] = "leave"
                             => res'[t] \in {"event", "EOF"}]_vars

(***************************************************************************)
(* The file keeps the promise of EventStream: gaps only by lack of         *)
(* backlog, nothing published before the open is shown, and end-of-file    *)
(* comes after the last event, "destroyed".                                *)
(***************************************************************************)
Stream == INSTANCE EventStream
            WITH closed <- m_deleted, followers <- opened, cursor <- last

ImplementsStream == Stream!Spec

(***************************************************************************)
(* The event thread has the registry's mutex and wants the directory's,    *)
(* whose owner wants the registry's: neither goes on any more              *)
(* (Xwmfs.cxx:659-693, EventFile.cxx:155-159).                             *)
(***************************************************************************)
LockCycle == ev = "abort" /\ to_abort # {} /\ ~DirectoryFree

(***************************************************************************)
(* A blocked reader is answered once an event is there for him or the file *)
(* is deleted, except that another reader of the handle may be quicker or  *)
(* that the program has come to its deadlock.                              *)
(***************************************************************************)
Unread(t) == m_deleted \/ last[serving[t]] < published

BlockedReaderAnswered ==
    \A t \in Threads : pc[t] = "wait" /\ Unread(t)
                         ~> pc[t] = "leave" \/ ~Unread(t) \/ LockCycle

(***************************************************************************)
(* A blocked reader for which an abort was recorded returns (the promise   *)
(* of Xwmfs.hxx:120-122), with the same exception.                         *)
(***************************************************************************)
AbortedReaderReturns ==
    \A t \in Threads : t \in m_abort_set /\ t \in m_blocking_calls
                         ~> pc[t] = "leave" \/ LockCycle

(***************************************************************************)
(* After a shutdown request nobody blocks, from some time on and for ever, *)
(* however often user space repeats the read (m_shutdown,                  *)
(* Xwmfs.cxx:685-692), with the same exception.                            *)
(***************************************************************************)
ShutdownRequested == \E i \in DOMAIN abort_pipe : abort_pipe[i] = "SHUTDOWN"

ShutdownReleasesAll ==
    ShutdownRequested ~> [](\A t \in Threads : pc[t] # "wait") \/ LockCycle
=============================================================================
