--------------------------- MODULE BlockingCalls ---------------------------
(***************************************************************************)
(* How blocking reads of event files are woken, lock by lock.  Three       *)
(* mutexes meet here: the one of a directory, which guards the queue of    *)
(* its events file and the set of aborted threads, the one of the registry *)
(* of blocked threads (m_blocking_call_lock), and none for the pipe that   *)
(* brings the signals to the event thread.  Readers take the registry's    *)
(* mutex inside the directory's; the event thread, when it aborts a call,  *)
(* takes them the other way round.  A signal may hit a reader at any step, *)
(* also inside a critical section, and its handler blocks there while the  *)
(* pipe is full.                                                           *)
(*                                                                         *)
(* The queue is abstracted to "an event is there that the reader has not   *)
(* seen"; EventFile.tla has the queue.  A directory stands for its events  *)
(* file.                                                                   *)
(***************************************************************************)
EXTENDS Integers, Sequences, FiniteSets

CONSTANTS Threads,       \* FUSE worker threads
          Dirs,          \* window directories, each with an events file
          PipeCapacity,  \* abort messages the pipe holds
          None           \* nobody, no directory

ASSUME BlockingCallsAssumption ==
    /\ PipeCapacity \in Nat \ {0}
    /\ None \notin Threads \cup Dirs \cup {"SHUTDOWN", "event thread"}
    /\ Threads \cap {"SHUTDOWN", "event thread"} = {}

VARIABLES
    dir_lock,         \* owner of each directory's mutex
    blocking_lock,    \* owner of m_blocking_call_lock
    m_abort_set,      \* of each events file: threads to abort
    m_blocking_calls, \* directory whose events file a thread blocks on
    m_shutdown,       \* Xwmfs::m_shutdown
    abort_pipe,       \* messages from the signal handlers
    in_handler,       \* workers whose signal handler has not written yet
    pc,               \* place of each worker thread
    reads,            \* directory whose events file a worker reads
    unread,           \* workers with an event to fetch
    ev,               \* place of the event thread
    ev_dir,           \* directory the event thread deals with
    msg,              \* abort message being processed
    to_abort          \* registered threads still to be aborted

locks     == <<dir_lock, blocking_lock>>
registry  == <<m_blocking_calls, m_shutdown>>
signals   == <<abort_pipe, in_handler>>
workers   == <<pc, reads, unread>>
ev_thread == <<ev, ev_dir, msg, to_abort>>
vars == <<locks, registry, m_abort_set, signals, workers, ev_thread>>

Procs == Threads \cup {"event thread"}

WorkerPlaces == {"idle", "lock", "check", "register", "registering", "wait",
                 "relock", "unregister", "unregistering"}
EventPlaces  == {"idle", "publish", "notify", "lookup", "abort", "wake"}

TypeOK ==
    /\ dir_lock \in [Dirs -> Procs \cup {None}]
    /\ blocking_lock \in Procs \cup {None}
    /\ m_abort_set \in [Dirs -> SUBSET Threads]
    /\ m_blocking_calls \in [Threads -> Dirs \cup {None}]
    /\ m_shutdown \in BOOLEAN
    /\ abort_pipe \in Seq(Threads \cup {"SHUTDOWN"})
    /\ in_handler \subseteq Threads
    /\ pc \in [Threads -> WorkerPlaces]
    /\ reads \in [Threads -> Dirs \cup {None}]
    /\ unread \subseteq Threads
    /\ ev \in EventPlaces
    /\ ev_dir \in Dirs \cup {None}
    /\ msg \in Threads \cup {"SHUTDOWN", None}
    /\ to_abort \subseteq Threads

Init ==
    /\ dir_lock = [d \in Dirs |-> None]
    /\ blocking_lock = None
    /\ m_abort_set = [d \in Dirs |-> {}]
    /\ m_blocking_calls = [t \in Threads |-> None]
    /\ m_shutdown = FALSE
    /\ abort_pipe = <<>>
    /\ in_handler = {}
    /\ pc = [t \in Threads |-> "idle"]
    /\ reads = [t \in Threads |-> None]
    /\ unread = {}
    /\ ev = "idle"
    /\ ev_dir = None
    /\ msg = None
    /\ to_abort = {}

MoveTo(t, place) == pc' = [pc EXCEPT ![t] = place]
Acquire(d, p)    == dir_lock[d] = None /\ dir_lock' = [dir_lock EXCEPT ![d] = p]

Release_forgotten(d) == UNCHANGED dir_lock

Release(d)       == dir_lock' = [dir_lock EXCEPT ![d] = None]

-----------------------------------------------------------------------------
(* Worker threads: EventFile::readEvent.                                   *)

enterRead(t, d) ==
    /\ pc[t] = "idle"
    /\ MoveTo(t, "lock")
    /\ reads' = [reads EXCEPT ![t] = d]
    /\ unread' \in {unread, unread \cup {t}}
    /\ UNCHANGED <<locks, registry, m_abort_set, signals, ev_thread>>

(***************************************************************************)
(* The mutex is taken at the start and again when the condition variable   *)
(* returns.                                                                *)
(***************************************************************************)
lockDirectory(t) ==
    /\ \/ pc[t] = "lock"   /\ MoveTo(t, "check")
       \/ pc[t] = "relock" /\ MoveTo(t, "unregister")
    /\ Acquire(reads[t], t)
    /\ UNCHANGED <<blocking_lock, registry, m_abort_set, signals, reads, unread,
                   ev_thread>>

Return(t) ==
    /\ MoveTo(t, "idle")
    /\ reads' = [reads EXCEPT ![t] = None]
    /\ unread' = unread \ {t}
    /\ Release(reads[t])

deliverEvent(t) ==
    /\ pc[t] = "check"
    /\ t \in unread
    /\ Return(t)
    /\ UNCHANGED <<blocking_lock, registry, m_abort_set, signals, ev_thread>>

wasAborted(t) == t \in m_abort_set[reads[t]]

returnInterrupted(t) ==
    /\ pc[t] = "check"
    /\ t \notin unread
    /\ wasAborted(t)
    /\ m_abort_set' = [m_abort_set EXCEPT ![reads[t]] = @ \ {t}]
    /\ Return(t)
    /\ UNCHANGED <<blocking_lock, registry, signals, ev_thread>>

nothingToRead(t) ==
    /\ pc[t] = "check"
    /\ t \notin unread
    /\ ~wasAborted(t)
    /\ MoveTo(t, "register")
    /\ UNCHANGED <<locks, registry, m_abort_set, signals, reads, unread, ev_thread>>

(***************************************************************************)
(* registerBlockingCall and unregisterBlockingCall take and give back the  *)
(* registry's mutex; the directory's is released by the wait that follows  *)
(* the first.                                                              *)
(***************************************************************************)
lockRegistry(t) ==
    /\ \/ pc[t] = "register"   /\ MoveTo(t, "registering")
       \/ pc[t] = "unregister" /\ MoveTo(t, "unregistering")
    /\ blocking_lock = None
    /\ blocking_lock' = t
    /\ UNCHANGED <<dir_lock, registry, m_abort_set, signals, reads, unread, ev_thread>>

registerBlockingCall_always(t) ==
    /\ pc[t] = "registering"
    /\ m_blocking_calls' = [m_blocking_calls EXCEPT ![t] = reads[t]]
    /\ blocking_lock' = None
    /\ MoveTo(t, "wait")
    /\ Release(reads[t])
    /\ UNCHANGED <<m_shutdown, m_abort_set, signals, reads, unread, ev_thread>>

registerBlockingCall(t) ==
    /\ pc[t] = "registering"
    /\ ~m_shutdown
    /\ m_blocking_calls' = [m_blocking_calls EXCEPT ![t] = reads[t]]
    /\ blocking_lock' = None
    /\ MoveTo(t, "wait")
    /\ Release(reads[t])
    /\ UNCHANGED <<m_shutdown, m_abort_set, signals, reads, unread, ev_thread>>

refuseBlocking(t) ==
    /\ pc[t] = "registering"
    /\ m_shutdown
    /\ blocking_lock' = None
    /\ Return(t)
    /\ UNCHANGED <<registry, m_abort_set, signals, ev_thread>>

spuriousWakeup(t) ==
    /\ pc[t] = "wait"
    /\ t \notin in_handler
    /\ MoveTo(t, "relock")
    /\ UNCHANGED <<locks, registry, m_abort_set, signals, reads, unread, ev_thread>>

unregisterBlockingCall(t) ==
    /\ pc[t] = "unregistering"
    /\ m_blocking_calls' = [m_blocking_calls EXCEPT ![t] = None]
    /\ blocking_lock' = None
    /\ MoveTo(t, "check")
    /\ UNCHANGED <<dir_lock, m_shutdown, m_abort_set, signals, reads, unread, ev_thread>>

(***************************************************************************)
(* A thread in a signal handler takes none of its steps.                   *)
(***************************************************************************)
workerStep(t) ==
    /\ t \notin in_handler
    /\ \/ lockDirectory(t)
       \/ deliverEvent(t)
       \/ returnInterrupted(t)
       \/ nothingToRead(t)
       \/ lockRegistry(t)
       \/ registerBlockingCall(t)
       \/ refuseBlocking(t)
       \/ unregisterBlockingCall(t)

(***************************************************************************)
(* The signal handlers.  SIGUSR1 comes in the thread whose request is to   *)
(* be interrupted, at any step of it.  SIGINT and SIGTERM come in fuse's   *)
(* main thread, which has none of the mutexes: its handler waiting for the *)
(* pipe is a signal that comes later.  All are replaced after a shutdown.  *)
(***************************************************************************)
signalThread(t) ==
    /\ ~m_shutdown
    /\ pc[t] # "idle"
    /\ t \notin in_handler
    /\ in_handler' = in_handler \cup {t}
    /\ UNCHANGED <<locks, registry, m_abort_set, abort_pipe, workers, ev_thread>>

PipeHasRoom == Len(abort_pipe) < PipeCapacity

writeAbortMsg(t) ==
    /\ t \in in_handler
    /\ PipeHasRoom
    /\ abort_pipe' = Append(abort_pipe, t)
    /\ in_handler' = in_handler \ {t}
    /\ UNCHANGED <<locks, registry, m_abort_set, workers, ev_thread>>

signalProgram ==
    /\ ~m_shutdown
    /\ PipeHasRoom
    /\ abort_pipe' = Append(abort_pipe, "SHUTDOWN")
    /\ UNCHANGED <<locks, registry, m_abort_set, in_handler, workers, ev_thread>>

-----------------------------------------------------------------------------
(* The event thread.                                                       *)

addEvent(d) ==
    /\ ev = "idle"
    /\ ev' = "publish"
    /\ ev_dir' = d
    /\ UNCHANGED <<locks, registry, m_abort_set, signals, workers, msg, to_abort>>

(***************************************************************************)
(* The critical section of addEvent: it needs the mutex, pushes the event  *)
(* and releases the mutex.                                                 *)
(***************************************************************************)
pushEvent ==
    /\ ev = "publish"
    /\ dir_lock[ev_dir] = None
    /\ unread' = unread \cup {t \in Threads : reads[t] = ev_dir}
    /\ ev' = "notify"
    /\ UNCHANGED <<locks, registry, m_abort_set, signals, pc, reads, ev_dir, msg,
                   to_abort>>

Wake(d) == pc' = [t \in Threads |->
                    IF pc[t] = "wait" /\ reads[t] = d THEN "relock" ELSE pc[t]]

broadcast ==
    /\ ev = "notify"
    /\ Wake(ev_dir)
    /\ ev' = "idle"
    /\ ev_dir' = None
    /\ UNCHANGED <<locks, registry, m_abort_set, signals, reads, unread, msg, to_abort>>

readAbortPipe ==
    /\ ev = "idle"
    /\ abort_pipe # <<>>
    /\ msg' = Head(abort_pipe)
    /\ abort_pipe' = Tail(abort_pipe)
    /\ ev' = "lookup"
    /\ UNCHANGED <<locks, registry, m_abort_set, in_handler, workers, ev_dir, to_abort>>

(***************************************************************************)
(* With the registry locked: the calls the message is about.  A call that  *)
(* is not registered is not aborted and nobody remembers the message.      *)
(***************************************************************************)
Registered == {t \in Threads : m_blocking_calls[t] # None}

Aborted_unchecked == {msg}
Aborted_byThread  == IF msg = "SHUTDOWN" THEN Registered ELSE {msg}

Aborted == IF msg = "SHUTDOWN" THEN Registered ELSE Registered \cap {msg}

lookup ==
    /\ ev = "lookup"
    /\ blocking_lock = None
    /\ blocking_lock' = "event thread"
    /\ to_abort' = Aborted
    /\ ev' = "abort"
    /\ UNCHANGED <<dir_lock, registry, m_abort_set, signals, workers, ev_dir, msg>>

(***************************************************************************)
(* AbortHandler::abort for one of them, which needs its directory's mutex. *)
(***************************************************************************)
recordAbort(t) ==
    /\ ev = "abort"
    /\ t \in to_abort
    /\ dir_lock[m_blocking_calls[t]] = None
    /\ m_abort_set' = [m_abort_set EXCEPT ![m_blocking_calls[t]] = @ \cup {t}]
    /\ to_abort' = to_abort \ {t}
    /\ ev_dir' = m_blocking_calls[t]
    /\ ev' = "wake"
    /\ UNCHANGED <<locks, registry, signals, workers, msg>>

WakeAborted_none(d) == UNCHANGED pc

WakeAborted(d) == Wake(d)

wakeAborted ==
    /\ ev = "wake"
    /\ WakeAborted(ev_dir)
    /\ ev' = "abort"
    /\ ev_dir' = None
    /\ UNCHANGED <<locks, registry, m_abort_set, signals, reads, unread, msg, to_abort>>

finishAbort ==
    /\ ev = "abort"
    /\ to_abort = {}
    /\ m_shutdown' = (m_shutdown \/ msg = "SHUTDOWN")
    /\ blocking_lock' = None
    /\ msg' = None
    /\ ev' = "idle"
    /\ UNCHANGED <<dir_lock, m_blocking_calls, m_abort_set, signals, workers, ev_dir,
                   to_abort>>

eventThreadStep ==
    \/ pushEvent
    \/ broadcast
    \/ readAbortPipe
    \/ lookup
    \/ \E t \in Threads : recordAbort(t)
    \/ wakeAborted
    \/ finishAbort
-----------------------------------------------------------------------------
Next ==
    \/ \E d \in Dirs : addEvent(d)
    \/ eventThreadStep
    \/ signalProgram
    \/ \E t \in Threads : \/ \E d \in Dirs : enterRead(t, d)
                          \/ workerStep(t)
                          \/ spuriousWakeup(t)
                          \/ signalThread(t)
                          \/ writeAbortMsg(t)

Spec == Init /\ [][Next]_vars

(***************************************************************************)
(* A thread gets a mutex it keeps asking for even when others take it in   *)
(* between, so strong fairness; the other steps stay enabled.  The event   *)
(* thread polls the pipe beside the display.                               *)
(***************************************************************************)
Fairness == /\ SF_vars(eventThreadStep)
            /\ SF_vars(readAbortPipe)
            /\ \A t \in Threads : SF_vars(workerStep(t)) /\ SF_vars(writeAbortMsg(t))

FairSpec == Spec /\ Fairness

-----------------------------------------------------------------------------
(* Properties.                                                             *)

(***************************************************************************)
(* Nobody sleeps through an abort that was recorded for him, or through    *)
(* the events of his file: the broadcast is still to come.                 *)
(***************************************************************************)
NoSleepThrough ==
    \A t \in Threads : pc[t] = "wait" =>
        /\ t \in m_abort_set[reads[t]] => ev = "wake" /\ ev_dir = reads[t]
        /\ t \in unread => ev = "notify" /\ ev_dir = reads[t]

(***************************************************************************)
(* Registration and the shutdown flag exclude each other by their mutex:   *)
(* once the flag is up nobody blocks and nobody can start to (the race the *)
(* comment at Xwmfs.cxx:685-691 is about).                                 *)
(***************************************************************************)
ShutdownBlocksNobody == m_shutdown => \A t \in Threads : pc[t] # "wait"

(***************************************************************************)
(* The event thread's idea of who blocks where is exact while it holds the *)
(* registry's mutex: a thread it still has to abort has not left its read. *)
(***************************************************************************)
AbortsReachTheirFile ==
    /\ \A t \in Threads :
         m_blocking_calls[t] =
             IF pc[t] \in {"wait", "relock", "unregister", "unregistering"}
             THEN reads[t] ELSE None
    /\ ev \in {"abort", "wake"} => to_abort \subseteq Registered

(***************************************************************************)
(* The event thread wants the mutex of a directory whose owner wants the   *)
(* registry's mutex, which the event thread holds.                         *)
(***************************************************************************)
LockCycle ==
    \E t \in Threads :
        /\ pc[t] \in {"register", "unregister"}
        /\ ev = "abort"
        /\ \E u \in to_abort : m_blocking_calls[u] = reads[t]

(***************************************************************************)
(* The event thread wants a mutex whose owner sits in a signal handler     *)
(* that waits for the event thread to empty the pipe, or wants the         *)
(* registry's mutex from one who does.                                     *)
(***************************************************************************)
EventThreadWants ==
    CASE ev = "publish" -> {dir_lock[ev_dir]}
      [] ev = "lookup"  -> {blocking_lock}
      [] ev = "abort"   -> {dir_lock[m_blocking_calls[u]] : u \in to_abort}
      [] OTHER          -> {}

FullPipe ==
    /\ ~PipeHasRoom
    /\ \E t \in EventThreadWants \cap Threads :
         \/ t \in in_handler
         \/ pc[t] \in {"register", "unregister"} /\ blocking_lock \in in_handler

(***************************************************************************)
(* Who waits for somebody else: a worker in a signal handler for room in   *)
(* the pipe, one on its way for a mutex, the event thread for a mutex or   *)
(* for a message.                                                          *)
(***************************************************************************)
WorkerWaits(t) ==
    \/ t \in in_handler /\ ~PipeHasRoom
    \/ /\ t \notin in_handler
       /\ \/ pc[t] \in {"idle", "wait"}
          \/ pc[t] \in {"lock", "relock"} /\ dir_lock[reads[t]] # None
          \/ pc[t] \in {"register", "unregister"} /\ blocking_lock # None

EventThreadWaits ==
    \/ ev = "idle" /\ abort_pipe = <<>>
    \/ EventThreadWants # {} /\ None \notin EventThreadWants

Standstill == EventThreadWaits /\ \A t \in Threads : WorkerWaits(t)

SomebodyOnTheWay == \/ ev # "idle"
                    \/ in_handler # {}
                    \/ \E t \in Threads : pc[t] \notin {"idle", "wait"}

NobodyCanGoOn ==
    ~ENABLED (eventThreadStep \/ \E t \in Threads : workerStep(t) \/ writeAbortMsg(t))

(***************************************************************************)
(* Whenever somebody is on the way and everybody waits, it is one of these *)
(* two, or both.  Everybody waits exactly when nobody can take another     *)
(* step, so the program has no other way to stop for good.                 *)
(***************************************************************************)
StandstillKnown == SomebodyOnTheWay /\ Standstill => LockCycle \/ FullPipe

OnlyKnownDeadlocks == (NobodyCanGoOn <=> Standstill) /\ StandstillKnown

(***************************************************************************)
(* What Xwmfs.hxx:120-122 promises: when fuse signals to abort a blocking  *)
(* request the blocking call is woken up; here even if the pipe never      *)
(* fills.                                                                  *)
(***************************************************************************)
Signalled(t) == t \in Registered /\ \E i \in DOMAIN abort_pipe : abort_pipe[i] = t

BlockedCallWoken ==
    []PipeHasRoom => \A t \in Threads : Signalled(t) ~> pc[t] = "idle"
=============================================================================
