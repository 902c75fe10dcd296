------------------------- MODULE BlockingCallsProof -------------------------
(***************************************************************************)
(* Theorems about BlockingCalls for any number of threads and directories  *)
(* and a pipe of any size.                                                 *)
(***************************************************************************)
EXTENDS BlockingCalls, TLAPS

-----------------------------------------------------------------------------
(* The inductive invariant.                                                *)

(***************************************************************************)
(* The places in which a worker owns the mutex of the directory it reads,  *)
(* and those in which it owns the registry's as well.                      *)
(***************************************************************************)
InDirectory == {"check", "register", "registering", "unregister", "unregistering"}
InRegistry  == {"registering", "unregistering"}

(***************************************************************************)
(* Who owns which mutex.  The event thread holds a directory's mutex       *)
(* inside single steps only.                                               *)
(***************************************************************************)
LockOwners ==
    /\ \A d \in Dirs : dir_lock[d] # "event thread"
    /\ \A t \in Threads, d \in Dirs :
          dir_lock[d] = t <=> pc[t] \in InDirectory /\ reads[t] = d
    /\ \A t \in Threads : blocking_lock = t <=> pc[t] \in InRegistry
    /\ blocking_lock = "event thread" <=> ev \in {"abort", "wake"}

(***************************************************************************)
(* A worker on its way reads a directory, and the event thread, while it   *)
(* publishes or wakes, deals with one.                                     *)
(***************************************************************************)
Places ==
    /\ \A t \in Threads : pc[t] = "idle" <=> reads[t] = None
    /\ ev \in {"publish", "notify", "wake"} => ev_dir \in Dirs

(***************************************************************************)
(* What a worker has found out under the directory's mutex stays true      *)
(* until it waits.                                                         *)
(***************************************************************************)
NothingMissed ==
    \A t \in Threads : pc[t] \in {"register", "registering"} =>
        t \notin m_abort_set[reads[t]] /\ t \notin unread

(***************************************************************************)
(* A shutdown that is being announced reaches everybody who waits.         *)
(***************************************************************************)
ShutdownReaches ==
    ev \in {"abort", "wake"} /\ msg = "SHUTDOWN" =>
        \A t \in Threads : pc[t] = "wait" =>
            t \in to_abort \/ (ev = "wake" /\ ev_dir = reads[t])

Inv == /\ TypeOK
       /\ LockOwners
       /\ Places
       /\ AbortsReachTheirFile
       /\ NothingMissed
       /\ NoSleepThrough
       /\ ShutdownReaches
       /\ ShutdownBlocksNobody

-----------------------------------------------------------------------------
(***************************************************************************)
(* Workers, the event thread and nobody are different owners.              *)
(***************************************************************************)
LEMMA Owners ==
    /\ None \notin Threads /\ None \notin Dirs
    /\ "event thread" \notin Threads /\ "SHUTDOWN" \notin Threads
    /\ None # "event thread" /\ None # "SHUTDOWN"
BY BlockingCallsAssumption

(***************************************************************************)
(* The same, one owner at a time.                                          *)
(***************************************************************************)
LEMMA OwnersDiffer ==
    /\ \A t \in Threads : t # None /\ t # "event thread" /\ t # "SHUTDOWN"
    /\ \A d \in Dirs : d # None
    /\ None # "event thread" /\ None # "SHUTDOWN"
BY Owners, Zenon

(***************************************************************************)
(* LockOwners for one worker and one directory, and for the registry.      *)
(***************************************************************************)
LEMMA OwnerOf ==
    ASSUME LockOwners
    PROVE  \A t \in Threads, d \in Dirs :
              /\ dir_lock[d] # "event thread"
              /\ dir_lock[d] = t <=> pc[t] \in InDirectory /\ reads[t] = d
BY DEF LockOwners

LEMMA OwnsWhatItReads ==
    ASSUME LockOwners
    PROVE  \A t \in Threads, d \in Dirs : dir_lock[d] = t => reads[t] = d
BY OwnerOf

LEMMA RegistryOwner ==
    ASSUME LockOwners
    PROVE  /\ \A t \in Threads : blocking_lock = t <=> pc[t] \in InRegistry
           /\ blocking_lock = "event thread" <=> ev \in {"abort", "wake"}
BY DEF LockOwners

(***************************************************************************)
(* The mutex of a directory after a step of t that leaves the mutex alone. *)
(***************************************************************************)
LEMMA OthersKeep ==
    ASSUME LockOwners, NEW t \in Threads, NEW e \in Dirs,
           dir_lock'[e] = dir_lock[e],
           \A u \in Threads : u # t => pc'[u] = pc[u] /\ reads'[u] = reads[u],
           dir_lock[e] = t <=> pc'[t] \in InDirectory /\ reads'[t] = e
    PROVE  /\ dir_lock'[e] # "event thread"
           /\ \A u \in Threads :
                 dir_lock'[e] = u <=> pc'[u] \in InDirectory /\ reads'[u] = e
<1>1. dir_lock'[e] # "event thread"
  BY DEF LockOwners
<1>2. ASSUME NEW u \in Threads, u # t
      PROVE  dir_lock'[e] = u <=> pc'[u] \in InDirectory /\ reads'[u] = e
  <2>1. pc'[u] = pc[u] /\ reads'[u] = reads[u]
    BY <1>2
  <2>2. dir_lock[e] = u <=> pc[u] \in InDirectory /\ reads[u] = e
    BY OwnerOf
  <2> QED
    BY <2>1, <2>2
<1>3. dir_lock'[e] = t <=> pc'[t] \in InDirectory /\ reads'[t] = e
  OBVIOUS
<1> QED
  BY <1>1, <1>2, <1>3

(***************************************************************************)
(* The mutexes of all directories after t has taken or released that of d. *)
(***************************************************************************)
LEMMA DirectoryLocked ==
    ASSUME LockOwners, NEW t \in Threads, NEW d \in Dirs,
           dir_lock[d] \in {t, None}, dir_lock'[d] \in {t, None},
           \A e \in Dirs : e # d => dir_lock'[e] = dir_lock[e] /\ reads[t] # e /\ reads'[t] # e,
           \A u \in Threads : u # t => pc'[u] = pc[u] /\ reads'[u] = reads[u],
           dir_lock'[d] = t <=> pc'[t] \in InDirectory /\ reads'[t] = d
    PROVE  \A e \in Dirs :
              /\ dir_lock'[e] # "event thread"
              /\ \A u \in Threads :
                    dir_lock'[e] = u <=> pc'[u] \in InDirectory /\ reads'[u] = e
<1>0. \A u \in Threads : u # None
  BY OwnersDiffer
<1>1. t # "event thread" /\ None # "event thread"
  BY OwnersDiffer
<1>2. ASSUME NEW u \in Threads, u # t
      PROVE  dir_lock'[d] # u /\ ~(pc'[u] \in InDirectory /\ reads'[u] = d)
  <2>1. pc'[u] = pc[u] /\ reads'[u] = reads[u]
    BY <1>2
  <2>2. dir_lock[d] # u /\ dir_lock'[d] # u
    BY <1>0, <1>2
  <2>3. ~(pc[u] \in InDirectory /\ reads[u] = d)
    BY <2>2 DEF LockOwners
  <2> QED
    BY <2>1, <2>2, <2>3
<1>3. ASSUME NEW e \in Dirs, e # d
      PROVE  /\ dir_lock'[e] # "event thread"
             /\ \A u \in Threads :
                   dir_lock'[e] = u <=> pc'[u] \in InDirectory /\ reads'[u] = e
  <2>1. dir_lock'[e] = dir_lock[e] /\ reads[t] # e /\ reads'[t] # e
    BY <1>3
  <2>2. dir_lock[e] # t
    BY <2>1, OwnsWhatItReads
  <2> QED
    BY <2>1, <2>2, OthersKeep
<1>4. dir_lock'[d] # "event thread"
  BY <1>1
<1> QED
  BY <1>2, <1>3, <1>4

(***************************************************************************)
(* The registry's mutex after t has taken or released it.                  *)
(***************************************************************************)
LEMMA RegistryLocked ==
    ASSUME LockOwners, NEW t \in Threads,
           blocking_lock \in {t, None}, blocking_lock' \in {t, None}, ev' = ev,
           \A u \in Threads : u # t => pc'[u] = pc[u],
           blocking_lock' = t <=> pc'[t] \in InRegistry
    PROVE  /\ \A u \in Threads : blocking_lock' = u <=> pc'[u] \in InRegistry
           /\ blocking_lock' = "event thread" <=> ev' \in {"abort", "wake"}
           /\ ev \notin {"abort", "wake"}
<1>0. \A u \in Threads : u # None
  BY OwnersDiffer
<1>1. t # "event thread" /\ None # "event thread"
  BY OwnersDiffer
<1>2. blocking_lock # "event thread" /\ blocking_lock' # "event thread"
  BY <1>1
<1>3. ev \notin {"abort", "wake"}
  BY <1>2 DEF LockOwners
<1>4. ASSUME NEW u \in Threads, u # t
      PROVE  blocking_lock' # u /\ pc'[u] \notin InRegistry
  <2>1. blocking_lock # u /\ blocking_lock' # u
    BY <1>0, <1>4
  <2>2. pc[u] \notin InRegistry
    BY <2>1 DEF LockOwners
  <2> QED
    BY <1>4, <2>1, <2>2
<1> QED
  BY <1>2, <1>3, <1>4

(***************************************************************************)
(* Nobody reads and nobody owns a mutex at the start.                      *)
(***************************************************************************)
LEMMA InvInit == Init => Inv
<1> SUFFICES ASSUME Init PROVE Inv
  OBVIOUS
<1>1. \A t \in Threads : pc[t] = "idle" /\ reads[t] = None /\ m_blocking_calls[t] = None
  BY DEF Init
<1>2. ev = "idle" /\ blocking_lock = None /\ m_shutdown = FALSE
      /\ \A d \in Dirs : dir_lock[d] = None
  BY DEF Init
<1>3. TypeOK
  <2>1. /\ dir_lock \in [Dirs -> Procs \cup {None}]
        /\ m_abort_set \in [Dirs -> SUBSET Threads]
        /\ m_blocking_calls \in [Threads -> Dirs \cup {None}]
        /\ reads \in [Threads -> Dirs \cup {None}]
        /\ pc \in [Threads -> WorkerPlaces]
    BY DEF Init, WorkerPlaces
  <2>2. abort_pipe \in Seq(Threads \cup {"SHUTDOWN"})
    BY DEF Init
  <2>3. ev \in EventPlaces
    BY DEF Init, EventPlaces
  <2>4. m_shutdown \in BOOLEAN
    BY DEF Init
  <2> QED
    BY <2>1, <2>2, <2>3, <2>4 DEF Init, TypeOK
<1>4. LockOwners
  BY <1>1, <1>2, Owners DEF LockOwners, InDirectory, InRegistry
<1> QED
  BY <1>1, <1>2, <1>3, <1>4 DEF Inv, Places, AbortsReachTheirFile, NothingMissed, NoSleepThrough,
     ShutdownReaches, ShutdownBlocksNobody
-----------------------------------------------------------------------------
(* The steps.                                                              *)

(***************************************************************************)
(* A read begins.  It owns nothing yet.                                    *)
(***************************************************************************)
LEMMA EnterReadStep ==
    ASSUME Inv, NEW t \in Threads, NEW d \in Dirs, enterRead(t, d)
    PROVE  Inv'
<1>0. TypeOK /\ LockOwners /\ Places /\ AbortsReachTheirFile /\ NothingMissed /\ NoSleepThrough
      /\ ShutdownReaches /\ ShutdownBlocksNobody
  BY DEF Inv
<1>1. /\ reads[t] \in Dirs \cup {None}
      /\ \A u \in Threads : pc[u] # "idle" => reads[u] \in Dirs
  BY <1>0 DEF TypeOK, Places
<1>2. TypeOK'
  BY <1>0, <1>1 DEF TypeOK, WorkerPlaces, EventPlaces, Procs, enterRead, MoveTo, locks, registry,
                    signals, workers, ev_thread
<1>3. /\ pc[t] = "idle" /\ pc'[t] = "lock" /\ \A u \in Threads : u # t => pc'[u] = pc[u]
      /\ reads'[t] = d /\ \A u \in Threads : u # t => reads'[u] = reads[u]
      /\ \A u \in Threads : u # t => (u \in unread' <=> u \in unread)
      /\ UNCHANGED <<dir_lock, blocking_lock, m_blocking_calls, m_abort_set, m_shutdown, ev,
                     ev_dir, msg, to_abort>>
  BY <1>0, <1>1 DEF TypeOK, enterRead, MoveTo, locks, registry, signals, workers, ev_thread
<1>4. /\ pc[t] \notin InDirectory /\ pc'[t] \notin InDirectory
      /\ pc[t] \notin InRegistry /\ pc'[t] \notin InRegistry
  BY <1>3 DEF InDirectory, InRegistry
<1>5. \A u \in Threads : u # t => pc'[u] = pc[u] /\ reads'[u] = reads[u]
  BY <1>3
<1>6. LockOwners'
  <2>1. \A e \in Dirs : /\ dir_lock'[e] = dir_lock[e]
                        /\ dir_lock[e] = t <=> pc'[t] \in InDirectory /\ reads'[t] = e
    BY <1>0, <1>3, <1>4, OwnerOf
  <2>2. ASSUME NEW e \in Dirs
        PROVE  /\ dir_lock'[e] # "event thread"
               /\ \A u \in Threads :
                     dir_lock'[e] = u <=> pc'[u] \in InDirectory /\ reads'[u] = e
    <3>1. dir_lock'[e] = dir_lock[e] /\ (dir_lock[e] = t <=> pc'[t] \in InDirectory /\ reads'[t] = e)
      BY <2>1
    <3> QED
      BY <1>0, <1>5, <3>1, OthersKeep
  <2>3. /\ \A u \in Threads : blocking_lock' = u <=> pc'[u] \in InRegistry
        /\ blocking_lock' = "event thread" <=> ev' \in {"abort", "wake"}
    BY <1>0, <1>3, <1>4, RegistryOwner
  <2> QED
    BY <2>2, <2>3 DEF LockOwners
<1>7. Places' /\ NothingMissed'
  BY <1>0, <1>1, <1>3, OwnersDiffer DEF Places, NothingMissed
<1>8. AbortsReachTheirFile'
  BY <1>0, <1>1, <1>3, OwnersDiffer DEF AbortsReachTheirFile, Registered
<1>9. NoSleepThrough'
  BY <1>0, <1>1, <1>3 DEF NoSleepThrough
<1>10. ShutdownReaches' /\ ShutdownBlocksNobody'
  BY <1>0, <1>1, <1>3 DEF ShutdownReaches, ShutdownBlocksNobody
<1> QED
  BY <1>2, <1>6, <1>7, <1>8, <1>9, <1>10 DEF Inv

(***************************************************************************)
(* The directory's mutex is taken to look at the queue.                    *)
(***************************************************************************)
LEMMA LockDirectoryStep ==
    ASSUME Inv, NEW t \in Threads, pc[t] = "lock", lockDirectory(t)
    PROVE  Inv'
<1>0. TypeOK /\ LockOwners /\ Places /\ AbortsReachTheirFile /\ NothingMissed /\ NoSleepThrough
      /\ ShutdownReaches /\ ShutdownBlocksNobody
  BY DEF Inv
<1>1. /\ reads[t] \in Dirs \cup {None}
      /\ \A u \in Threads : pc[u] # "idle" => reads[u] \in Dirs
  BY <1>0 DEF TypeOK, Places
<1>2. TypeOK'
  BY <1>0, <1>1 DEF TypeOK, WorkerPlaces, EventPlaces, Procs, lockDirectory, MoveTo, Acquire,
                    locks, registry, signals, workers, ev_thread
<1>3. /\ pc[t] = "lock" /\ pc'[t] = "check" /\ \A u \in Threads : u # t => pc'[u] = pc[u]
      /\ dir_lock'[reads[t]] = t /\ \A e \in Dirs : e # reads[t] => dir_lock'[e] = dir_lock[e]
      /\ UNCHANGED <<reads, blocking_lock, m_blocking_calls, m_abort_set, unread, m_shutdown, ev,
                     ev_dir, msg, to_abort>>
      /\ dir_lock[reads[t]] = None
  BY <1>0, <1>1 DEF TypeOK, lockDirectory, MoveTo, Acquire, locks, registry, signals, workers,
                    ev_thread
<1>4. /\ pc[t] \notin InDirectory /\ pc'[t] \in InDirectory
      /\ pc[t] \notin InRegistry /\ pc'[t] \notin InRegistry
  BY <1>3 DEF InDirectory, InRegistry
<1>5. \A u \in Threads : u # t => pc'[u] = pc[u] /\ reads'[u] = reads[u]
  BY <1>3
<1>6. LockOwners'
  <2>1. t # None
    BY OwnersDiffer
  <2>2. dir_lock[reads[t]] \in {t, None} /\ dir_lock'[reads[t]] \in {t, None}
    BY <1>0, <1>1, <1>3, <1>4, <2>1 DEF LockOwners
  <2>3. \A e \in Dirs : e # reads[t] => dir_lock'[e] = dir_lock[e] /\ reads'[t] # e
    BY <1>3, OwnersDiffer
  <2>4. dir_lock'[reads[t]] = t <=> pc'[t] \in InDirectory /\ reads'[t] = reads[t]
    BY <1>3, <1>4, <2>1
  <2>5. ASSUME NEW e \in Dirs
        PROVE  /\ dir_lock'[e] # "event thread"
               /\ \A u \in Threads :
                     dir_lock'[e] = u <=> pc'[u] \in InDirectory /\ reads'[u] = e
    <3>1. reads[t] \in Dirs /\ \A x \in Dirs : x # reads[t] => reads[t] # x
      BY <1>1, <1>3
    <3> QED
      BY <1>0, <1>5, <2>2, <2>4, <2>3, <3>1, DirectoryLocked
  <2>6. /\ \A u \in Threads : blocking_lock' = u <=> pc'[u] \in InRegistry
        /\ blocking_lock' = "event thread" <=> ev' \in {"abort", "wake"}
    BY <1>0, <1>3, <1>4, RegistryOwner
  <2> QED
    BY <2>5, <2>6 DEF LockOwners
<1>7. Places' /\ NothingMissed'
  BY <1>0, <1>1, <1>3, OwnersDiffer DEF Places, NothingMissed
<1>8. AbortsReachTheirFile'
  BY <1>0, <1>1, <1>3, OwnersDiffer DEF AbortsReachTheirFile, Registered
<1>9. NoSleepThrough'
  BY <1>0, <1>1, <1>3 DEF NoSleepThrough
<1>10. ShutdownReaches' /\ ShutdownBlocksNobody'
  BY <1>0, <1>1, <1>3 DEF ShutdownReaches, ShutdownBlocksNobody
<1> QED
  BY <1>2, <1>6, <1>7, <1>8, <1>9, <1>10 DEF Inv

(***************************************************************************)
(* The condition variable returns with the mutex taken again.              *)
(***************************************************************************)
LEMMA RelockDirectoryStep ==
    ASSUME Inv, NEW t \in Threads, pc[t] = "relock", lockDirectory(t)
    PROVE  Inv'
<1>0. TypeOK /\ LockOwners /\ Places /\ AbortsReachTheirFile /\ NothingMissed /\ NoSleepThrough
      /\ ShutdownReaches /\ ShutdownBlocksNobody
  BY DEF Inv
<1>1. /\ reads[t] \in Dirs \cup {None}
      /\ \A u \in Threads : pc[u] # "idle" => reads[u] \in Dirs
  BY <1>0 DEF TypeOK, Places
<1>2. TypeOK'
  BY <1>0, <1>1 DEF TypeOK, WorkerPlaces, EventPlaces, Procs, lockDirectory, MoveTo, Acquire,
                    locks, registry, signals, workers, ev_thread
<1>3. /\ pc[t] = "relock" /\ pc'[t] = "unregister" /\ \A u \in Threads : u # t => pc'[u] = pc[u]
      /\ dir_lock'[reads[t]] = t /\ \A e \in Dirs : e # reads[t] => dir_lock'[e] = dir_lock[e]
      /\ UNCHANGED <<reads, blocking_lock, m_blocking_calls, m_abort_set, unread, m_shutdown, ev,
                     ev_dir, msg, to_abort>>
      /\ dir_lock[reads[t]] = None
  BY <1>0, <1>1 DEF TypeOK, lockDirectory, MoveTo, Acquire, locks, registry, signals, workers,
                    ev_thread
<1>4. /\ pc[t] \notin InDirectory /\ pc'[t] \in InDirectory
      /\ pc[t] \notin InRegistry /\ pc'[t] \notin InRegistry
  BY <1>3 DEF InDirectory, InRegistry
<1>5. \A u \in Threads : u # t => pc'[u] = pc[u] /\ reads'[u] = reads[u]
  BY <1>3
<1>6. LockOwners'
  <2>1. t # None
    BY OwnersDiffer
  <2>2. dir_lock[reads[t]] \in {t, None} /\ dir_lock'[reads[t]] \in {t, None}
    BY <1>0, <1>1, <1>3, <1>4, <2>1 DEF LockOwners
  <2>3. \A e \in Dirs : e # reads[t] => dir_lock'[e] = dir_lock[e] /\ reads'[t] # e
    BY <1>3, OwnersDiffer
  <2>4. dir_lock'[reads[t]] = t <=> pc'[t] \in InDirectory /\ reads'[t] = reads[t]
    BY <1>3, <1>4, <2>1
  <2>5. ASSUME NEW e \in Dirs
        PROVE  /\ dir_lock'[e] # "event thread"
               /\ \A u \in Threads :
                     dir_lock'[e] = u <=> pc'[u] \in InDirectory /\ reads'[u] = e
    <3>1. reads[t] \in Dirs /\ \A x \in Dirs : x # reads[t] => reads[t] # x
      BY <1>1, <1>3
    <3> QED
      BY <1>0, <1>5, <2>2, <2>4, <2>3, <3>1, DirectoryLocked
  <2>6. /\ \A u \in Threads : blocking_lock' = u <=> pc'[u] \in InRegistry
        /\ blocking_lock' = "event thread" <=> ev' \in {"abort", "wake"}
    BY <1>0, <1>3, <1>4, RegistryOwner
  <2> QED
    BY <2>5, <2>6 DEF LockOwners
<1>7. Places' /\ NothingMissed'
  BY <1>0, <1>1, <1>3, OwnersDiffer DEF Places, NothingMissed
<1>8. AbortsReachTheirFile'
  BY <1>0, <1>1, <1>3, OwnersDiffer DEF AbortsReachTheirFile, Registered
<1>9. NoSleepThrough'
  BY <1>0, <1>1, <1>3 DEF NoSleepThrough
<1>10. ShutdownReaches' /\ ShutdownBlocksNobody'
  BY <1>0, <1>1, <1>3 DEF ShutdownReaches, ShutdownBlocksNobody
<1> QED
  BY <1>2, <1>6, <1>7, <1>8, <1>9, <1>10 DEF Inv

(***************************************************************************)
(* An event is delivered and the mutex released.                           *)
(***************************************************************************)
LEMMA DeliverEventStep ==
    ASSUME Inv, NEW t \in Threads, deliverEvent(t)
    PROVE  Inv'
<1>0. TypeOK /\ LockOwners /\ Places /\ AbortsReachTheirFile /\ NothingMissed /\ NoSleepThrough
      /\ ShutdownReaches /\ ShutdownBlocksNobody
  BY DEF Inv
<1>1. /\ reads[t] \in Dirs \cup {None}
      /\ \A u \in Threads : pc[u] # "idle" => reads[u] \in Dirs
  BY <1>0 DEF TypeOK, Places
<1>2. TypeOK'
  BY <1>0, <1>1 DEF TypeOK, WorkerPlaces, EventPlaces, Procs, deliverEvent, Return, MoveTo,
                    Release, locks, registry, signals, workers, ev_thread
<1>3. /\ pc[t] = "check" /\ pc'[t] = "idle" /\ \A u \in Threads : u # t => pc'[u] = pc[u]
      /\ reads'[t] = None /\ \A u \in Threads : u # t => reads'[u] = reads[u]
      /\ dir_lock'[reads[t]] = None /\ \A e \in Dirs : e # reads[t] => dir_lock'[e] = dir_lock[e]
      /\ unread' \subseteq unread
      /\ UNCHANGED <<blocking_lock, m_blocking_calls, m_abort_set, m_shutdown, ev, ev_dir, msg,
                     to_abort>>
  BY <1>0, <1>1 DEF TypeOK, deliverEvent, Return, MoveTo, Release, locks, registry, signals,
                    workers, ev_thread
<1>4. /\ pc[t] \in InDirectory /\ pc'[t] \notin InDirectory
      /\ pc[t] \notin InRegistry /\ pc'[t] \notin InRegistry
  BY <1>3 DEF InDirectory, InRegistry
<1>5. \A u \in Threads : u # t => pc'[u] = pc[u] /\ reads'[u] = reads[u]
  BY <1>3
<1>6. LockOwners'
  <2>1. t # None
    BY OwnersDiffer
  <2>2. dir_lock[reads[t]] \in {t, None} /\ dir_lock'[reads[t]] \in {t, None}
    BY <1>0, <1>1, <1>3, <1>4, <2>1 DEF LockOwners
  <2>3. \A e \in Dirs : e # reads[t] => dir_lock'[e] = dir_lock[e] /\ reads'[t] # e
    BY <1>3, OwnersDiffer
  <2>4. dir_lock'[reads[t]] = t <=> pc'[t] \in InDirectory /\ reads'[t] = reads[t]
    BY <1>3, <1>4, <2>1
  <2>5. ASSUME NEW e \in Dirs
        PROVE  /\ dir_lock'[e] # "event thread"
               /\ \A u \in Threads :
                     dir_lock'[e] = u <=> pc'[u] \in InDirectory /\ reads'[u] = e
    <3>1. reads[t] \in Dirs /\ \A x \in Dirs : x # reads[t] => reads[t] # x
      BY <1>1, <1>3
    <3> QED
      BY <1>0, <1>5, <2>2, <2>4, <2>3, <3>1, DirectoryLocked
  <2>6. /\ \A u \in Threads : blocking_lock' = u <=> pc'[u] \in InRegistry
        /\ blocking_lock' = "event thread" <=> ev' \in {"abort", "wake"}
    BY <1>0, <1>3, <1>4, RegistryOwner
  <2> QED
    BY <2>5, <2>6 DEF LockOwners
<1>7. Places' /\ NothingMissed'
  BY <1>0, <1>1, <1>3, OwnersDiffer DEF Places, NothingMissed
<1>8. AbortsReachTheirFile'
  BY <1>0, <1>1, <1>3, OwnersDiffer DEF AbortsReachTheirFile, Registered
<1>9. NoSleepThrough'
  BY <1>0, <1>1, <1>3 DEF NoSleepThrough
<1>10. ShutdownReaches' /\ ShutdownBlocksNobody'
  BY <1>0, <1>1, <1>3 DEF ShutdownReaches, ShutdownBlocksNobody
<1> QED
  BY <1>2, <1>6, <1>7, <1>8, <1>9, <1>10 DEF Inv

(***************************************************************************)
(* An abort is consumed: its record goes with the read.                    *)
(***************************************************************************)
LEMMA ReturnInterruptedStep ==
    ASSUME Inv, NEW t \in Threads, returnInterrupted(t)
    PROVE  Inv'
<1>0. TypeOK /\ LockOwners /\ Places /\ AbortsReachTheirFile /\ NothingMissed /\ NoSleepThrough
      /\ ShutdownReaches /\ ShutdownBlocksNobody
  BY DEF Inv
<1>1. /\ reads[t] \in Dirs \cup {None}
      /\ \A u \in Threads : pc[u] # "idle" => reads[u] \in Dirs
  BY <1>0 DEF TypeOK, Places
<1>2. TypeOK'
  BY <1>0, <1>1 DEF TypeOK, WorkerPlaces, EventPlaces, Procs, returnInterrupted, Return, MoveTo,
                    Release, locks, registry, signals, workers, ev_thread
<1>3. /\ pc[t] = "check" /\ pc'[t] = "idle" /\ \A u \in Threads : u # t => pc'[u] = pc[u]
      /\ reads'[t] = None /\ \A u \in Threads : u # t => reads'[u] = reads[u]
      /\ dir_lock'[reads[t]] = None /\ \A e \in Dirs : e # reads[t] => dir_lock'[e] = dir_lock[e]
      /\ \A e \in Dirs : m_abort_set'[e] \subseteq m_abort_set[e]
      /\ unread' \subseteq unread
      /\ UNCHANGED <<blocking_lock, m_blocking_calls, m_shutdown, ev, ev_dir, msg, to_abort>>
  BY <1>0, <1>1 DEF TypeOK, returnInterrupted, Return, MoveTo, Release, locks, registry, signals,
                    workers, ev_thread
<1>4. /\ pc[t] \in InDirectory /\ pc'[t] \notin InDirectory
      /\ pc[t] \notin InRegistry /\ pc'[t] \notin InRegistry
  BY <1>3 DEF InDirectory, InRegistry
<1>5. \A u \in Threads : u # t => pc'[u] = pc[u] /\ reads'[u] = reads[u]
  BY <1>3
<1>6. LockOwners'
  <2>1. t # None
    BY OwnersDiffer
  <2>2. dir_lock[reads[t]] \in {t, None} /\ dir_lock'[reads[t]] \in {t, None}
    BY <1>0, <1>1, <1>3, <1>4, <2>1 DEF LockOwners
  <2>3. \A e \in Dirs : e # reads[t] => dir_lock'[e] = dir_lock[e] /\ reads'[t] # e
    BY <1>3, OwnersDiffer
  <2>4. dir_lock'[reads[t]] = t <=> pc'[t] \in InDirectory /\ reads'[t] = reads[t]
    BY <1>3, <1>4, <2>1
  <2>5. ASSUME NEW e \in Dirs
        PROVE  /\ dir_lock'[e] # "event thread"
               /\ \A u \in Threads :
                     dir_lock'[e] = u <=> pc'[u] \in InDirectory /\ reads'[u] = e
    <3>1. reads[t] \in Dirs /\ \A x \in Dirs : x # reads[t] => reads[t] # x
      BY <1>1, <1>3
    <3> QED
      BY <1>0, <1>5, <2>2, <2>4, <2>3, <3>1, DirectoryLocked
  <2>6. /\ \A u \in Threads : blocking_lock' = u <=> pc'[u] \in InRegistry
        /\ blocking_lock' = "event thread" <=> ev' \in {"abort", "wake"}
    BY <1>0, <1>3, <1>4, RegistryOwner
  <2> QED
    BY <2>5, <2>6 DEF LockOwners
<1>7. Places' /\ NothingMissed'
  BY <1>0, <1>1, <1>3, OwnersDiffer DEF Places, NothingMissed
<1>8. AbortsReachTheirFile'
  BY <1>0, <1>1, <1>3, OwnersDiffer DEF AbortsReachTheirFile, Registered
<1>9. NoSleepThrough'
  BY <1>0, <1>1, <1>3 DEF NoSleepThrough
<1>10. ShutdownReaches' /\ ShutdownBlocksNobody'
  BY <1>0, <1>1, <1>3 DEF ShutdownReaches, ShutdownBlocksNobody
<1> QED
  BY <1>2, <1>6, <1>7, <1>8, <1>9, <1>10 DEF Inv

(***************************************************************************)
(* Nothing to read and no abort: what holds until the wait is seen here.   *)
(***************************************************************************)
LEMMA NothingToReadStep ==
    ASSUME Inv, NEW t \in Threads, nothingToRead(t)
    PROVE  Inv'
<1>0. TypeOK /\ LockOwners /\ Places /\ AbortsReachTheirFile /\ NothingMissed /\ NoSleepThrough
      /\ ShutdownReaches /\ ShutdownBlocksNobody
  BY DEF Inv
<1>1. /\ reads[t] \in Dirs \cup {None}
      /\ \A u \in Threads : pc[u] # "idle" => reads[u] \in Dirs
  BY <1>0 DEF TypeOK, Places
<1>2. TypeOK'
  BY <1>0, <1>1 DEF TypeOK, WorkerPlaces, EventPlaces, Procs, nothingToRead, wasAborted, MoveTo,
                    locks, registry, signals, workers, ev_thread
<1>3. /\ pc[t] = "check" /\ pc'[t] = "register" /\ \A u \in Threads : u # t => pc'[u] = pc[u]
      /\ UNCHANGED <<reads, dir_lock, blocking_lock, m_blocking_calls, m_abort_set, unread,
                     m_shutdown, ev, ev_dir, msg, to_abort>>
      /\ t \notin m_abort_set[reads[t]] /\ t \notin unread
  BY <1>0, <1>1 DEF TypeOK, nothingToRead, wasAborted, MoveTo, locks, registry, signals, workers,
                    ev_thread
<1>4. /\ pc[t] \in InDirectory /\ pc'[t] \in InDirectory
      /\ pc[t] \notin InRegistry /\ pc'[t] \notin InRegistry
  BY <1>3 DEF InDirectory, InRegistry
<1>5. \A u \in Threads : u # t => pc'[u] = pc[u] /\ reads'[u] = reads[u]
  BY <1>3
<1>6. LockOwners'
  <2>1. \A e \in Dirs : /\ dir_lock'[e] = dir_lock[e]
                        /\ dir_lock[e] = t <=> pc'[t] \in InDirectory /\ reads'[t] = e
    BY <1>0, <1>3, <1>4, OwnerOf
  <2>2. ASSUME NEW e \in Dirs
        PROVE  /\ dir_lock'[e] # "event thread"
               /\ \A u \in Threads :
                     dir_lock'[e] = u <=> pc'[u] \in InDirectory /\ reads'[u] = e
    <3>1. dir_lock'[e] = dir_lock[e] /\ (dir_lock[e] = t <=> pc'[t] \in InDirectory /\ reads'[t] = e)
      BY <2>1
    <3> QED
      BY <1>0, <1>5, <3>1, OthersKeep
  <2>3. /\ \A u \in Threads : blocking_lock' = u <=> pc'[u] \in InRegistry
        /\ blocking_lock' = "event thread" <=> ev' \in {"abort", "wake"}
    BY <1>0, <1>3, <1>4, RegistryOwner
  <2> QED
    BY <2>2, <2>3 DEF LockOwners
<1>7. Places' /\ NothingMissed'
  BY <1>0, <1>1, <1>3, OwnersDiffer DEF Places, NothingMissed
<1>8. AbortsReachTheirFile'
  BY <1>0, <1>1, <1>3, OwnersDiffer DEF AbortsReachTheirFile, Registered
<1>9. NoSleepThrough'
  BY <1>0, <1>1, <1>3 DEF NoSleepThrough
<1>10. ShutdownReaches' /\ ShutdownBlocksNobody'
  BY <1>0, <1>1, <1>3 DEF ShutdownReaches, ShutdownBlocksNobody
<1> QED
  BY <1>2, <1>6, <1>7, <1>8, <1>9, <1>10 DEF Inv

(***************************************************************************)
(* The registry's mutex is taken inside the directory's.                   *)
(***************************************************************************)
LEMMA LockRegistryStep ==
    ASSUME Inv, NEW t \in Threads, pc[t] = "register", lockRegistry(t)
    PROVE  Inv'
<1>0. TypeOK /\ LockOwners /\ Places /\ AbortsReachTheirFile /\ NothingMissed /\ NoSleepThrough
      /\ ShutdownReaches /\ ShutdownBlocksNobody
  BY DEF Inv
<1>1. /\ reads[t] \in Dirs \cup {None}
      /\ \A u \in Threads : pc[u] # "idle" => reads[u] \in Dirs
  BY <1>0 DEF TypeOK, Places
<1>2. TypeOK'
  BY <1>0, <1>1 DEF TypeOK, WorkerPlaces, EventPlaces, Procs, lockRegistry, MoveTo, locks,
                    registry, signals, workers, ev_thread
<1>3. /\ pc[t] = "register" /\ pc'[t] = "registering"
         /\ \A u \in Threads : u # t => pc'[u] = pc[u]
      /\ blocking_lock' = t
      /\ UNCHANGED <<reads, dir_lock, m_blocking_calls, m_abort_set, unread, m_shutdown, ev,
                     ev_dir, msg, to_abort>>
      /\ blocking_lock = None
  BY <1>0, <1>1 DEF TypeOK, lockRegistry, MoveTo, locks, registry, signals, workers, ev_thread
<1>4. /\ pc[t] \in InDirectory /\ pc'[t] \in InDirectory
      /\ pc[t] \notin InRegistry /\ pc'[t] \in InRegistry
  BY <1>3 DEF InDirectory, InRegistry
<1>5. \A u \in Threads : u # t => pc'[u] = pc[u] /\ reads'[u] = reads[u]
  BY <1>3
<1>6. LockOwners'
  <2>1. t # None
    BY OwnersDiffer
  <2>2. \A e \in Dirs : /\ dir_lock'[e] = dir_lock[e]
                        /\ dir_lock[e] = t <=> pc'[t] \in InDirectory /\ reads'[t] = e
    BY <1>0, <1>3, <1>4, OwnerOf
  <2>3. ASSUME NEW e \in Dirs
        PROVE  /\ dir_lock'[e] # "event thread"
               /\ \A u \in Threads :
                     dir_lock'[e] = u <=> pc'[u] \in InDirectory /\ reads'[u] = e
    <3>1. dir_lock'[e] = dir_lock[e] /\ (dir_lock[e] = t <=> pc'[t] \in InDirectory /\ reads'[t] = e)
      BY <2>2
    <3> QED
      BY <1>0, <1>5, <3>1, OthersKeep
  <2>4. /\ blocking_lock \in {t, None} /\ blocking_lock' \in {t, None}
        /\ blocking_lock' = t <=> pc'[t] \in InRegistry
    BY <1>0, <1>3, <1>4, OwnersDiffer DEF LockOwners
  <2>5. /\ \A u \in Threads : blocking_lock' = u <=> pc'[u] \in InRegistry
        /\ blocking_lock' = "event thread" <=> ev' \in {"abort", "wake"}
    BY <1>0, <1>3, <1>5, <2>4, RegistryLocked
  <2> QED
    BY <2>3, <2>5 DEF LockOwners
<1>7. Places' /\ NothingMissed'
  BY <1>0, <1>1, <1>3, OwnersDiffer DEF Places, NothingMissed
<1>8. AbortsReachTheirFile'
  BY <1>0, <1>1, <1>3, OwnersDiffer DEF AbortsReachTheirFile, Registered
<1>9. NoSleepThrough'
  BY <1>0, <1>1, <1>3 DEF NoSleepThrough
<1>10. ShutdownReaches' /\ ShutdownBlocksNobody'
  BY <1>0, <1>1, <1>3 DEF ShutdownReaches, ShutdownBlocksNobody
<1> QED
  BY <1>2, <1>6, <1>7, <1>8, <1>9, <1>10 DEF Inv

(***************************************************************************)
(* The same after the wait.                                                *)
(***************************************************************************)
LEMMA RelockRegistryStep ==
    ASSUME Inv, NEW t \in Threads, pc[t] = "unregister", lockRegistry(t)
    PROVE  Inv'
<1>0. TypeOK /\ LockOwners /\ Places /\ AbortsReachTheirFile /\ NothingMissed /\ NoSleepThrough
      /\ ShutdownReaches /\ ShutdownBlocksNobody
  BY DEF Inv
<1>1. /\ reads[t] \in Dirs \cup {None}
      /\ \A u \in Threads : pc[u] # "idle" => reads[u] \in Dirs
  BY <1>0 DEF TypeOK, Places
<1>2. TypeOK'
  BY <1>0, <1>1 DEF TypeOK, WorkerPlaces, EventPlaces, Procs, lockRegistry, MoveTo, locks,
                    registry, signals, workers, ev_thread
<1>3. /\ pc[t] = "unregister" /\ pc'[t] = "unregistering"
         /\ \A u \in Threads : u # t => pc'[u] = pc[u]
      /\ blocking_lock' = t
      /\ UNCHANGED <<reads, dir_lock, m_blocking_calls, m_abort_set, unread, m_shutdown, ev,
                     ev_dir, msg, to_abort>>
      /\ blocking_lock = None
  BY <1>0, <1>1 DEF TypeOK, lockRegistry, MoveTo, locks, registry, signals, workers, ev_thread
<1>4. /\ pc[t] \in InDirectory /\ pc'[t] \in InDirectory
      /\ pc[t] \notin InRegistry /\ pc'[t] \in InRegistry
  BY <1>3 DEF InDirectory, InRegistry
<1>5. \A u \in Threads : u # t => pc'[u] = pc[u] /\ reads'[u] = reads[u]
  BY <1>3
<1>6. LockOwners'
  <2>1. t # None
    BY OwnersDiffer
  <2>2. \A e \in Dirs : /\ dir_lock'[e] = dir_lock[e]
                        /\ dir_lock[e] = t <=> pc'[t] \in InDirectory /\ reads'[t] = e
    BY <1>0, <1>3, <1>4, OwnerOf
  <2>3. ASSUME NEW e \in Dirs
        PROVE  /\ dir_lock'[e] # "event thread"
               /\ \A u \in Threads :
                     dir_lock'[e] = u <=> pc'[u] \in InDirectory /\ reads'[u] = e
    <3>1. dir_lock'[e] = dir_lock[e] /\ (dir_lock[e] = t <=> pc'[t] \in InDirectory /\ reads'[t] = e)
      BY <2>2
    <3> QED
      BY <1>0, <1>5, <3>1, OthersKeep
  <2>4. /\ blocking_lock \in {t, None} /\ blocking_lock' \in {t, None}
        /\ blocking_lock' = t <=> pc'[t] \in InRegistry
    BY <1>0, <1>3, <1>4, OwnersDiffer DEF LockOwners
  <2>5. /\ \A u \in Threads : blocking_lock' = u <=> pc'[u] \in InRegistry
        /\ blocking_lock' = "event thread" <=> ev' \in {"abort", "wake"}
    BY <1>0, <1>3, <1>5, <2>4, RegistryLocked
  <2> QED
    BY <2>3, <2>5 DEF LockOwners
<1>7. Places' /\ NothingMissed'
  BY <1>0, <1>1, <1>3, OwnersDiffer DEF Places, NothingMissed
<1>8. AbortsReachTheirFile'
  BY <1>0, <1>1, <1>3, OwnersDiffer DEF AbortsReachTheirFile, Registered
<1>9. NoSleepThrough'
  BY <1>0, <1>1, <1>3 DEF NoSleepThrough
<1>10. ShutdownReaches' /\ ShutdownBlocksNobody'
  BY <1>0, <1>1, <1>3 DEF ShutdownReaches, ShutdownBlocksNobody
<1> QED
  BY <1>2, <1>6, <1>7, <1>8, <1>9, <1>10 DEF Inv

(***************************************************************************)
(* The call is registered and waits: neither an abort nor an event is due. *)
(***************************************************************************)
LEMMA RegisterStep ==
    ASSUME Inv, NEW t \in Threads, registerBlockingCall(t)
    PROVE  Inv'
<1>0. TypeOK /\ LockOwners /\ Places /\ AbortsReachTheirFile /\ NothingMissed /\ NoSleepThrough
      /\ ShutdownReaches /\ ShutdownBlocksNobody
  BY DEF Inv
<1>1. /\ reads[t] \in Dirs \cup {None}
      /\ \A u \in Threads : pc[u] # "idle" => reads[u] \in Dirs
  BY <1>0 DEF TypeOK, Places
<1>2. TypeOK'
  BY <1>0, <1>1 DEF TypeOK, WorkerPlaces, EventPlaces, Procs, registerBlockingCall, MoveTo,
                    Release, locks, registry, signals, workers, ev_thread
<1>3. /\ pc[t] = "registering" /\ pc'[t] = "wait" /\ \A u \in Threads : u # t => pc'[u] = pc[u]
      /\ dir_lock'[reads[t]] = None /\ \A e \in Dirs : e # reads[t] => dir_lock'[e] = dir_lock[e]
      /\ blocking_lock' = None
      /\ m_blocking_calls'[t] = reads[t]
         /\ \A u \in Threads : u # t => m_blocking_calls'[u] = m_blocking_calls[u]
      /\ UNCHANGED <<reads, m_abort_set, unread, m_shutdown, ev, ev_dir, msg, to_abort>>
      /\ ~m_shutdown
  BY <1>0, <1>1 DEF TypeOK, registerBlockingCall, MoveTo, Release, locks, registry, signals,
                    workers, ev_thread
<1>4. /\ pc[t] \in InDirectory /\ pc'[t] \notin InDirectory
      /\ pc[t] \in InRegistry /\ pc'[t] \notin InRegistry
  BY <1>3 DEF InDirectory, InRegistry
<1>5. \A u \in Threads : u # t => pc'[u] = pc[u] /\ reads'[u] = reads[u]
  BY <1>3
<1>6. LockOwners'
  <2>1. t # None
    BY OwnersDiffer
  <2>2. dir_lock[reads[t]] \in {t, None} /\ dir_lock'[reads[t]] \in {t, None}
    BY <1>0, <1>1, <1>3, <1>4, <2>1 DEF LockOwners
  <2>3. \A e \in Dirs : e # reads[t] => dir_lock'[e] = dir_lock[e] /\ reads'[t] # e
    BY <1>3, OwnersDiffer
  <2>4. dir_lock'[reads[t]] = t <=> pc'[t] \in InDirectory /\ reads'[t] = reads[t]
    BY <1>3, <1>4, <2>1
  <2>5. ASSUME NEW e \in Dirs
        PROVE  /\ dir_lock'[e] # "event thread"
               /\ \A u \in Threads :
                     dir_lock'[e] = u <=> pc'[u] \in InDirectory /\ reads'[u] = e
    <3>1. reads[t] \in Dirs /\ \A x \in Dirs : x # reads[t] => reads[t] # x
      BY <1>1, <1>3
    <3> QED
      BY <1>0, <1>5, <2>2, <2>4, <2>3, <3>1, DirectoryLocked
  <2>6. /\ blocking_lock \in {t, None} /\ blocking_lock' \in {t, None}
        /\ blocking_lock' = t <=> pc'[t] \in InRegistry
    BY <1>0, <1>3, <1>4, OwnersDiffer DEF LockOwners
  <2>7. /\ \A u \in Threads : blocking_lock' = u <=> pc'[u] \in InRegistry
        /\ blocking_lock' = "event thread" <=> ev' \in {"abort", "wake"}
    BY <1>0, <1>3, <1>5, <2>6, RegistryLocked
  <2> QED
    BY <2>5, <2>7 DEF LockOwners
<1>7. ev \notin {"abort", "wake"}
  BY <1>0, <1>4, OwnersDiffer DEF LockOwners
<1>8. Places' /\ NothingMissed'
  BY <1>0, <1>1, <1>3, <1>7, OwnersDiffer DEF Places, NothingMissed
<1>9. AbortsReachTheirFile'
  BY <1>0, <1>1, <1>3, <1>7, OwnersDiffer DEF AbortsReachTheirFile, Registered
<1>10. NoSleepThrough'
  BY <1>0, <1>1, <1>3, <1>7 DEF NoSleepThrough, NothingMissed
<1>11. ShutdownReaches' /\ ShutdownBlocksNobody'
  BY <1>0, <1>1, <1>3, <1>7 DEF ShutdownReaches, ShutdownBlocksNobody
<1> QED
  BY <1>2, <1>6, <1>8, <1>9, <1>10, <1>11 DEF Inv

(***************************************************************************)
(* After a shutdown the read returns instead.                              *)
(***************************************************************************)
LEMMA RefuseBlockingStep ==
    ASSUME Inv, NEW t \in Threads, refuseBlocking(t)
    PROVE  Inv'
<1>0. TypeOK /\ LockOwners /\ Places /\ AbortsReachTheirFile /\ NothingMissed /\ NoSleepThrough
      /\ ShutdownReaches /\ ShutdownBlocksNobody
  BY DEF Inv
<1>1. /\ reads[t] \in Dirs \cup {None}
      /\ \A u \in Threads : pc[u] # "idle" => reads[u] \in Dirs
  BY <1>0 DEF TypeOK, Places
<1>2. TypeOK'
  BY <1>0, <1>1 DEF TypeOK, WorkerPlaces, EventPlaces, Procs, refuseBlocking, Return, MoveTo,
                    Release, locks, registry, signals, workers, ev_thread
<1>3. /\ pc[t] = "registering" /\ pc'[t] = "idle" /\ \A u \in Threads : u # t => pc'[u] = pc[u]
      /\ reads'[t] = None /\ \A u \in Threads : u # t => reads'[u] = reads[u]
      /\ dir_lock'[reads[t]] = None /\ \A e \in Dirs : e # reads[t] => dir_lock'[e] = dir_lock[e]
      /\ blocking_lock' = None
      /\ unread' \subseteq unread
      /\ UNCHANGED <<m_blocking_calls, m_abort_set, m_shutdown, ev, ev_dir, msg, to_abort>>
  BY <1>0, <1>1 DEF TypeOK, refuseBlocking, Return, MoveTo, Release, locks, registry, signals,
                    workers, ev_thread
<1>4. /\ pc[t] \in InDirectory /\ pc'[t] \notin InDirectory
      /\ pc[t] \in InRegistry /\ pc'[t] \notin InRegistry
  BY <1>3 DEF InDirectory, InRegistry
<1>5. \A u \in Threads : u # t => pc'[u] = pc[u] /\ reads'[u] = reads[u]
  BY <1>3
<1>6. LockOwners'
  <2>1. t # None
    BY OwnersDiffer
  <2>2. dir_lock[reads[t]] \in {t, None} /\ dir_lock'[reads[t]] \in {t, None}
    BY <1>0, <1>1, <1>3, <1>4, <2>1 DEF LockOwners
  <2>3. \A e \in Dirs : e # reads[t] => dir_lock'[e] = dir_lock[e] /\ reads'[t] # e
    BY <1>3, OwnersDiffer
  <2>4. dir_lock'[reads[t]] = t <=> pc'[t] \in InDirectory /\ reads'[t] = reads[t]
    BY <1>3, <1>4, <2>1
  <2>5. ASSUME NEW e \in Dirs
        PROVE  /\ dir_lock'[e] # "event thread"
               /\ \A u \in Threads :
                     dir_lock'[e] = u <=> pc'[u] \in InDirectory /\ reads'[u] = e
    <3>1. reads[t] \in Dirs /\ \A x \in Dirs : x # reads[t] => reads[t] # x
      BY <1>1, <1>3
    <3> QED
      BY <1>0, <1>5, <2>2, <2>4, <2>3, <3>1, DirectoryLocked
  <2>6. /\ blocking_lock \in {t, None} /\ blocking_lock' \in {t, None}
        /\ blocking_lock' = t <=> pc'[t] \in InRegistry
    BY <1>0, <1>3, <1>4, OwnersDiffer DEF LockOwners
  <2>7. /\ \A u \in Threads : blocking_lock' = u <=> pc'[u] \in InRegistry
        /\ blocking_lock' = "event thread" <=> ev' \in {"abort", "wake"}
    BY <1>0, <1>3, <1>5, <2>6, RegistryLocked
  <2> QED
    BY <2>5, <2>7 DEF LockOwners
<1>7. ev \notin {"abort", "wake"}
  BY <1>0, <1>4, OwnersDiffer DEF LockOwners
<1>8. Places' /\ NothingMissed'
  BY <1>0, <1>1, <1>3, <1>7, OwnersDiffer DEF Places, NothingMissed
<1>9. AbortsReachTheirFile'
  BY <1>0, <1>1, <1>3, <1>7, OwnersDiffer DEF AbortsReachTheirFile, Registered
<1>10. NoSleepThrough'
  BY <1>0, <1>1, <1>3, <1>7 DEF NoSleepThrough
<1>11. ShutdownReaches' /\ ShutdownBlocksNobody'
  BY <1>0, <1>1, <1>3, <1>7 DEF ShutdownReaches, ShutdownBlocksNobody
<1> QED
  BY <1>2, <1>6, <1>8, <1>9, <1>10, <1>11 DEF Inv

(***************************************************************************)
(* The call leaves the registry; no abort is under way then.               *)
(***************************************************************************)
LEMMA UnregisterStep ==
    ASSUME Inv, NEW t \in Threads, unregisterBlockingCall(t)
    PROVE  Inv'
<1>0. TypeOK /\ LockOwners /\ Places /\ AbortsReachTheirFile /\ NothingMissed /\ NoSleepThrough
      /\ ShutdownReaches /\ ShutdownBlocksNobody
  BY DEF Inv
<1>1. /\ reads[t] \in Dirs \cup {None}
      /\ \A u \in Threads : pc[u] # "idle" => reads[u] \in Dirs
  BY <1>0 DEF TypeOK, Places
<1>2. TypeOK'
  BY <1>0, <1>1 DEF TypeOK, WorkerPlaces, EventPlaces, Procs, unregisterBlockingCall, MoveTo,
                    locks, registry, signals, workers, ev_thread
<1>3. /\ pc[t] = "unregistering" /\ pc'[t] = "check" /\ \A u \in Threads : u # t => pc'[u] = pc[u]
      /\ blocking_lock' = None
      /\ m_blocking_calls'[t] = None
         /\ \A u \in Threads : u # t => m_blocking_calls'[u] = m_blocking_calls[u]
      /\ UNCHANGED <<reads, dir_lock, m_abort_set, unread, m_shutdown, ev, ev_dir, msg, to_abort>>
  BY <1>0, <1>1 DEF TypeOK, unregisterBlockingCall, MoveTo, locks, registry, signals, workers,
                    ev_thread
<1>4. /\ pc[t] \in InDirectory /\ pc'[t] \in InDirectory
      /\ pc[t] \in InRegistry /\ pc'[t] \notin InRegistry
  BY <1>3 DEF InDirectory, InRegistry
<1>5. \A u \in Threads : u # t => pc'[u] = pc[u] /\ reads'[u] = reads[u]
  BY <1>3
<1>6. LockOwners'
  <2>1. t # None
    BY OwnersDiffer
  <2>2. \A e \in Dirs : /\ dir_lock'[e] = dir_lock[e]
                        /\ dir_lock[e] = t <=> pc'[t] \in InDirectory /\ reads'[t] = e
    <3>1. \A e \in Dirs : dir_lock[e] = t <=> pc[t] \in InDirectory /\ reads[t] = e
      BY <1>0, OwnerOf
    <3> QED
      BY <3>1, <1>3, <1>4
  <2>3. ASSUME NEW e \in Dirs
        PROVE  /\ dir_lock'[e] # "event thread"
               /\ \A u \in Threads :
                     dir_lock'[e] = u <=> pc'[u] \in InDirectory /\ reads'[u] = e
    <3>1. dir_lock'[e] = dir_lock[e] /\ (dir_lock[e] = t <=> pc'[t] \in InDirectory /\ reads'[t] = e)
      BY <2>2
    <3> QED
      BY <1>0, <1>5, <3>1, OthersKeep
  <2>4. /\ blocking_lock \in {t, None} /\ blocking_lock' \in {t, None}
        /\ blocking_lock' = t <=> pc'[t] \in InRegistry
    BY <1>0, <1>3, <1>4, OwnersDiffer DEF LockOwners
  <2>5. /\ \A u \in Threads : blocking_lock' = u <=> pc'[u] \in InRegistry
        /\ blocking_lock' = "event thread" <=> ev' \in {"abort", "wake"}
    BY <1>0, <1>3, <1>5, <2>4, RegistryLocked
  <2> QED
    BY <2>3, <2>5 DEF LockOwners
<1>7. ev \notin {"abort", "wake"}
  BY <1>0, <1>4, OwnersDiffer DEF LockOwners
<1>8. Places' /\ NothingMissed'
  BY <1>0, <1>1, <1>3, <1>7, OwnersDiffer DEF Places, NothingMissed
<1>9. AbortsReachTheirFile'
  BY <1>0, <1>1, <1>3, <1>7, OwnersDiffer DEF AbortsReachTheirFile, Registered
<1>10. NoSleepThrough'
  BY <1>0, <1>1, <1>3, <1>7 DEF NoSleepThrough
<1>11. ShutdownReaches' /\ ShutdownBlocksNobody'
  BY <1>0, <1>1, <1>3, <1>7 DEF ShutdownReaches, ShutdownBlocksNobody
<1> QED
  BY <1>2, <1>6, <1>8, <1>9, <1>10, <1>11 DEF Inv

(***************************************************************************)
(* The wait may end by itself.                                             *)
(***************************************************************************)
LEMMA SpuriousWakeupStep ==
    ASSUME Inv, NEW t \in Threads, spuriousWakeup(t)
    PROVE  Inv'
<1>0. TypeOK /\ LockOwners /\ Places /\ AbortsReachTheirFile /\ NothingMissed /\ NoSleepThrough
      /\ ShutdownReaches /\ ShutdownBlocksNobody
  BY DEF Inv
<1>1. /\ reads[t] \in Dirs \cup {None}
      /\ \A u \in Threads : pc[u] # "idle" => reads[u] \in Dirs
  BY <1>0 DEF TypeOK, Places
<1>2. TypeOK'
  BY <1>0, <1>1 DEF TypeOK, WorkerPlaces, EventPlaces, Procs, spuriousWakeup, MoveTo, locks,
                    registry, signals, workers, ev_thread
<1>3. /\ pc[t] = "wait" /\ pc'[t] = "relock" /\ \A u \in Threads : u # t => pc'[u] = pc[u]
      /\ UNCHANGED <<reads, dir_lock, blocking_lock, m_blocking_calls, m_abort_set, unread,
                     m_shutdown, ev, ev_dir, msg, to_abort>>
  BY <1>0, <1>1 DEF TypeOK, spuriousWakeup, MoveTo, locks, registry, signals, workers, ev_thread
<1>4. /\ pc[t] \notin InDirectory /\ pc'[t] \notin InDirectory
      /\ pc[t] \notin InRegistry /\ pc'[t] \notin InRegistry
  BY <1>3 DEF InDirectory, InRegistry
<1>5. \A u \in Threads : u # t => pc'[u] = pc[u] /\ reads'[u] = reads[u]
  BY <1>3
<1>6. LockOwners'
  <2>1. \A e \in Dirs : /\ dir_lock'[e] = dir_lock[e]
                        /\ dir_lock[e] = t <=> pc'[t] \in InDirectory /\ reads'[t] = e
    BY <1>0, <1>3, <1>4, OwnerOf
  <2>2. ASSUME NEW e \in Dirs
        PROVE  /\ dir_lock'[e] # "event thread"
               /\ \A u \in Threads :
                     dir_lock'[e] = u <=> pc'[u] \in InDirectory /\ reads'[u] = e
    <3>1. dir_lock'[e] = dir_lock[e] /\ (dir_lock[e] = t <=> pc'[t] \in InDirectory /\ reads'[t] = e)
      BY <2>1
    <3> QED
      BY <1>0, <1>5, <3>1, OthersKeep
  <2>3. /\ \A u \in Threads : blocking_lock' = u <=> pc'[u] \in InRegistry
        /\ blocking_lock' = "event thread" <=> ev' \in {"abort", "wake"}
    BY <1>0, <1>3, <1>4, RegistryOwner
  <2> QED
    BY <2>2, <2>3 DEF LockOwners
<1>7. Places' /\ NothingMissed'
  BY <1>0, <1>1, <1>3, OwnersDiffer DEF Places, NothingMissed
<1>8. AbortsReachTheirFile'
  BY <1>0, <1>1, <1>3, OwnersDiffer DEF AbortsReachTheirFile, Registered
<1>9. NoSleepThrough'
  BY <1>0, <1>1, <1>3 DEF NoSleepThrough
<1>10. ShutdownReaches' /\ ShutdownBlocksNobody'
  BY <1>0, <1>1, <1>3 DEF ShutdownReaches, ShutdownBlocksNobody
<1> QED
  BY <1>2, <1>6, <1>7, <1>8, <1>9, <1>10 DEF Inv

(***************************************************************************)
(* The signal handlers write the pipe and nothing else.                    *)
(***************************************************************************)
LEMMA NobodyMoves ==
    ASSUME Inv, TypeOK', UNCHANGED <<locks, registry, m_abort_set, workers, ev_thread>>
    PROVE  Inv'
<1>1. UNCHANGED <<dir_lock, blocking_lock, m_blocking_calls, m_shutdown, m_abort_set, pc, reads,
                  unread, ev, ev_dir, msg, to_abort>>
  BY DEF locks, registry, workers, ev_thread
<1>2. LockOwners'
  BY <1>1 DEF Inv, LockOwners
<1>3. Places'
  BY <1>1 DEF Inv, Places
<1>4. AbortsReachTheirFile' /\ NothingMissed'
  BY <1>1 DEF Inv, AbortsReachTheirFile, Registered, NothingMissed
<1>5. NoSleepThrough' /\ ShutdownReaches' /\ ShutdownBlocksNobody'
  BY <1>1 DEF Inv, NoSleepThrough, ShutdownReaches, ShutdownBlocksNobody
<1> QED
  BY <1>2, <1>3, <1>4, <1>5 DEF Inv

(***************************************************************************)
(* A signal comes.                                                         *)
(***************************************************************************)
LEMMA SignalThreadStep ==
    ASSUME Inv, NEW t \in Threads, signalThread(t)
    PROVE  Inv'
<1>1. TypeOK'
  BY DEF Inv, TypeOK, signalThread, locks, registry, workers, ev_thread
<1> QED
  BY <1>1, NobodyMoves DEF signalThread

(***************************************************************************)
(* Its handler writes the thread's message.                                *)
(***************************************************************************)
LEMMA WriteAbortMsgStep ==
    ASSUME Inv, NEW t \in Threads, writeAbortMsg(t)
    PROVE  Inv'
<1>1. abort_pipe' \in Seq(Threads \cup {"SHUTDOWN"}) /\ in_handler' \subseteq Threads
  BY DEF Inv, TypeOK, writeAbortMsg
<1>2. TypeOK'
  BY <1>1 DEF Inv, TypeOK, writeAbortMsg, locks, registry, workers, ev_thread
<1> QED
  BY <1>2, NobodyMoves DEF writeAbortMsg

(***************************************************************************)
(* SIGINT or SIGTERM: the shutdown is asked for.                           *)
(***************************************************************************)
LEMMA SignalProgramStep ==
    ASSUME Inv, signalProgram
    PROVE  Inv'
<1>1. abort_pipe' \in Seq(Threads \cup {"SHUTDOWN"}) /\ in_handler' \subseteq Threads
  BY DEF Inv, TypeOK, signalProgram
<1>2. TypeOK'
  BY <1>1 DEF Inv, TypeOK, signalProgram, locks, registry, workers, ev_thread
<1> QED
  BY <1>2, NobodyMoves DEF signalProgram

(***************************************************************************)
(* Nothing happens.                                                        *)
(***************************************************************************)
LEMMA StutteringStep ==
    ASSUME Inv, UNCHANGED vars
    PROVE  Inv'
<1>1. TypeOK'
  BY DEF Inv, TypeOK, vars, locks, registry, signals, workers, ev_thread
<1> QED
  BY <1>1, NobodyMoves DEF vars

(***************************************************************************)
(* A step of the event thread moves a worker from its wait at most, which  *)
(* no mutex goes with.                                                     *)
(***************************************************************************)
LEMMA SleepersMove ==
    ASSUME LockOwners, UNCHANGED dir_lock, UNCHANGED reads,
           \A t \in Threads : pc'[t] = pc[t] \/ (pc[t] = "wait" /\ pc'[t] = "relock"),
           \A t \in Threads : blocking_lock' = t <=> blocking_lock = t,
           blocking_lock' = "event thread" <=> ev' \in {"abort", "wake"}
    PROVE  LockOwners'
<1>1. \A t \in Threads : /\ pc'[t] \in InDirectory <=> pc[t] \in InDirectory
                         /\ pc'[t] \in InRegistry <=> pc[t] \in InRegistry
  BY DEF InDirectory, InRegistry
<1>2. \A d \in Dirs : dir_lock'[d] # "event thread"
  BY DEF LockOwners
<1>3. \A t \in Threads, d \in Dirs :
         dir_lock'[d] = t <=> pc'[t] \in InDirectory /\ reads'[t] = d
  <2>1. \A t \in Threads, d \in Dirs :
           dir_lock[d] = t <=> pc[t] \in InDirectory /\ reads[t] = d
    BY Zenon DEF LockOwners
  <2>2. TAKE t \in Threads, d \in Dirs
  <2>3. dir_lock'[d] = dir_lock[d] /\ reads'[t] = reads[t]
    OBVIOUS
  <2> QED
    BY <1>1, <2>1, <2>3
<1>4. \A t \in Threads : blocking_lock' = t <=> pc'[t] \in InRegistry
  <2>1. TAKE t \in Threads
  <2>2. blocking_lock = t <=> pc[t] \in InRegistry
    BY RegistryOwner, Zenon
  <2>3. blocking_lock' = t <=> blocking_lock = t
    OBVIOUS
  <2> QED
    BY <1>1, <2>2, <2>3
<1> QED
  BY <1>2, <1>3, <1>4 DEF LockOwners

(***************************************************************************)
(* addEvent begins.                                                        *)
(***************************************************************************)
LEMMA AddEventStep ==
    ASSUME Inv, NEW d \in Dirs, addEvent(d)
    PROVE  Inv'
<1>1. /\ ev = "idle" /\ ev' = "publish" /\ ev_dir' = d
      /\ UNCHANGED <<dir_lock, blocking_lock, m_blocking_calls, m_shutdown, m_abort_set, pc,
                     reads, unread, msg, to_abort>>
  BY DEF addEvent, locks, registry, workers
<1>2. TypeOK'
  BY <1>1 DEF Inv, TypeOK, EventPlaces, addEvent, signals
<1>3. LockOwners'
  BY <1>1, SleepersMove DEF Inv, LockOwners
<1>4. Places' /\ NothingMissed' /\ AbortsReachTheirFile'
  BY <1>1 DEF Inv, Places, NothingMissed, AbortsReachTheirFile, Registered
<1>5. NoSleepThrough' /\ ShutdownReaches' /\ ShutdownBlocksNobody'
  BY <1>1 DEF Inv, NoSleepThrough, ShutdownReaches, ShutdownBlocksNobody
<1> QED
  BY <1>2, <1>3, <1>4, <1>5 DEF Inv

(***************************************************************************)
(* The event is pushed with the mutex free: no reader of that directory is *)
(* between its look at the queue and its wait.                             *)
(***************************************************************************)
LEMMA PushEventStep ==
    ASSUME Inv, pushEvent
    PROVE  Inv'
<1>1. /\ ev = "publish" /\ ev' = "notify" /\ dir_lock[ev_dir] = None
      /\ unread' = unread \cup {t \in Threads : reads[t] = ev_dir}
      /\ UNCHANGED <<dir_lock, blocking_lock, m_blocking_calls, m_shutdown, m_abort_set, pc,
                     reads, ev_dir, msg, to_abort>>
  BY DEF pushEvent, locks, registry
<1>2. ev_dir \in Dirs
  BY <1>1 DEF Inv, Places
<1>3. TypeOK'
  BY <1>1 DEF Inv, TypeOK, EventPlaces, pushEvent, signals
<1>4. LockOwners'
  BY <1>1, SleepersMove DEF Inv, LockOwners
<1>5. Places' /\ AbortsReachTheirFile'
  BY <1>1 DEF Inv, Places, AbortsReachTheirFile, Registered
<1>6. NothingMissed'
  <2>1. \A t \in Threads : dir_lock[ev_dir] # t
    BY <1>1, OwnersDiffer
  <2>2. ASSUME NEW t \in Threads, pc[t] \in {"register", "registering"}
        PROVE  reads[t] # ev_dir
    <3>1. pc[t] \in InDirectory
      BY <2>2 DEF InDirectory
    <3> QED
      BY <1>2, <2>1, <3>1 DEF Inv, LockOwners
  <2> QED
    BY <1>1, <2>2 DEF Inv, NothingMissed
<1>7. NoSleepThrough' /\ ShutdownReaches' /\ ShutdownBlocksNobody'
  BY <1>1 DEF Inv, NoSleepThrough, ShutdownReaches, ShutdownBlocksNobody
<1> QED
  BY <1>3, <1>4, <1>5, <1>6, <1>7 DEF Inv

(***************************************************************************)
(* What a broadcast does to the workers.                                   *)
(***************************************************************************)
LEMMA WakeMoves ==
    ASSUME TypeOK, NEW d, Wake(d)
    PROVE  /\ pc' \in [Threads -> WorkerPlaces]
           /\ \A t \in Threads :
                 /\ pc'[t] = pc[t] \/ (pc[t] = "wait" /\ pc'[t] = "relock")
                 /\ pc'[t] = "wait" => pc[t] = "wait" /\ reads[t] # d
BY DEF TypeOK, Wake, WorkerPlaces

(***************************************************************************)
(* The readers of the new event are woken.                                 *)
(***************************************************************************)
LEMMA BroadcastStep ==
    ASSUME Inv, broadcast
    PROVE  Inv'
<1>1. /\ ev = "notify" /\ ev' = "idle" /\ ev_dir' = None /\ Wake(ev_dir)
      /\ UNCHANGED <<dir_lock, blocking_lock, m_blocking_calls, m_shutdown, m_abort_set,
                     reads, unread, msg, to_abort>>
  BY DEF broadcast, locks, registry
<1>2. /\ pc' \in [Threads -> WorkerPlaces]
      /\ \A t \in Threads :
            /\ pc'[t] = pc[t] \/ (pc[t] = "wait" /\ pc'[t] = "relock")
            /\ pc'[t] = "wait" => pc[t] = "wait" /\ reads[t] # ev_dir
  BY <1>1, WakeMoves DEF Inv
<1>3. TypeOK'
  BY <1>1, <1>2 DEF Inv, TypeOK, EventPlaces, broadcast, signals
<1>4. LockOwners'
  BY <1>1, <1>2, SleepersMove DEF Inv, LockOwners
<1>5. Places' /\ NothingMissed' /\ AbortsReachTheirFile'
  BY <1>1, <1>2 DEF Inv, Places, NothingMissed, AbortsReachTheirFile, Registered
<1>6. NoSleepThrough' /\ ShutdownReaches' /\ ShutdownBlocksNobody'
  BY <1>1, <1>2 DEF Inv, NoSleepThrough, ShutdownReaches, ShutdownBlocksNobody
<1> QED
  BY <1>3, <1>4, <1>5, <1>6 DEF Inv

(***************************************************************************)
(* The readers of the aborted file are woken.                              *)
(***************************************************************************)
LEMMA WakeAbortedStep ==
    ASSUME Inv, wakeAborted
    PROVE  Inv'
<1>1. /\ ev = "wake" /\ ev' = "abort" /\ ev_dir' = None /\ Wake(ev_dir)
      /\ UNCHANGED <<dir_lock, blocking_lock, m_blocking_calls, m_shutdown, m_abort_set,
                     reads, unread, msg, to_abort>>
  BY DEF wakeAborted, WakeAborted, locks, registry
<1>2. /\ pc' \in [Threads -> WorkerPlaces]
      /\ \A t \in Threads :
            /\ pc'[t] = pc[t] \/ (pc[t] = "wait" /\ pc'[t] = "relock")
            /\ pc'[t] = "wait" => pc[t] = "wait" /\ reads[t] # ev_dir
  BY <1>1, WakeMoves DEF Inv
<1>3. TypeOK'
  BY <1>1, <1>2 DEF Inv, TypeOK, EventPlaces, wakeAborted, signals
<1>4. LockOwners'
  BY <1>1, <1>2, SleepersMove DEF Inv, LockOwners
<1>5. Places' /\ NothingMissed' /\ AbortsReachTheirFile'
  BY <1>1, <1>2 DEF Inv, Places, NothingMissed, AbortsReachTheirFile, Registered
<1>6. NoSleepThrough' /\ ShutdownReaches' /\ ShutdownBlocksNobody'
  BY <1>1, <1>2 DEF Inv, NoSleepThrough, ShutdownReaches, ShutdownBlocksNobody
<1> QED
  BY <1>3, <1>4, <1>5, <1>6 DEF Inv

(***************************************************************************)
(* A message is taken from the pipe.                                       *)
(***************************************************************************)
LEMMA ReadAbortPipeStep ==
    ASSUME Inv, readAbortPipe
    PROVE  Inv'
<1>1. /\ ev = "idle" /\ ev' = "lookup"
      /\ UNCHANGED <<dir_lock, blocking_lock, m_blocking_calls, m_shutdown, m_abort_set, pc,
                     reads, unread, ev_dir, to_abort>>
  BY DEF readAbortPipe, locks, registry, workers
<1>2. /\ msg' \in Threads \cup {"SHUTDOWN"}
      /\ abort_pipe' \in Seq(Threads \cup {"SHUTDOWN"})
  BY DEF Inv, TypeOK, readAbortPipe
<1>3. TypeOK'
  BY <1>1, <1>2 DEF Inv, TypeOK, EventPlaces, readAbortPipe
<1>4. LockOwners'
  BY <1>1, SleepersMove DEF Inv, LockOwners
<1>5. Places' /\ NothingMissed' /\ AbortsReachTheirFile'
  BY <1>1 DEF Inv, Places, NothingMissed, AbortsReachTheirFile, Registered
<1>6. NoSleepThrough' /\ ShutdownReaches' /\ ShutdownBlocksNobody'
  BY <1>1 DEF Inv, NoSleepThrough, ShutdownReaches, ShutdownBlocksNobody
<1> QED
  BY <1>3, <1>4, <1>5, <1>6 DEF Inv

(***************************************************************************)
(* The registry's mutex is taken: whoever waits is in the registry, so a   *)
(* shutdown is announced to all who wait.                                  *)
(***************************************************************************)
LEMMA LookupStep ==
    ASSUME Inv, lookup
    PROVE  Inv'
<1>1. /\ ev = "lookup" /\ ev' = "abort"
      /\ blocking_lock = None /\ blocking_lock' = "event thread" /\ to_abort' = Aborted
      /\ UNCHANGED <<dir_lock, m_blocking_calls, m_shutdown, m_abort_set, pc, reads, unread,
                     ev_dir, msg>>
  BY DEF lookup, registry, workers
<1>2. Aborted \subseteq Registered /\ Registered \subseteq Threads
  BY DEF Aborted, Registered
<1>3. TypeOK'
  BY <1>1, <1>2 DEF Inv, TypeOK, Procs, EventPlaces, lookup, signals
<1>4. LockOwners'
  <2>1. \A t \in Threads : blocking_lock' # t /\ blocking_lock # t
    BY <1>1, OwnersDiffer
  <2> QED
    BY <1>1, <2>1, SleepersMove DEF Inv
<1>5. Places' /\ NothingMissed'
  BY <1>1 DEF Inv, Places, NothingMissed
<1>6. AbortsReachTheirFile'
  BY <1>1, <1>2 DEF Inv, AbortsReachTheirFile, Registered
<1>7. ShutdownReaches'
  <2>1. ASSUME NEW t \in Threads, pc[t] = "wait"
        PROVE  t \in Registered
    <3>1. m_blocking_calls[t] = reads[t]
      BY <2>1 DEF Inv, AbortsReachTheirFile
    <3>2. reads[t] # None
      BY <2>1 DEF Inv, Places
    <3> QED
      BY <3>1, <3>2 DEF Registered
  <2> QED
    BY <1>1, <2>1 DEF ShutdownReaches, Aborted
<1>8. NoSleepThrough' /\ ShutdownBlocksNobody'
  BY <1>1 DEF Inv, NoSleepThrough, ShutdownBlocksNobody
<1> QED
  BY <1>3, <1>4, <1>5, <1>6, <1>7, <1>8 DEF Inv

(***************************************************************************)
(* An abort is recorded in the file the thread blocks on: it is registered *)
(* there, so it is not between its look at the set and its wait.           *)
(***************************************************************************)
LEMMA RecordAbortStep ==
    ASSUME Inv, NEW t \in Threads, recordAbort(t)
    PROVE  Inv'
<1>1. /\ ev = "abort" /\ ev' = "wake" /\ t \in to_abort /\ to_abort' = to_abort \ {t}
      /\ UNCHANGED <<dir_lock, blocking_lock, m_blocking_calls, m_shutdown, pc, reads, unread,
                     msg>>
  BY DEF recordAbort, locks, registry, workers
<1>2. /\ pc[t] \in {"wait", "relock", "unregister", "unregistering"}
      /\ m_blocking_calls[t] = reads[t] /\ reads[t] \in Dirs
  BY <1>1 DEF Inv, TypeOK, AbortsReachTheirFile, Registered
<1>3. ev_dir' = reads[t]
  BY <1>2 DEF recordAbort
<1>4. \A d \in Dirs, u \in Threads : u # t => (u \in m_abort_set'[d] <=> u \in m_abort_set[d])
  BY <1>2 DEF Inv, TypeOK, recordAbort
<1>5. TypeOK'
  <2>1. m_abort_set' \in [Dirs -> SUBSET Threads]
    BY <1>2 DEF Inv, TypeOK, recordAbort
  <2> QED
    BY <1>1, <1>2, <1>3, <2>1 DEF Inv, TypeOK, EventPlaces, recordAbort, signals
<1>6. LockOwners'
  BY <1>1, SleepersMove DEF Inv, LockOwners
<1>7. \A u \in Threads : pc[u] # "idle" => reads[u] \in Dirs
  BY DEF Inv, TypeOK, Places
<1>8. Places' /\ NothingMissed'
  BY <1>1, <1>2, <1>3, <1>4, <1>7 DEF Inv, Places, NothingMissed
<1>9. AbortsReachTheirFile'
  BY <1>1 DEF Inv, AbortsReachTheirFile, Registered
<1>10. NoSleepThrough'
  BY <1>1, <1>3, <1>4, <1>7 DEF Inv, NoSleepThrough
<1>11. ShutdownReaches' /\ ShutdownBlocksNobody'
  BY <1>1, <1>3 DEF Inv, ShutdownReaches, ShutdownBlocksNobody
<1> QED
  BY <1>5, <1>6, <1>8, <1>9, <1>10, <1>11 DEF Inv

(***************************************************************************)
(* The registry is released.  When the message was the shutdown, all who   *)
(* waited have been woken.                                                 *)
(***************************************************************************)
LEMMA FinishAbortStep ==
    ASSUME Inv, finishAbort
    PROVE  Inv'
<1>1. /\ ev = "abort" /\ ev' = "idle" /\ to_abort = {} /\ blocking_lock' = None /\ msg' = None
      /\ m_shutdown' = (m_shutdown \/ msg = "SHUTDOWN")
      /\ UNCHANGED <<dir_lock, m_blocking_calls, m_abort_set, pc, reads, unread, ev_dir,
                     to_abort>>
  BY DEF finishAbort, workers
<1>2. TypeOK'
  BY <1>1 DEF Inv, TypeOK, EventPlaces, finishAbort, signals
<1>3. LockOwners'
  <2>1. blocking_lock = "event thread"
    BY <1>1 DEF Inv, LockOwners
  <2>2. \A t \in Threads : blocking_lock' # t /\ blocking_lock # t
    BY <1>1, <2>1, OwnersDiffer
  <2>3. blocking_lock' # "event thread"
    BY <1>1, OwnersDiffer
  <2> QED
    BY <1>1, <2>2, <2>3, SleepersMove DEF Inv
<1>4. Places' /\ NothingMissed' /\ AbortsReachTheirFile'
  BY <1>1 DEF Inv, Places, NothingMissed, AbortsReachTheirFile, Registered
<1>5. NoSleepThrough' /\ ShutdownReaches'
  BY <1>1 DEF Inv, NoSleepThrough, ShutdownReaches
<1>6. ShutdownBlocksNobody'
  BY <1>1 DEF Inv, ShutdownReaches, ShutdownBlocksNobody
<1> QED
  BY <1>2, <1>3, <1>4, <1>5, <1>6 DEF Inv

-----------------------------------------------------------------------------
(* The theorems.                                                           *)

(***************************************************************************)
(* Every step keeps the invariant.                                         *)
(***************************************************************************)
LEMMA InvNext == Inv /\ [Next]_vars => Inv'
<1> SUFFICES ASSUME Inv, [Next]_vars PROVE Inv'
  OBVIOUS
<1>1. ASSUME NEW d \in Dirs, addEvent(d) PROVE Inv'
  BY <1>1, AddEventStep
<1>2. CASE eventThreadStep
  <2>1. CASE pushEvent
    BY <2>1, PushEventStep
  <2>2. CASE broadcast
    BY <2>2, BroadcastStep
  <2>3. CASE readAbortPipe
    BY <2>3, ReadAbortPipeStep
  <2>4. CASE lookup
    BY <2>4, LookupStep
  <2>5. ASSUME NEW t \in Threads, recordAbort(t) PROVE Inv'
    BY <2>5, RecordAbortStep
  <2>6. CASE wakeAborted
    BY <2>6, WakeAbortedStep
  <2>7. CASE finishAbort
    BY <2>7, FinishAbortStep
  <2> QED
    BY <1>2, <2>1, <2>2, <2>3, <2>4, <2>5, <2>6, <2>7 DEF eventThreadStep
<1>3. CASE signalProgram
  BY <1>3, SignalProgramStep
<1>4. ASSUME NEW t \in Threads, NEW d \in Dirs, enterRead(t, d) PROVE Inv'
  BY <1>4, EnterReadStep
<1>5. ASSUME NEW t \in Threads, workerStep(t) PROVE Inv'
  <2>1. CASE lockDirectory(t)
    <3>1. pc[t] = "lock" \/ pc[t] = "relock"
      BY <2>1 DEF lockDirectory
    <3> QED
      BY <1>5, <2>1, <3>1, LockDirectoryStep, RelockDirectoryStep
  <2>2. CASE deliverEvent(t)
    BY <2>2, DeliverEventStep
  <2>3. CASE returnInterrupted(t)
    BY <2>3, ReturnInterruptedStep
  <2>4. CASE nothingToRead(t)
    BY <2>4, NothingToReadStep
  <2>5. CASE lockRegistry(t)
    <3>1. pc[t] = "register" \/ pc[t] = "unregister"
      BY <2>5 DEF lockRegistry
    <3> QED
      BY <1>5, <2>5, <3>1, LockRegistryStep, RelockRegistryStep
  <2>6. CASE registerBlockingCall(t)
    BY <2>6, RegisterStep
  <2>7. CASE refuseBlocking(t)
    BY <2>7, RefuseBlockingStep
  <2>8. CASE unregisterBlockingCall(t)
    BY <2>8, UnregisterStep
  <2> QED
    BY <1>5, <2>1, <2>2, <2>3, <2>4, <2>5, <2>6, <2>7, <2>8 DEF workerStep
<1>6. ASSUME NEW t \in Threads, spuriousWakeup(t) PROVE Inv'
  BY <1>6, SpuriousWakeupStep
<1>7. ASSUME NEW t \in Threads, signalThread(t) PROVE Inv'
  BY <1>7, SignalThreadStep
<1>8. ASSUME NEW t \in Threads, writeAbortMsg(t) PROVE Inv'
  BY <1>8, WriteAbortMsgStep
<1>9. CASE UNCHANGED vars
  BY <1>9, StutteringStep
<1> QED
  BY <1>1, <1>2, <1>3, <1>4, <1>5, <1>6, <1>7, <1>8, <1>9 DEF Next

(***************************************************************************)
(* The inductive invariant holds in every state.                           *)
(***************************************************************************)
THEOREM InvHolds == Spec => []Inv
BY InvInit, InvNext, PTL DEF Spec

(***************************************************************************)
(* Every variable has its type, whoever interleaves with whom.             *)
(***************************************************************************)
THEOREM TypeCorrect == Spec => []TypeOK
<1>1. Inv => TypeOK
  BY DEF Inv
<1> QED
  BY InvHolds, <1>1, PTL

(***************************************************************************)
(* readEvent, addEvent and abort: no reader sleeps through an abort that   *)
(* was recorded for it or through an event of its file, for any number of  *)
(* threads and any order of the signals.                                   *)
(***************************************************************************)
THEOREM NoSleepThroughCorrect == Spec => []NoSleepThrough
<1>1. Inv => NoSleepThrough
  BY DEF Inv
<1> QED
  BY InvHolds, <1>1, PTL

(***************************************************************************)
(* registerBlockingCall and abortAllBlockingCalls: after the shutdown no   *)
(* thread waits for events.                                                *)
(***************************************************************************)
THEOREM ShutdownCorrect == Spec => []ShutdownBlocksNobody
<1>1. Inv => ShutdownBlocksNobody
  BY DEF Inv
<1> QED
  BY InvHolds, <1>1, PTL

(***************************************************************************)
(* abortBlockingCall: the registry names the file each thread blocks on,   *)
(* and a thread that is to be aborted is still in it.                      *)
(***************************************************************************)
THEOREM AbortsCorrect == Spec => []AbortsReachTheirFile
<1>1. Inv => AbortsReachTheirFile
  BY DEF Inv
<1> QED
  BY InvHolds, <1>1, PTL

-----------------------------------------------------------------------------
(* Standing still.                                                         *)

(***************************************************************************)
(* When all workers wait, the one that owns the registry's mutex sits in a *)
(* signal handler and the pipe is full: under that mutex nothing else is   *)
(* waited for.                                                             *)
(***************************************************************************)
LEMMA RegistryOwnerStuck ==
    ASSUME Inv, NEW t \in Threads, WorkerWaits(t), blocking_lock = t
    PROVE  t \in in_handler /\ ~PipeHasRoom
<1>1. pc[t] \in InRegistry
  BY RegistryOwner DEF Inv
<1> QED
  BY <1>1 DEF WorkerWaits, InRegistry

(***************************************************************************)
(* And the one that owns a directory's mutex sits in a signal handler or   *)
(* waits for the registry's mutex.                                         *)
(***************************************************************************)
LEMMA DirectoryOwnerStuck ==
    ASSUME Inv, NEW t \in Threads, WorkerWaits(t), NEW d \in Dirs, dir_lock[d] = t
    PROVE  /\ reads[t] = d
           /\ \/ t \in in_handler /\ ~PipeHasRoom
              \/ pc[t] \in {"register", "unregister"} /\ blocking_lock # None
<1>1. pc[t] \in InDirectory /\ reads[t] = d
  BY OwnerOf DEF Inv
<1> QED
  BY <1>1 DEF WorkerWaits, InDirectory

(***************************************************************************)
(* Who owns the registry's mutex when it is taken: a worker in its handler *)
(* behind a full pipe, or the event thread while it aborts.                *)
(***************************************************************************)
LEMMA RegistryTaken ==
    ASSUME Inv, \A t \in Threads : WorkerWaits(t), blocking_lock # None
    PROVE  \/ blocking_lock \in in_handler /\ ~PipeHasRoom
           \/ ev \in {"abort", "wake"}
<1>1. CASE blocking_lock \in Threads
  BY <1>1, RegistryOwnerStuck
<1>2. CASE blocking_lock = "event thread"
  BY <1>2, RegistryOwner DEF Inv
<1> QED
  BY <1>1, <1>2 DEF Inv, TypeOK, Procs

(***************************************************************************)
(* Between two steps a directory's mutex is owned by a worker or free.     *)
(***************************************************************************)
LEMMA DirectoryOwner ==
    ASSUME Inv, NEW d \in Dirs
    PROVE  dir_lock[d] \in Threads \cup {None}
<1>1. dir_lock[d] \in Procs \cup {None}
  BY DEF Inv, TypeOK
<1>2. dir_lock[d] # "event thread"
  BY DEF Inv, LockOwners
<1> QED
  BY <1>1, <1>2, Zenon DEF Procs

(***************************************************************************)
(* The event thread is idle and has no message: then no worker is on its   *)
(* way, for no mutex is taken and no handler waits.                        *)
(***************************************************************************)
LEMMA IdleStandstill ==
    ASSUME Inv, \A t \in Threads : WorkerWaits(t), ev = "idle", abort_pipe = <<>>
    PROVE  ~SomebodyOnTheWay
<1>1. PipeHasRoom
  <2>1. PipeCapacity \in Nat \ {0}
    BY BlockingCallsAssumption, Zenon
  <2> QED
    BY <2>1 DEF PipeHasRoom
<1>2. blocking_lock = None
  BY <1>1, RegistryTaken
<1>3. ASSUME NEW d \in Dirs PROVE dir_lock[d] = None
  <2>1. dir_lock[d] \in Threads \cup {None}
    BY DirectoryOwner
  <2> QED
    BY <1>1, <1>2, <2>1, DirectoryOwnerStuck
<1>4. ASSUME NEW t \in Threads PROVE t \notin in_handler /\ pc[t] \in {"idle", "wait"}
  <2>1. pc[t] # "idle" => reads[t] \in Dirs
    BY DEF Inv, Places, TypeOK
  <2> QED
    BY <1>1, <1>2, <1>3, <2>1 DEF WorkerWaits
<1>5. in_handler \subseteq Threads
  BY DEF Inv, TypeOK
<1> QED
  BY <1>4, <1>5 DEF SomebodyOnTheWay

(***************************************************************************)
(* The event thread waits for a worker that owns a mutex it wants.         *)
(***************************************************************************)
LEMMA WantedStandstill ==
    ASSUME Inv, \A t \in Threads : WorkerWaits(t),
           EventThreadWants # {}, None \notin EventThreadWants
    PROVE  LockCycle \/ FullPipe
<1>1. CASE ev = "lookup"
  <2>1. EventThreadWants = {blocking_lock}
    BY <1>1 DEF EventThreadWants
  <2>2. blocking_lock \in in_handler /\ ~PipeHasRoom
    BY <1>1, <2>1, RegistryTaken
  <2> QED
    BY <2>1, <2>2 DEF FullPipe, Inv, TypeOK
<1>2. CASE ev = "publish"
  <2>1. EventThreadWants = {dir_lock[ev_dir]} /\ ev_dir \in Dirs
    BY <1>2 DEF EventThreadWants, Inv, Places
  <2>2. PICK t \in Threads : dir_lock[ev_dir] = t
    BY <2>1, DirectoryOwner
  <2>3. t \in EventThreadWants
    BY <2>1, <2>2
  <2>4. blocking_lock # None => blocking_lock \in in_handler /\ ~PipeHasRoom
    BY <1>2, RegistryTaken
  <2> QED
    BY <2>1, <2>2, <2>3, <2>4, DirectoryOwnerStuck DEF FullPipe
<1>3. CASE ev = "abort"
  <2>1. EventThreadWants = {dir_lock[m_blocking_calls[u]] : u \in to_abort}
    BY <1>3 DEF EventThreadWants
  <2>2. PICK u \in to_abort : TRUE
    BY <2>1
  <2>3. m_blocking_calls[u] \in Dirs
    BY <1>3 DEF Inv, TypeOK, AbortsReachTheirFile, Registered
  <2>4. PICK t \in Threads : dir_lock[m_blocking_calls[u]] = t
    BY <2>1, <2>3, DirectoryOwner
  <2>5. t \in EventThreadWants
    BY <2>1, <2>4
  <2>6. reads[t] = m_blocking_calls[u]
    BY <2>3, <2>4, DirectoryOwnerStuck
  <2>7. CASE t \in in_handler /\ ~PipeHasRoom
    BY <2>5, <2>7 DEF FullPipe
  <2>8. CASE pc[t] \in {"register", "unregister"}
    BY <1>3, <2>6, <2>8 DEF LockCycle
  <2> QED
    BY <2>3, <2>4, <2>7, <2>8, DirectoryOwnerStuck
<1> QED
  BY <1>1, <1>2, <1>3 DEF EventThreadWants

(***************************************************************************)
(* readEvent, abortBlockingCall and the pipe: if all threads wait for each *)
(* other, the event thread and a reader hold the two mutexes in opposite   *)
(* orders, or the pipe is full and a handler that waits for room interrupts*)
(* the owner of a mutex the event thread needs.  Any number of threads,    *)
(* directories and messages gives no third way.                            *)
(***************************************************************************)
THEOREM StandstillsCorrect == Spec => []StandstillKnown
<1>1. Inv => StandstillKnown
  BY IdleStandstill, WantedStandstill DEF StandstillKnown, Standstill, EventThreadWaits
<1> QED
  BY InvHolds, <1>1, PTL
ProgramStep == eventThreadStep \/ \E t \in Threads : workerStep(t) \/ writeAbortMsg(t)

(***************************************************************************)
(* And a standstill is one: while it lasts neither the event thread nor a  *)
(* worker nor a signal handler can take a step of the program (that they   *)
(* can in all other states is the part TLC checks).                        *)
(***************************************************************************)
THEOREM StandstillLasts == Spec => [][Standstill => ~ProgramStep]_vars
<1>1. ASSUME Standstill PROVE ~ProgramStep
  <2>1. ~eventThreadStep
    BY <1>1 DEF Standstill, EventThreadWaits, EventThreadWants, eventThreadStep, pushEvent,
       broadcast, readAbortPipe, lookup, recordAbort, wakeAborted, finishAbort
  <2>2. ASSUME NEW t \in Threads PROVE ~workerStep(t) /\ ~writeAbortMsg(t)
    <3>1. WorkerWaits(t)
      BY <1>1 DEF Standstill
    <3>2. CASE t \in in_handler
      BY <3>1, <3>2 DEF WorkerWaits, workerStep, writeAbortMsg
    <3>3. CASE t \notin in_handler /\ pc[t] \in {"idle", "wait"}
      BY <3>3 DEF workerStep, writeAbortMsg, lockDirectory, deliverEvent, returnInterrupted,
         nothingToRead, lockRegistry, registerBlockingCall, refuseBlocking,
         unregisterBlockingCall
    <3>4. CASE /\ t \notin in_handler /\ pc[t] \in {"lock", "relock"}
               /\ dir_lock[reads[t]] # None
      BY <3>4 DEF workerStep, writeAbortMsg, lockDirectory, Acquire, deliverEvent,
         returnInterrupted, nothingToRead, lockRegistry, registerBlockingCall, refuseBlocking,
         unregisterBlockingCall
    <3>5. CASE /\ t \notin in_handler /\ pc[t] \in {"register", "unregister"}
               /\ blocking_lock # None
      BY <3>5 DEF workerStep, writeAbortMsg, lockDirectory, deliverEvent, returnInterrupted,
         nothingToRead, lockRegistry, registerBlockingCall, refuseBlocking,
         unregisterBlockingCall
    <3> QED
      BY <3>1, <3>2, <3>3, <3>4, <3>5 DEF WorkerWaits
  <2> QED
    BY <2>1, <2>2 DEF ProgramStep
<1>2. [Standstill => ~ProgramStep]_vars
  BY <1>1
<1> QED
  BY <1>2, PTL
=============================================================================
