--------------------------- MODULE EventFileProof ---------------------------
(***************************************************************************)
(* Theorems about EventFile for any number of threads, handles, events and *)
(* any backlog, as long as event ids do not wrap around (NoWrap).          *)
(***************************************************************************)
EXTENDS EventFile, FiniteSetTheorems, TLAPS

(***************************************************************************)
(* The program would have to publish 2^64 - 2 events to leave this; what   *)
(* happens then is told in the README.                                     *)
(***************************************************************************)
NoWrap == MaxEvents + 1 < INVALID

-----------------------------------------------------------------------------
(* Types.                                                                  *)

(***************************************************************************)
(* What nextEvent yields is an event, whatever it is asked for.            *)
(***************************************************************************)
LEMMA NextEventType ==
    ASSUME TypeOK, NEW prev_id \in Nat
    PROVE  nextEvent(prev_id) \subseteq Event
<1>1. m_event_queue \in Seq(Event)
  BY DEF TypeOK
<1>2. \A i \in DOMAIN m_event_queue : m_event_queue[i] \in Event
  BY <1>1
<1>3. Garbage \subseteq Event
  BY DEF Garbage, Event
<1>4. \A i : Indexed(i) \subseteq Event
  BY <1>2, <1>3 DEF Indexed
<1>5. Successors(prev_id) \subseteq Event
  BY <1>1, <1>2 DEF Successors
<1>6. m_event_queue # <<>> => Oldest \in Event
  BY <1>1, <1>2 DEF Oldest
<1> QED
  BY <1>3, <1>4, <1>5, <1>6 DEF nextEvent

(***************************************************************************)
(* The initial state is well typed.                                        *)
(***************************************************************************)
LEMMA TypeInit == Init => TypeOK
<1> SUFFICES ASSUME Init PROVE TypeOK
  OBVIOUS
<1>1. m_event_queue \in Seq(Event) /\ abort_pipe \in Seq(Threads \cup {"SHUTDOWN"})
  BY DEF Init
<1>2. cur_id \in [Handles -> Nat]
  BY EventFileAssumption DEF Init
<1>3. pc \in [Threads -> Places]
  BY DEF Init, Places
<1>4. res \in [Threads -> Results] /\ last \in [Handles -> Nat] /\ ev \in EvStates
  BY DEF Init, Results, EvStates
<1>5. m_deleted \in BOOLEAN /\ m_shutdown \in BOOLEAN /\ abort_all \in BOOLEAN
  BY DEF Init
<1>6. serving \in [Threads -> Handles] /\ m_refcount \in Int /\ m_next_id \in Nat /\ published \in Nat
  BY DEF Init
<1>7. opened \subseteq Handles /\ nonblocking \subseteq opened /\ ended \subseteq Handles
      /\ m_abort_set \subseteq Threads /\ m_blocking_calls \subseteq Threads
      /\ to_abort \subseteq Threads
  BY DEF Init
<1> QED
  BY <1>1, <1>2, <1>3, <1>4, <1>5, <1>6, <1>7 DEF TypeOK

(***************************************************************************)
(* Publishing keeps the types: the trimmed queue and the new event.        *)
(***************************************************************************)
LEMMA PushType ==
    ASSUME TypeOK, NEW place, NEW otherwise, pushEvent(place, otherwise)
    PROVE  /\ m_event_queue' \in Seq(Event)
           /\ m_next_id' \in Nat
           /\ published' \in Nat
<1> USE DEF TypeOK
<1>1. Trimmed \in Seq(Event)
  BY EventFileAssumption DEF Trimmed
<1>2. [text |-> published + 1, id |-> nextID] \in Event
  BY DEF Event, nextID
<1>3. AfterID(nextID) \in Nat
  BY DEF AfterID, nextID
<1>4. Append(Trimmed, [text |-> published + 1, id |-> nextID]) \in Seq(Event)
  BY <1>1, <1>2
<1>5. published' \in Nat
  BY DEF pushEvent
<1>6. m_event_queue' \in Seq(Event)
  <2>1. \/ m_event_queue' = m_event_queue
        \/ m_event_queue' = Append(Trimmed, [text |-> published + 1, id |-> nextID])
    BY DEF pushEvent
  <2> QED
    BY <1>4, <2>1
<1>7. m_next_id' \in Nat
  <2>1. m_next_id' = m_next_id \/ m_next_id' = AfterID(nextID)
    BY DEF pushEvent
  <2> QED
    BY <1>3, <2>1
<1> QED
  BY <1>5, <1>6, <1>7

(***************************************************************************)
(* A broadcast puts threads into known places only.                        *)
(***************************************************************************)
LEMMA WakeType ==
    ASSUME TypeOK, WakeAll
    PROVE  pc' \in [Threads -> Places]
BY DEF TypeOK, WakeAll, Places

(***************************************************************************)
(* Every step of every actor keeps the types.                              *)
(***************************************************************************)
LEMMA TypeNext == TypeOK /\ [Next]_vars => TypeOK'
<1> SUFFICES ASSUME TypeOK, [Next]_vars PROVE TypeOK'
  OBVIOUS
<1> USE DEF TypeOK, file, context, thread, abort
<1>1. CASE addEvent
  <2>1. ev' \in EvStates
    BY <1>1 DEF addEvent, pushEvent, EvStates
  <2> QED
    BY <1>1, <2>1, PushType DEF addEvent
<1>2. CASE addDestroyedEvent
  <2>1. ev' \in EvStates
    BY <1>2 DEF addDestroyedEvent, pushEvent, EvStates
  <2> QED
    BY <1>2, <2>1, PushType DEF addDestroyedEvent
<1>3. CASE broadcast
  <2>1. ev' \in EvStates
    BY <1>3 DEF broadcast, BroadcastDue, EvStates
  <2> QED
    BY <1>3, <2>1, WakeType DEF broadcast
<1>4. CASE markDeleted
  BY <1>4 DEF markDeleted, unref, EvStates
<1>5. CASE readAbortPipe
  <2>1. to_abort' \subseteq Threads
    BY <1>5 DEF readAbortPipe, AbortedBy
  <2>2. abort_pipe' \in Seq(Threads \cup {"SHUTDOWN"})
    BY <1>5 DEF readAbortPipe
  <2>3. abort_all' \in BOOLEAN /\ ev' \in EvStates
    BY <1>5 DEF readAbortPipe, EvStates
  <2> QED
    BY <1>5, <2>1, <2>2, <2>3 DEF readAbortPipe
<1>6. ASSUME NEW h \in Handles, createOpenContext(h) PROVE TypeOK'
  <2>1. FirstId \in Nat
    <3>1. m_event_queue # <<>> => Newest \in Event
      BY DEF Newest
    <3> QED
      BY <3>1, EventFileAssumption DEF FirstId, Event
  <2> QED
    BY <1>6, <2>1 DEF createOpenContext, ref
<1>7. ASSUME NEW h \in Handles, destroyOpenContext(h) PROVE TypeOK'
  BY <1>7, EventFileAssumption DEF destroyOpenContext, unref
<1>8. ASSUME NEW t \in Threads, NEW h \in Handles, read(t, h) PROVE TypeOK'
  BY <1>8 DEF read, Results, Places
<1>9. ASSUME NEW t \in Threads, readEvent(t) PROVE TypeOK'
  <2> USE DEF Entered, NothingNew, MayBlock, LeaveWith, Answer, finishedBlockingCall, Results,
              Places
  <2>1. CASE deliverEvent(t)
    <3>1. nextEvent(cur_id[serving[t]]) \subseteq Event
      BY <1>9, NextEventType
    <3> QED
      BY <1>9, <2>1, <3>1 DEF deliverEvent, Event
  <2>2. CASE signalEOF(t)
    BY <1>9, <2>2 DEF signalEOF
  <2>3. CASE wouldBlock(t)
    BY <1>9, <2>3 DEF wouldBlock
  <2>4. CASE wasAborted(t)
    BY <1>9, <2>4 DEF wasAborted
  <2>5. CASE nothingToRead(t)
    BY <1>9, <2>5 DEF nothingToRead
  <2>6. CASE prepareBlockingCall(t)
    BY <1>9, <2>6 DEF prepareBlockingCall, refuseBlocking, wait
  <2>7. CASE relock(t)
    BY <1>9, <2>7 DEF relock
  <2> QED
    BY <1>9, <2>1, <2>2, <2>3, <2>4, <2>5, <2>6, <2>7 DEF readEvent
<1>10. ASSUME NEW t \in Threads, spuriousWakeup(t) PROVE TypeOK'
  BY <1>10 DEF spuriousWakeup, Places
<1>11. ASSUME NEW t \in Threads, replyRead(t) PROVE TypeOK'
  BY <1>11 DEF replyRead, Results, Places
<1>12. ASSUME NEW t \in Threads, signalThread(t) PROVE TypeOK'
  <2>1. ASSUME NEW msg \in Threads \cup {"SHUTDOWN"}
        PROVE  Append(abort_pipe, msg) \in Seq(Threads \cup {"SHUTDOWN"})
    OBVIOUS
  <2>2. abort_pipe' \in Seq(Threads \cup {"SHUTDOWN"})
    BY <1>12, <2>1 DEF signalThread
  <2> QED
    BY <1>12, <2>2 DEF signalThread
<1>13. CASE aborting
  <2>1. ev' \in EvStates
    BY <1>13 DEF aborting, recordAbort, finishAbort, EvStates
  <2>2. m_abort_set' \subseteq Threads /\ to_abort' \subseteq Threads
    BY <1>13 DEF aborting, recordAbort, finishAbort
  <2>3. m_shutdown' \in BOOLEAN /\ abort_all' \in BOOLEAN
    BY <1>13 DEF aborting, recordAbort, finishAbort
  <2> QED
    BY <1>13, <2>1, <2>2, <2>3 DEF aborting, recordAbort, finishAbort
<1>14. CASE UNCHANGED vars
  BY <1>14 DEF vars
<1> QED
  BY <1>1, <1>2, <1>3, <1>4, <1>5, <1>6, <1>7, <1>8, <1>9, <1>10, <1>11, <1>12, <1>13, <1>14
  DEF Next, Publisher

(***************************************************************************)
(* Every variable keeps its type, wraparound or not.                       *)
(***************************************************************************)
THEOREM TypeCorrect == Spec => []TypeOK
<1>1. Init => TypeOK
  BY TypeInit
<1>2. TypeOK /\ [Next]_vars => TypeOK'
  BY TypeNext
<1> QED
  BY <1>1, <1>2, PTL DEF Spec

-----------------------------------------------------------------------------
(* The inductive invariant.                                                *)

(***************************************************************************)
(* The queue holds the last Kept events; without wraparound the id of an   *)
(* event is its number.                                                    *)
(***************************************************************************)
Kept == IF published <= MaxBacklog THEN published ELSE MaxBacklog

Numbered(n) == [text |-> n, id |-> n]

QueueIsTail ==
    /\ Len(m_event_queue) = Kept
    /\ \A i \in 1 .. Kept : m_event_queue[i] = Numbered(published - Kept + i)
    /\ m_next_id = published

(***************************************************************************)
(* Only the "destroyed" event may exceed the bound on events, and it is    *)
(* published before the file is marked.                                    *)
(***************************************************************************)
PublishedBounded ==
    /\ published <= MaxEvents + 1
    /\ ev \in {"idle", "notify", "abort", "notify_abort"} /\ ~m_deleted
         => published <= MaxEvents
    /\ ev \in {"notify", "notify_destroyed", "mark"} => ~m_deleted
    /\ ev = "notify_deleted" => m_deleted

CursorOf(h) == IF last[h] = 0 THEN INVALID ELSE last[h]

Cursors == \A h \in opened : last[h] <= published /\ cur_id[h] = CursorOf(h)

ServingOpened == \A t \in Threads : pc[t] # "idle" => serving[t] \in opened

(***************************************************************************)
(* NoLostWakeup with nextEvent replaced by what it computes, and stronger: *)
(* an abort or the flag of the shutdown is told by the broadcast of the    *)
(* same call, and abortAllBlockingCalls leaves nobody out.                 *)
(***************************************************************************)
Sleepers ==
    \A t \in Threads : pc[t] = "wait" =>
        /\ t \in m_abort_set => ev = "notify_abort"
        /\ ~m_shutdown
        /\ Unread(t) => BroadcastDue
        /\ abort_all /\ ev = "abort" => t \in to_abort

(***************************************************************************)
(* What a reader found before it asked for the registry's mutex holds for  *)
(* as long as it keeps the directory's.                                    *)
(***************************************************************************)
Registering ==
    \A t \in Threads : pc[t] = "register" => t \notin m_abort_set /\ ~Unread(t)

AbortBegun == RegistryFree => to_abort = {}

Inv == /\ TypeOK
       /\ QueueIsTail
       /\ PublishedBounded
       /\ Cursors
       /\ ServingOpened
       /\ BlockedIsRegistered
       /\ RefcountExact
       /\ Sleepers
       /\ Registering
       /\ AbortBegun

(***************************************************************************)
(* What nextEvent finds for an open handle, in terms of event numbers.     *)
(***************************************************************************)
Due(h) == IF last[h] >= published - MaxBacklog THEN last[h] + 1
                                               ELSE published - MaxBacklog + 1

LEMMA NextEventIs ==
    ASSUME NoWrap, TypeOK, QueueIsTail, PublishedBounded, Cursors,
           NEW h \in opened
    PROVE  /\ last[h] < published => nextEvent(cur_id[h]) = {Numbered(Due(h))}
           /\ last[h] = published => nextEvent(cur_id[h]) = {}
<1>1. /\ m_event_queue \in Seq(Event)
      /\ published \in Nat
      /\ last[h] \in Nat
      /\ MaxBacklog \in Nat \ {0}
      /\ INVALID \in Nat
      /\ MaxEvents \in Nat
  BY EventFileAssumption DEF TypeOK
<1>2. published < INVALID /\ last[h] <= published /\ cur_id[h] = CursorOf(h)
  BY <1>1 DEF NoWrap, PublishedBounded, Cursors
<1>3. CASE published = 0
  BY <1>1, <1>2, <1>3 DEF QueueIsTail, Kept, nextEvent
<1>4. CASE published > 0
  <2>1. Kept \in 1 .. published /\ Kept <= MaxBacklog
    BY <1>1, <1>4 DEF Kept
  <2>2. m_event_queue # <<>> /\ Len(m_event_queue) = Kept
    BY <1>1, <2>1 DEF QueueIsTail
  <2>3. Oldest = Numbered(published - Kept + 1) /\ Oldest.id = published - Kept + 1
    BY <1>1, <2>1 DEF QueueIsTail, Oldest, Numbered
  <2>4. Newest.id = published
    BY <1>1, <2>1 DEF QueueIsTail, Newest, Numbered
  <2>5. CASE last[h] = 0
    <3>1. nextEvent(cur_id[h]) = {Oldest}
      BY <1>2, <2>2, <2>5 DEF nextEvent, CursorOf
    <3>2. Due(h) = published - Kept + 1
      BY <1>1, <1>4, <2>5 DEF Due, Kept
    <3> QED
      BY <1>1, <1>4, <2>3, <2>5, <3>1, <3>2
  <2>6. CASE last[h] > 0 /\ last[h] < published - Kept + 1
    <3>1. nextEvent(cur_id[h]) = {Oldest}
      BY <1>1, <1>2, <2>2, <2>3, <2>6 DEF nextEvent, CursorOf
    <3>2. Due(h) = published - Kept + 1 /\ last[h] < published
      BY <1>1, <2>1, <2>6 DEF Due, Kept
    <3> QED
      BY <1>1, <2>3, <3>1, <3>2
  <2>7. CASE last[h] > 0 /\ last[h] = published
    BY <1>1, <1>2, <2>1, <2>2, <2>3, <2>4, <2>7 DEF nextEvent, CursorOf
  <2>8. CASE last[h] >= published - Kept + 1 /\ last[h] < published
    <3>1. cur_id[h] = last[h] /\ last[h] # INVALID /\ last[h] > 0
      BY <1>1, <1>2, <2>1, <2>8 DEF CursorOf
    <3> DEFINE i == last[h] - (published - Kept + 1) + 2
    <3>2. nextEvent(cur_id[h]) = Indexed(i)
      BY <1>1, <1>2, <2>1, <2>2, <2>3, <2>4, <2>8, <3>1 DEF nextEvent
    <3>3. i \in 1 .. Kept /\ published - Kept + i = last[h] + 1
      BY <1>1, <2>1, <2>8
    <3>4. Indexed(i) = {m_event_queue[i]}
      BY <1>1, <2>2, <3>3 DEF Indexed
    <3>5. m_event_queue[i] = Numbered(last[h] + 1)
      BY <3>3 DEF QueueIsTail
    <3>6. Due(h) = last[h] + 1
      BY <1>1, <2>1, <2>8 DEF Due
    <3> QED
      BY <1>1, <2>8, <3>2, <3>4, <3>5, <3>6
  <2> QED
    BY <1>1, <1>2, <2>1, <2>5, <2>6, <2>7, <2>8
<1> QED
  BY <1>1, <1>3, <1>4

-----------------------------------------------------------------------------
(* The invariant is inductive.                                             *)

(***************************************************************************)
(* The invariant holds at the start: empty queue, nobody reading.          *)
(***************************************************************************)
LEMMA InvInit == Init => Inv
<1> SUFFICES ASSUME Init PROVE Inv
  OBVIOUS
<1>1. TypeOK
  BY TypeInit
<1>2. QueueIsTail /\ PublishedBounded
  BY EventFileAssumption DEF Init, QueueIsTail, Kept, PublishedBounded
<1>3. Cursors /\ ServingOpened /\ Sleepers /\ Registering /\ AbortBegun
  BY DEF Init, Cursors, ServingOpened, Sleepers, Registering, AbortBegun
<1>4. BlockedIsRegistered
  BY DEF Init, BlockedIsRegistered
<1>5. RefcountExact
  BY FS_EmptySet DEF Init, RefcountExact
<1> QED
  BY <1>1, <1>2, <1>3, <1>4, <1>5 DEF Inv

(***************************************************************************)
(* addEvent keeps the queue the tail of what was published, whether or not *)
(* it has to drop the oldest event.                                        *)
(***************************************************************************)
LEMMA PushKeepsTail ==
    ASSUME NoWrap, TypeOK, QueueIsTail, published <= MaxEvents, m_refcount # 0,
           NEW place, NEW otherwise, pushEvent(place, otherwise)
    PROVE  QueueIsTail'
<1>1. /\ m_event_queue \in Seq(Event)
      /\ published \in Nat
      /\ MaxBacklog \in Nat \ {0}
      /\ MaxEvents \in Nat /\ INVALID \in Nat
  BY EventFileAssumption DEF TypeOK
<1>2. /\ published' = published + 1
      /\ m_event_queue' = Append(Trimmed, Numbered(published + 1))
      /\ m_next_id' = published + 1
  BY <1>1 DEF pushEvent, QueueIsTail, Numbered, nextID, AfterID, NoWrap
<1> DEFINE n == Len(Trimmed)
<1>3. /\ Trimmed \in Seq(Event)
      /\ n \in Nat
      /\ n + 1 = Kept'
      /\ \A i \in 1 .. n : Trimmed[i] = Numbered(published - n + i)
  <2>1. CASE published < MaxBacklog
    <3>1. Len(m_event_queue) = published /\ Kept = published /\ Kept' = published + 1
      BY <1>1, <1>2, <2>1 DEF Kept, QueueIsTail
    <3>2. Trimmed = m_event_queue
      BY <1>1, <2>1, <3>1 DEF Trimmed
    <3>3. \A i \in 1 .. published : m_event_queue[i] = Numbered(published - published + i)
      BY <3>1 DEF QueueIsTail
    <3> QED
      BY <1>1, <3>1, <3>2, <3>3
  <2>2. CASE published >= MaxBacklog
    <3>1. Len(m_event_queue) = MaxBacklog /\ Kept = MaxBacklog /\ Kept' = MaxBacklog
      BY <1>1, <1>2, <2>2 DEF Kept, QueueIsTail
    <3>2. Trimmed = Tail(m_event_queue)
      BY <3>1 DEF Trimmed
    <3>3. /\ Tail(m_event_queue) \in Seq(Event)
          /\ Len(Tail(m_event_queue)) = MaxBacklog - 1
          /\ \A i \in 1 .. MaxBacklog - 1 : Tail(m_event_queue)[i] = m_event_queue[i + 1]
      BY <1>1, <3>1
    <3>4. \A i \in 1 .. MaxBacklog - 1 :
             m_event_queue[i + 1] = Numbered(published - MaxBacklog + (i + 1))
      BY <1>1, <3>1 DEF QueueIsTail
    <3>5. ASSUME NEW i \in 1 .. MaxBacklog - 1
          PROVE  Tail(m_event_queue)[i] = Numbered(published - (MaxBacklog - 1) + i)
      <4>1. published - MaxBacklog + (i + 1) = published - (MaxBacklog - 1) + i
        BY <1>1
      <4> QED
        BY <3>3, <3>4, <4>1
    <3>6. n = MaxBacklog - 1
      BY <3>2, <3>3
    <3> QED
      BY <1>1, <3>1, <3>2, <3>3, <3>5, <3>6
  <2> QED
    BY <1>1, <2>1, <2>2
<1>4. /\ Len(m_event_queue') = n + 1
      /\ \A i \in 1 .. n : m_event_queue'[i] = Trimmed[i]
      /\ m_event_queue'[n + 1] = Numbered(published + 1)
  <2>1. Numbered(published + 1) \in Event
    BY <1>1 DEF Numbered, Event
  <2> QED
    BY <1>2, <1>3, <2>1
<1>5. ASSUME NEW i \in 1 .. Kept'
      PROVE  m_event_queue'[i] = Numbered(published' - Kept' + i)
  <2>1. CASE i \in 1 .. n
    <3>1. published - n + i = published' - Kept' + i
      BY <1>1, <1>2, <1>3
    <3> QED
      BY <1>3, <1>4, <2>1, <3>1
  <2>2. CASE i = n + 1
    <3>1. published + 1 = published' - Kept' + i
      BY <1>1, <1>2, <1>3, <2>2
    <3> QED
      BY <1>4, <2>2, <3>1
  <2> QED
    BY <1>3, <2>1, <2>2
<1> QED
  BY <1>2, <1>3, <1>4, <1>5 DEF QueueIsTail, Numbered

(***************************************************************************)
(* As long as the directory refers to the file, somebody does: the early   *)
(* return of addEvent is not taken.                                        *)
(***************************************************************************)
LEMMA LinkedIsReferenced ==
    ASSUME IsFiniteSet(Handles), TypeOK, RefcountExact, ~m_deleted
    PROVE  m_refcount # 0
<1>1. IsFiniteSet(opened)
  BY FS_Subset DEF TypeOK
<1>2. Cardinality(opened) \in Nat
  BY <1>1, FS_CardinalityType
<1> QED
  BY <1>2 DEF RefcountExact, TypeOK

(***************************************************************************)
(* Publishing an event, "destroyed" or another.                            *)
(***************************************************************************)
LEMMA PublishInv ==
    ASSUME NoWrap, IsFiniteSet(Handles), Inv, TypeOK',
           addEvent \/ addDestroyedEvent
    PROVE  Inv'
<1>0. m_refcount # 0
  BY LinkedIsReferenced DEF Inv, addEvent, addDestroyedEvent
<1>1. /\ ev = "idle" /\ ~m_deleted
      /\ pushEvent("notify", "idle") \/ pushEvent("notify_destroyed", "mark")
      /\ ev' \in {"notify", "notify_destroyed"}
      /\ ev' = "notify" => published < MaxEvents
      /\ DirectoryFree
      /\ UNCHANGED <<m_deleted, m_refcount, context, thread, abort>>
  BY <1>0 DEF addEvent, addDestroyedEvent, pushEvent
<1>2. published \in Nat /\ MaxEvents \in Nat /\ published <= MaxEvents
  BY <1>1, EventFileAssumption DEF Inv, TypeOK, PublishedBounded
<1>3. published' = published + 1
  BY <1>1 DEF pushEvent
<1>4. QueueIsTail'
  BY <1>0, <1>1, <1>2, PushKeepsTail DEF Inv
<1>5. PublishedBounded'
  BY <1>1, <1>2, <1>3 DEF PublishedBounded
<1>6. Cursors'
  BY <1>1, <1>2, <1>3 DEF Inv, TypeOK, Cursors, CursorOf, context
<1>7. ServingOpened' /\ BlockedIsRegistered' /\ RefcountExact'
  BY <1>1 DEF Inv, ServingOpened, BlockedIsRegistered, RefcountExact, context, thread, abort
<1>8. Sleepers'
  BY <1>1 DEF Inv, Sleepers, BroadcastDue, thread, abort
<1>9. Registering' /\ AbortBegun'
  BY <1>1 DEF Inv, Registering, AbortBegun, DirectoryFree, RegistryFree, thread, abort
<1> QED
  BY <1>4, <1>5, <1>6, <1>7, <1>8, <1>9 DEF Inv

(***************************************************************************)
(* The broadcast leaves nobody asleep.                                     *)
(***************************************************************************)
LEMMA BroadcastInv ==
    ASSUME Inv, TypeOK', broadcast
    PROVE  Inv'
<1>1. /\ UNCHANGED <<file, context, serving, res, abort>>
      /\ ev' = CASE ev = "notify_destroyed" -> "mark"
                 [] ev = "notify_abort" -> "abort"
                 [] OTHER -> "idle"
      /\ ev \in {"notify", "notify_destroyed", "notify_deleted", "notify_abort"}
  BY DEF broadcast, BroadcastDue
<1>2. \A t \in Threads : pc'[t] = IF pc[t] = "wait" THEN "woken" ELSE pc[t]
  BY DEF broadcast, WakeAll
<1>3. QueueIsTail' /\ Cursors' /\ RefcountExact'
  BY <1>1 DEF Inv, QueueIsTail, Kept, Cursors, CursorOf, RefcountExact, file, context
<1>4. PublishedBounded'
  BY <1>1 DEF Inv, PublishedBounded, file
<1>5. ServingOpened' /\ BlockedIsRegistered' /\ Sleepers'
  BY <1>1, <1>2 DEF Inv, ServingOpened, BlockedIsRegistered, Sleepers, context, abort
<1>6. Registering' /\ AbortBegun'
  BY <1>1, <1>2 DEF Inv, Registering, Unread, AbortBegun, RegistryFree, file, context, abort
<1> QED
  BY <1>3, <1>4, <1>5, <1>6 DEF Inv

(***************************************************************************)
(* markDeleted gives up the directory's reference and leaves the queue alone.*)
(***************************************************************************)
LEMMA MarkDeletedInv ==
    ASSUME IsFiniteSet(Handles), Inv, TypeOK', markDeleted
    PROVE  Inv'
<1>1. /\ ev = "mark" /\ m_deleted' = TRUE /\ m_refcount' = m_refcount - 1
      /\ ev' = "notify_deleted" /\ DirectoryFree
      /\ UNCHANGED <<m_event_queue, m_next_id, published, context, thread, abort>>
  BY DEF markDeleted, unref
<1>2. QueueIsTail' /\ PublishedBounded' /\ Cursors'
  BY <1>1 DEF Inv, QueueIsTail, Kept, PublishedBounded, Cursors, CursorOf, context
<1>3. ServingOpened' /\ BlockedIsRegistered' /\ Sleepers'
  BY <1>1 DEF Inv, ServingOpened, BlockedIsRegistered, Sleepers, BroadcastDue,
              context, thread, abort
<1>4. RefcountExact'
  <2>1. Cardinality(opened) \in Nat
    BY FS_Subset, FS_CardinalityType DEF Inv, TypeOK
  <2> QED
    BY <1>1, <2>1 DEF Inv, PublishedBounded, RefcountExact, context
<1>5. Registering' /\ AbortBegun'
  BY <1>1 DEF Inv, Registering, AbortBegun, DirectoryFree, RegistryFree, thread, abort
<1> QED
  BY <1>2, <1>3, <1>4, <1>5 DEF Inv

(***************************************************************************)
(* Looking up whom an abort concerns tells nobody; a shutdown finds all    *)
(* who sleep.                                                              *)
(***************************************************************************)
LEMMA LookUpInv ==
    ASSUME Inv, TypeOK', readAbortPipe
    PROVE  Inv'
<1>1. /\ UNCHANGED <<file, context, thread, m_abort_set, m_blocking_calls, m_shutdown>>
      /\ ev = "idle" /\ ev' = "abort"
      /\ to_abort' = AbortedBy(Head(abort_pipe))
      /\ abort_all' = (Head(abort_pipe) = "SHUTDOWN")
  BY DEF readAbortPipe
<1>2. QueueIsTail' /\ PublishedBounded' /\ Cursors' /\ RefcountExact'
  BY <1>1 DEF Inv, QueueIsTail, Kept, PublishedBounded, Cursors, CursorOf, RefcountExact,
              file, context
<1>3. /\ to_abort' \subseteq m_blocking_calls
      /\ abort_all' => to_abort' = m_blocking_calls
  BY <1>1 DEF AbortedBy
<1>4. ServingOpened' /\ BlockedIsRegistered'
  BY <1>1, <1>3 DEF Inv, ServingOpened, BlockedIsRegistered, context, thread
<1>5. Sleepers'
  BY <1>1, <1>3 DEF Inv, Sleepers, BlockedIsRegistered, Unread, BroadcastDue,
                    file, context, thread
<1>6. Registering' /\ AbortBegun'
  BY <1>1 DEF Inv, Registering, Unread, AbortBegun, RegistryFree, file, context, thread
<1> QED
  BY <1>2, <1>4, <1>5, <1>6 DEF Inv

(***************************************************************************)
(* An abort is recorded while no reader is between its test and its sleep. *)
(***************************************************************************)
LEMMA RecordInv ==
    ASSUME Inv, TypeOK', NEW u \in Threads, recordAbort(u)
    PROVE  Inv'
<1>1. /\ UNCHANGED <<file, context, thread, m_blocking_calls, m_shutdown>>
      /\ ev = "abort" /\ ev' = "notify_abort" /\ DirectoryFree
      /\ m_abort_set' = m_abort_set \cup {u} /\ to_abort' = to_abort \ {u}
  BY DEF recordAbort
<1>2. QueueIsTail' /\ PublishedBounded' /\ Cursors' /\ RefcountExact'
  BY <1>1 DEF Inv, QueueIsTail, Kept, PublishedBounded, Cursors, CursorOf, RefcountExact,
              file, context
<1>3. ServingOpened' /\ BlockedIsRegistered'
  BY <1>1 DEF Inv, ServingOpened, BlockedIsRegistered, context, thread
<1>4. Sleepers'
  BY <1>1 DEF Inv, Sleepers, BroadcastDue, thread
<1>5. Registering' /\ AbortBegun'
  BY <1>1 DEF Registering, AbortBegun, DirectoryFree, RegistryFree, thread
<1> QED
  BY <1>2, <1>3, <1>4, <1>5 DEF Inv

(***************************************************************************)
(* When the last abort is told nobody sleeps who the shutdown concerns.    *)
(***************************************************************************)
LEMMA FinishAbortInv ==
    ASSUME Inv, TypeOK', finishAbort
    PROVE  Inv'
<1>1. /\ UNCHANGED <<file, context, thread, m_blocking_calls, m_abort_set, to_abort>>
      /\ ev = "abort" /\ ev' = "idle" /\ to_abort = {}
      /\ m_shutdown' = (m_shutdown \/ abort_all)
      /\ ~abort_all'
  BY DEF finishAbort
<1>2. QueueIsTail' /\ PublishedBounded' /\ Cursors' /\ RefcountExact'
  BY <1>1 DEF Inv, QueueIsTail, Kept, PublishedBounded, Cursors, CursorOf, RefcountExact,
              file, context
<1>3. ServingOpened' /\ BlockedIsRegistered'
  BY <1>1 DEF Inv, ServingOpened, BlockedIsRegistered, context, thread
<1>4. Sleepers'
  <2> SUFFICES ASSUME NEW t \in Threads, pc[t] = "wait"
               PROVE  /\ t \notin m_abort_set /\ ~m_shutdown' /\ ~Unread(t)'
    BY <1>1 DEF Sleepers, thread
  <2>1. t \notin m_abort_set /\ ~m_shutdown /\ ~Unread(t)
    BY <1>1 DEF Inv, Sleepers, BroadcastDue
  <2>2. ~abort_all
    BY <1>1 DEF Inv, Sleepers
  <2>3. Unread(t)' = Unread(t)
    BY <1>1 DEF Unread, file, context, thread
  <2> QED
    BY <1>1, <2>1, <2>2, <2>3
<1>5. Registering' /\ AbortBegun'
  BY <1>1 DEF Inv, Registering, Unread, AbortBegun, file, context, thread
<1> QED
  BY <1>2, <1>3, <1>4, <1>5 DEF Inv

(***************************************************************************)
(* A new context starts at the youngest event and takes a reference.       *)
(***************************************************************************)
LEMMA OpenInv ==
    ASSUME IsFiniteSet(Handles), Inv, TypeOK', NEW h \in Handles, createOpenContext(h)
    PROVE  Inv'
<1>1. /\ h \notin opened /\ opened' = opened \cup {h}
      /\ m_refcount' = m_refcount + 1
      /\ cur_id' = [cur_id EXCEPT ![h] = FirstId]
      /\ last' = [last EXCEPT ![h] = published]
      /\ UNCHANGED <<m_event_queue, m_next_id, m_deleted, published, thread, abort, ev>>
  BY DEF createOpenContext, ref
<1>2. QueueIsTail' /\ PublishedBounded'
  BY <1>1 DEF Inv, QueueIsTail, Kept, PublishedBounded
<1>3. FirstId = IF published = 0 THEN INVALID ELSE published
  <2>1. /\ published \in Nat /\ MaxBacklog \in Nat \ {0}
        /\ m_event_queue \in Seq(Event)
    BY EventFileAssumption DEF Inv, TypeOK
  <2>2. CASE published = 0
    BY <2>1, <2>2 DEF Inv, QueueIsTail, Kept, FirstId
  <2>3. CASE published # 0
    <3>1. Kept \in 1 .. published /\ Len(m_event_queue) = Kept
      BY <2>1, <2>3 DEF Inv, QueueIsTail, Kept
    <3>2. m_event_queue[Kept] = Numbered(published)
      BY <2>1, <3>1 DEF Inv, QueueIsTail
    <3> QED
      BY <2>1, <2>3, <3>1, <3>2 DEF FirstId, Newest, Numbered
  <2> QED
    BY <2>2, <2>3
<1>4. Cursors'
  BY <1>1, <1>3 DEF Inv, TypeOK, Cursors, CursorOf
<1>5. ServingOpened' /\ BlockedIsRegistered'
  BY <1>1 DEF Inv, ServingOpened, BlockedIsRegistered, thread, abort
<1>6. RefcountExact'
  <2>1. IsFiniteSet(opened) /\ Cardinality(opened) \in Nat
    BY FS_Subset, FS_CardinalityType DEF Inv, TypeOK
  <2>2. Cardinality(opened') = Cardinality(opened) + 1
    BY <1>1, <2>1, FS_AddElement
  <2>3. m_refcount = Cardinality(opened) + (IF m_deleted THEN 0 ELSE 1)
    BY DEF Inv, RefcountExact
  <2> QED
    BY <1>1, <2>1, <2>2, <2>3 DEF RefcountExact
<1>7. Sleepers' /\ Registering'
  BY <1>1 DEF Inv, TypeOK, ServingOpened, Sleepers, Registering, Unread, BroadcastDue,
              thread, abort
<1>8. AbortBegun'
  BY <1>1 DEF Inv, AbortBegun, RegistryFree, abort
<1> QED
  BY <1>2, <1>4, <1>5, <1>6, <1>7, <1>8 DEF Inv

(***************************************************************************)
(* A closed context gives its reference back.                              *)
(***************************************************************************)
LEMMA CloseInv ==
    ASSUME IsFiniteSet(Handles), Inv, TypeOK', NEW h \in Handles, destroyOpenContext(h)
    PROVE  Inv'
<1>1. /\ h \in opened /\ opened' = opened \ {h}
      /\ \A t \in Threads : serving[t] = h => pc[t] = "idle"
      /\ m_refcount' = m_refcount - 1
      /\ cur_id' = [cur_id EXCEPT ![h] = INVALID]
      /\ last' = [last EXCEPT ![h] = 0]
      /\ UNCHANGED <<m_event_queue, m_next_id, m_deleted, published, thread, abort, ev>>
  BY DEF destroyOpenContext, unref
<1>2. QueueIsTail' /\ PublishedBounded' /\ Cursors'
  BY <1>1 DEF Inv, TypeOK, QueueIsTail, Kept, PublishedBounded, Cursors, CursorOf
<1>3. ServingOpened' /\ BlockedIsRegistered'
  BY <1>1 DEF Inv, ServingOpened, BlockedIsRegistered, thread, abort
<1>4. RefcountExact'
  <2>1. IsFiniteSet(opened) /\ Cardinality(opened) \in Nat
    BY FS_Subset, FS_CardinalityType DEF Inv, TypeOK
  <2>2. Cardinality(opened') = Cardinality(opened) - 1
    BY <1>1, <2>1, FS_RemoveElement
  <2>3. m_refcount = Cardinality(opened) + (IF m_deleted THEN 0 ELSE 1)
    BY DEF Inv, RefcountExact
  <2> QED
    BY <1>1, <2>1, <2>2, <2>3 DEF RefcountExact
<1>5. \A t \in Threads : pc[t] # "idle" => Unread(t)' = Unread(t)
  BY <1>1 DEF Inv, TypeOK, Unread, thread
<1>6. Sleepers' /\ Registering' /\ AbortBegun'
  BY <1>1, <1>5 DEF Inv, Sleepers, Registering, BroadcastDue, AbortBegun, RegistryFree,
                    thread, abort
<1> QED
  BY <1>2, <1>3, <1>4, <1>6 DEF Inv

(***************************************************************************)
(* Beginning a read touches nothing but the thread.                        *)
(***************************************************************************)
LEMMA StartReadInv ==
    ASSUME Inv, TypeOK', NEW t \in Threads, NEW h \in Handles, read(t, h)
    PROVE  Inv'
<1>1. /\ pc[t] = "idle" /\ h \in opened
      /\ \/ pc' = [pc EXCEPT ![t] = "enter"]
         \/ pc' = [pc EXCEPT ![t] = "leave"]
      /\ serving' = [serving EXCEPT ![t] = h]
      /\ UNCHANGED <<file, context, abort, ev>>
  BY DEF read
<1>2. QueueIsTail' /\ PublishedBounded' /\ Cursors' /\ RefcountExact'
  BY <1>1 DEF Inv, QueueIsTail, Kept, PublishedBounded, Cursors, CursorOf, RefcountExact,
              file, context
<1>3. ServingOpened' /\ BlockedIsRegistered'
  BY <1>1 DEF Inv, TypeOK, ServingOpened, BlockedIsRegistered, file, context, abort
<1>4. Sleepers' /\ Registering' /\ AbortBegun'
  BY <1>1 DEF Inv, TypeOK, Sleepers, Registering, Unread, BroadcastDue, AbortBegun,
              RegistryFree, file, context, abort
<1> QED
  BY <1>2, <1>3, <1>4 DEF Inv

(***************************************************************************)
(* A reader in the loop gets exactly the event that is due, and finds      *)
(* nothing only when it has seen everything published.                     *)
(***************************************************************************)
LEMMA ReaderFinds ==
    ASSUME NoWrap, Inv, NEW t \in Threads, Entered(t)
    PROVE  /\ serving[t] \in opened /\ opened \subseteq Handles
           /\ last[serving[t]] \in Nat /\ last[serving[t]] <= published
           /\ deliverEvent(t) =>
                /\ last[serving[t]] < published
                /\ last' = [last EXCEPT ![serving[t]] = Due(serving[t])]
                /\ cur_id' = [cur_id EXCEPT ![serving[t]] = Due(serving[t])]
           /\ NothingNew(t) => last[serving[t]] = published
<1> DEFINE h == serving[t]
<1>1. h \in opened /\ opened \subseteq Handles
  BY DEF Inv, TypeOK, Entered, ServingOpened
<1>2. last[h] \in Nat /\ published \in Nat /\ last[h] <= published
  BY <1>1 DEF Inv, TypeOK, Cursors
<1>3. /\ last[h] < published => nextEvent(cur_id[h]) = {Numbered(Due(h))}
      /\ last[h] = published => nextEvent(cur_id[h]) = {}
  BY <1>1, NextEventIs DEF Inv
<1>4. ASSUME deliverEvent(t)
      PROVE  /\ last[h] < published
             /\ last' = [last EXCEPT ![h] = Due(h)]
             /\ cur_id' = [cur_id EXCEPT ![h] = Due(h)]
  <2>1. PICK event \in nextEvent(cur_id[h]) :
          /\ cur_id' = [cur_id EXCEPT ![h] = event.id]
          /\ last' = [last EXCEPT ![h] = event.text]
    BY <1>4 DEF deliverEvent
  <2>2. last[h] < published
    BY <1>2, <1>3, <2>1
  <2>3. event = Numbered(Due(h))
    BY <1>3, <2>1, <2>2
  <2>4. event.id = Due(h) /\ event.text = Due(h)
    BY <2>3 DEF Numbered
  <2> QED
    BY <2>1, <2>2, <2>4
<1>5. NothingNew(t) => last[h] = published
  BY <1>2, <1>3 DEF NothingNew
<1> QED
  BY <1>1, <1>2, <1>4, <1>5

(***************************************************************************)
(* What one turn of the loop does, whichever way it goes.                  *)
(***************************************************************************)
LoopTurn(t) == deliverEvent(t) \/ signalEOF(t) \/ wouldBlock(t) \/ wasAborted(t)
                 \/ nothingToRead(t)

LEMMA LoopTurnDoes ==
    ASSUME NoWrap, Inv, NEW t \in Threads, LoopTurn(t)
    PROVE  /\ Entered(t)
           /\ pc[t] \in {"enter", "unregister"}
           /\ m_blocking_calls' = m_blocking_calls \ {t}
           /\ \/ pc' = [pc EXCEPT ![t] = "leave"]
              \/ /\ pc' = [pc EXCEPT ![t] = "register"]
                 /\ t \notin m_abort_set /\ ~m_deleted /\ last[serving[t]] = published
                 /\ UNCHANGED last
           /\ m_abort_set' \subseteq m_abort_set
           /\ UNCHANGED <<file, opened, nonblocking, serving, m_shutdown, abort_pipe,
                          to_abort, abort_all, ev>>
<1> USE DEF LoopTurn, LeaveWith, finishedBlockingCall
<1>1. Entered(t)
  BY DEF deliverEvent, signalEOF, wouldBlock, wasAborted, nothingToRead, MayBlock, NothingNew
<1>2. /\ pc[t] \in {"enter", "unregister"}
      /\ UNCHANGED <<file, opened, nonblocking, serving, m_shutdown, abort_pipe,
                     to_abort, abort_all, ev>>
  BY <1>1 DEF Entered
<1>3. m_blocking_calls' = m_blocking_calls \ {t} /\ m_abort_set' \subseteq m_abort_set
  BY DEF deliverEvent, signalEOF, wouldBlock, wasAborted, nothingToRead
<1>4. CASE nothingToRead(t)
  BY <1>1, <1>2, <1>3, <1>4, ReaderFinds DEF nothingToRead, MayBlock
<1>5. CASE ~nothingToRead(t)
  <2>1. pc' = [pc EXCEPT ![t] = "leave"]
    BY <1>5 DEF deliverEvent, signalEOF, wouldBlock, wasAborted
  <2> QED
    BY <1>1, <1>2, <1>3, <2>1
<1> QED
  BY <1>4, <1>5

(***************************************************************************)
(* A reader that leaves the loop, or stays in it with the directory's      *)
(* mutex.                                                                  *)
(***************************************************************************)
LEMMA LoopInv ==
    ASSUME NoWrap, Inv, TypeOK', NEW t \in Threads, LoopTurn(t)
    PROVE  Inv'
<1> DEFINE h == serving[t]
<1>1. /\ Entered(t)
      /\ UNCHANGED <<file, opened, nonblocking, serving, m_shutdown, abort_pipe,
                     to_abort, abort_all, ev>>
  BY LoopTurnDoes
<1>2. h \in opened /\ h \in Handles /\ last[h] \in Nat /\ published \in Nat
  BY <1>1, ReaderFinds DEF Inv, TypeOK
<1>3. QueueIsTail' /\ PublishedBounded' /\ RefcountExact'
  BY <1>1 DEF Inv, QueueIsTail, Kept, PublishedBounded, RefcountExact, file
<1>4. deliverEvent(t) \/ UNCHANGED <<cur_id, last>>
  BY DEF LoopTurn, signalEOF, wouldBlock, wasAborted, nothingToRead
<1>5. Cursors'
  <2>1. CASE deliverEvent(t)
    <3>1. /\ last[h] < published
          /\ last' = [last EXCEPT ![h] = Due(h)]
          /\ cur_id' = [cur_id EXCEPT ![h] = Due(h)]
      BY <1>1, <2>1, ReaderFinds
    <3>2. Due(h) \in 1 .. published
      BY <1>2, <3>1, EventFileAssumption DEF Due
    <3> QED
      BY <1>1, <1>2, <3>1, <3>2 DEF Inv, TypeOK, Cursors, CursorOf, file
  <2>2. CASE UNCHANGED <<cur_id, last>>
    BY <1>1, <2>2 DEF Inv, Cursors, CursorOf, file
  <2> QED
    BY <1>4, <2>1, <2>2
<1>11. /\ pc[t] \in {"enter", "unregister"} /\ pc'[t] \in {"leave", "register"}
       /\ \A u \in Threads : u # t => pc'[u] = pc[u]
  <2>1. /\ pc[t] \in {"enter", "unregister"}
        /\ pc' = [pc EXCEPT ![t] = "leave"] \/ pc' = [pc EXCEPT ![t] = "register"]
    BY LoopTurnDoes
  <2>2. pc \in [Threads -> Places]
    BY DEF Inv, TypeOK
  <2> QED
    BY <2>1, <2>2
<1>6. ServingOpened'
  BY <1>1, <1>2, LoopTurnDoes DEF Inv, TypeOK, ServingOpened
<1>7. BlockedIsRegistered' /\ AbortBegun'
  <2>1. pc[t] = "enter" => t \notin m_blocking_calls
    BY DEF Inv, BlockedIsRegistered
  <2>2. pc[t] = "unregister" => to_abort = {}
    BY <1>1 DEF Inv, AbortBegun, Entered
  <2>3. to_abort \subseteq m_blocking_calls'
    BY <2>1, <2>2, LoopTurnDoes DEF Inv, BlockedIsRegistered
  <2>4. m_blocking_calls' = {u \in Threads : pc'[u] \in {"wait", "woken", "unregister"}}
    <3>1. m_blocking_calls = {u \in Threads : pc[u] \in {"wait", "woken", "unregister"}}
      BY DEF Inv, BlockedIsRegistered
    <3>2. m_blocking_calls' = m_blocking_calls \ {t}
      BY LoopTurnDoes
    <3> QED
      BY <1>11, <3>1, <3>2
  <2>5. \A u \in m_blocking_calls' : serving'[u] \in opened'
    BY <1>1, LoopTurnDoes DEF Inv, BlockedIsRegistered
  <2> QED
    BY <1>1, <2>3, <2>4, <2>5 DEF Inv, BlockedIsRegistered, AbortBegun, RegistryFree
<1>8. ASSUME NEW u \in Threads, Unread(u)' PROVE Unread(u)
  <2> DEFINE g == serving[u]
  <2>1. g \in Handles
    BY DEF Inv, TypeOK
  <2>2. CASE deliverEvent(t)
    BY <1>1, <1>2, <1>8, <2>1, <2>2, ReaderFinds DEF Inv, TypeOK, Unread, file
  <2>3. CASE UNCHANGED last
    BY <1>1, <1>8, <2>3 DEF Unread, file
  <2> QED
    BY <1>4, <2>2, <2>3
<1>9. Sleepers'
  <2> SUFFICES ASSUME NEW u \in Threads, pc'[u] = "wait"
               PROVE  /\ u \in m_abort_set' => ev = "notify_abort"
                      /\ ~m_shutdown
                      /\ Unread(u)' => BroadcastDue
                      /\ abort_all /\ ev = "abort" => u \in to_abort
    BY <1>1 DEF Sleepers, BroadcastDue
  <2>1. pc[u] = "wait"
    BY <1>11
  <2>2. m_abort_set' \subseteq m_abort_set
    BY LoopTurnDoes
  <2> QED
    BY <1>8, <2>1, <2>2 DEF Inv, Sleepers
<1>10. Registering'
  <2> SUFFICES ASSUME NEW u \in Threads, pc'[u] = "register"
               PROVE  u \notin m_abort_set' /\ ~Unread(u)'
    BY DEF Registering
  <2>1. CASE pc[u] = "register"
    BY <1>8, <2>1, LoopTurnDoes DEF Inv, Registering
  <2>2. CASE pc[u] # "register"
    <3>1. u = t /\ pc' = [pc EXCEPT ![t] = "register"]
      BY <1>11, <2>2, LoopTurnDoes
    <3>2. t \notin m_abort_set /\ ~m_deleted /\ last[h] = published
      BY <3>1, LoopTurnDoes DEF Inv, TypeOK
    <3>3. ~Unread(t)
      BY <1>2, <3>2 DEF Unread
    <3> QED
      BY <1>8, <3>1, <3>2, <3>3, LoopTurnDoes
  <2> QED
    BY <2>1, <2>2
<1> QED
  BY <1>3, <1>5, <1>6, <1>7, <1>9, <1>10 DEF Inv

(***************************************************************************)
(* A reader with both mutexes goes to sleep or is refused.                 *)
(***************************************************************************)
LEMMA RegisterInv ==
    ASSUME Inv, TypeOK', NEW t \in Threads, prepareBlockingCall(t)
    PROVE  Inv'
<1>1. /\ pc[t] = "register"
      /\ ev \notin {"abort", "notify_abort"}
      /\ UNCHANGED <<file, context, serving, m_abort_set, m_shutdown, abort_pipe,
                     to_abort, abort_all, ev>>
      /\ \/ /\ pc' = [pc EXCEPT ![t] = "leave"]
            /\ UNCHANGED m_blocking_calls
         \/ /\ pc' = [pc EXCEPT ![t] = "wait"]
            /\ ~m_shutdown
            /\ m_blocking_calls' = m_blocking_calls \cup {t}
  BY DEF prepareBlockingCall, refuseBlocking, wait, mayRegister, RegistryFree, LeaveWith
<1>2. QueueIsTail' /\ PublishedBounded' /\ Cursors' /\ RefcountExact'
  BY <1>1 DEF Inv, QueueIsTail, Kept, PublishedBounded, Cursors, CursorOf, RefcountExact,
              file, context
<1>3. ServingOpened' /\ BlockedIsRegistered'
  BY <1>1 DEF Inv, TypeOK, ServingOpened, BlockedIsRegistered, context
<1>4. \A u \in Threads : Unread(u)' = Unread(u)
  BY <1>1 DEF Unread, file, context
<1>5. t \notin m_abort_set /\ ~Unread(t)
  BY <1>1 DEF Inv, Registering
<1>6. Sleepers'
  BY <1>1, <1>4, <1>5 DEF Inv, TypeOK, Sleepers, BroadcastDue
<1>7. Registering' /\ AbortBegun'
  BY <1>1, <1>4 DEF Inv, TypeOK, Registering, AbortBegun, RegistryFree
<1> QED
  BY <1>2, <1>3, <1>6, <1>7 DEF Inv

(***************************************************************************)
(* What is left changes only where a thread is or what waits in the pipe.  *)
(***************************************************************************)
LEMMA OtherInv ==
    ASSUME Inv, TypeOK', NEW t \in Threads,
           relock(t) \/ spuriousWakeup(t) \/ replyRead(t) \/ signalThread(t)
    PROVE  Inv'
<1>1. /\ UNCHANGED <<file, context, serving, m_abort_set, m_blocking_calls, m_shutdown,
                     to_abort, abort_all, ev>>
      /\ \/ UNCHANGED pc
         \/ pc[t] = "wait" /\ pc' = [pc EXCEPT ![t] = "woken"]
         \/ pc[t] = "woken" /\ pc' = [pc EXCEPT ![t] = "unregister"]
         \/ pc[t] = "leave" /\ pc' = [pc EXCEPT ![t] = "idle"]
  BY DEF relock, spuriousWakeup, replyRead, signalThread, abort, thread
<1>2. QueueIsTail' /\ PublishedBounded' /\ Cursors' /\ RefcountExact'
  BY <1>1 DEF Inv, QueueIsTail, Kept, PublishedBounded, Cursors, CursorOf, RefcountExact,
              file, context
<1>3. ServingOpened' /\ BlockedIsRegistered'
  BY <1>1 DEF Inv, TypeOK, ServingOpened, BlockedIsRegistered, context
<1>4. Sleepers' /\ Registering' /\ AbortBegun'
  BY <1>1 DEF Inv, TypeOK, Sleepers, Registering, Unread, BroadcastDue, AbortBegun,
              RegistryFree, file, context
<1> QED
  BY <1>2, <1>3, <1>4 DEF Inv

(***************************************************************************)
(* Every step keeps the invariant.                                         *)
(***************************************************************************)
LEMMA InvNext == NoWrap /\ IsFiniteSet(Handles) /\ Inv /\ [Next]_vars => Inv'
<1> SUFFICES ASSUME NoWrap, IsFiniteSet(Handles), Inv, [Next]_vars PROVE Inv'
  OBVIOUS
<1>1. TypeOK'
  BY TypeNext DEF Inv
<1>2. CASE addEvent \/ addDestroyedEvent
  BY <1>1, <1>2, PublishInv
<1>3. CASE broadcast
  BY <1>1, <1>3, BroadcastInv
<1>4. CASE markDeleted
  BY <1>1, <1>4, MarkDeletedInv
<1>5. CASE readAbortPipe \/ aborting
  BY <1>1, <1>5, LookUpInv, RecordInv, FinishAbortInv DEF aborting
<1>6. ASSUME NEW h \in Handles, createOpenContext(h) \/ destroyOpenContext(h) PROVE Inv'
  BY <1>1, <1>6, OpenInv, CloseInv
<1>7. ASSUME NEW t \in Threads, NEW h \in Handles, read(t, h) PROVE Inv'
  BY <1>1, <1>7, StartReadInv
<1>8. ASSUME NEW t \in Threads, readEvent(t) PROVE Inv'
  BY <1>1, <1>8, LoopInv, RegisterInv, OtherInv DEF readEvent, LoopTurn
<1>9. ASSUME NEW t \in Threads, spuriousWakeup(t) \/ replyRead(t) \/ signalThread(t)
      PROVE Inv'
  BY <1>1, <1>9, OtherInv
<1>10. CASE UNCHANGED vars
  BY <1>10 DEF Inv, QueueIsTail, Kept, PublishedBounded, Cursors, CursorOf, ServingOpened,
               BlockedIsRegistered, RefcountExact, Sleepers, Registering, AbortBegun,
               RegistryFree, Unread, BroadcastDue, TypeOK, vars, file, context, thread, abort
<1> QED
  BY <1>2, <1>3, <1>4, <1>5, <1>6, <1>7, <1>8, <1>9, <1>10 DEF Next, Publisher

-----------------------------------------------------------------------------
(* The theorems.                                                           *)

(***************************************************************************)
(* While ids do not wrap, nextEvent never reads outside the deque and its  *)
(* search does not fail, however slow a reader is.                         *)
(***************************************************************************)
THEOREM CursorsCorrect ==
    ASSUME NoWrap, IsFiniteSet(Handles)
    PROVE  Spec => []CursorInQueue
<1>1. Init => Inv
  BY InvInit
<1>2. Inv /\ [Next]_vars => Inv'
  BY InvNext
<1>3. Inv => CursorInQueue
  <2> SUFFICES ASSUME Inv, NEW h \in opened
               PROVE  nextEvent(cur_id[h]) \cap Garbage = {}
    BY DEF CursorInQueue
  <2>1. /\ last[h] \in Nat /\ published \in Nat /\ last[h] <= published
        /\ MaxBacklog \in Nat
    BY EventFileAssumption DEF Inv, TypeOK, Cursors
  <2>2. nextEvent(cur_id[h]) \in {{}, {Numbered(Due(h))}}
    BY <2>1, NextEventIs DEF Inv
  <2>3. Due(h) # 0
    BY <2>1 DEF Due
  <2> QED
    BY <2>2, <2>3 DEF Garbage, Numbered
<1> QED
  BY <1>1, <1>2, <1>3, PTL DEF Spec

(***************************************************************************)
(* No reader sleeps through an event, the deletion, an abort or the        *)
(* shutdown: the wake-up is due whenever there is something to tell.       *)
(***************************************************************************)
THEOREM WakeupsCorrect ==
    ASSUME NoWrap, IsFiniteSet(Handles)
    PROVE  Spec => []NoLostWakeup
<1>1. Init => Inv
  BY InvInit
<1>2. Inv /\ [Next]_vars => Inv'
  BY InvNext
<1>3. Inv => NoLostWakeup
  <2> SUFFICES ASSUME Inv, NEW t \in Threads, pc[t] = "wait", SomethingToTell(t)
               PROVE  BroadcastDue
    BY DEF NoLostWakeup
  <2>1. /\ serving[t] \in opened
        /\ last[serving[t]] \in Nat /\ published \in Nat
        /\ last[serving[t]] <= published
    BY DEF Inv, TypeOK, ServingOpened, Cursors
  <2>2. nextEvent(cur_id[serving[t]]) # {} => last[serving[t]] < published
    BY <2>1, NextEventIs DEF Inv
  <2> QED
    BY <2>2 DEF Inv, Sleepers, SomethingToTell, Unread, BroadcastDue
<1> QED
  BY <1>1, <1>2, <1>3, PTL DEF Spec

(***************************************************************************)
(* The registry of blocked threads is exact, and so is the reference       *)
(* count: the file outlives its directory entry exactly as long as         *)
(* somebody has it open.                                                   *)
(***************************************************************************)
THEOREM BookkeepingCorrect ==
    ASSUME NoWrap, IsFiniteSet(Handles)
    PROVE  Spec => [](BlockedIsRegistered /\ RefcountExact)
<1>1. Init => Inv
  BY InvInit
<1>2. Inv /\ [Next]_vars => Inv'
  BY InvNext
<1>3. Inv => BlockedIsRegistered /\ RefcountExact
  BY DEF Inv
<1> QED
  BY <1>1, <1>2, <1>3, PTL DEF Spec

(***************************************************************************)
(* A reader never receives an event that is not younger than the one it    *)
(* received before.                                                        *)
(***************************************************************************)
THEOREM OrderCorrect ==
    ASSUME NoWrap, IsFiniteSet(Handles)
    PROVE  Spec => InOrder
<1>1. Init => Inv
  BY InvInit
<1>2. Inv /\ [Next]_vars => Inv'
  BY InvNext
<1>3. Inv => \A t \in Threads : deliverEvent(t) => last'[serving[t]] > last[serving[t]]
  <2> SUFFICES ASSUME Inv, NEW t \in Threads, deliverEvent(t)
               PROVE  last'[serving[t]] > last[serving[t]]
    OBVIOUS
  <2>1. Entered(t)
    BY DEF deliverEvent
  <2>2. /\ last' = [last EXCEPT ![serving[t]] = Due(serving[t])]
        /\ serving[t] \in Handles /\ last[serving[t]] \in Nat
        /\ published \in Nat /\ MaxBacklog \in Nat
    BY <2>1, ReaderFinds, EventFileAssumption DEF Inv, TypeOK
  <2>3. last'[serving[t]] = Due(serving[t])
    BY <2>2 DEF Inv, TypeOK
  <2> QED
    BY <2>2, <2>3 DEF Due
<1> QED
  BY <1>1, <1>2, <1>3, PTL DEF Spec, InOrder

(***************************************************************************)
(* The file is not marked while a reader keeps the directory's mutex.      *)
(***************************************************************************)
RegisteringAlive == \A t \in Threads : pc[t] = "register" => ~m_deleted

LEMMA RegisteringCorrect == Spec => []RegisteringAlive
<1>1. Init => RegisteringAlive
  BY DEF Init, RegisteringAlive
<1>2. TypeOK /\ RegisteringAlive /\ [Next]_vars => RegisteringAlive'
  <2> SUFFICES ASSUME TypeOK, RegisteringAlive, [Next]_vars,
                      NEW t \in Threads, pc'[t] = "register"
               PROVE  ~m_deleted'
    BY DEF RegisteringAlive
  <2> USE DEF TypeOK, RegisteringAlive, file, thread
  <2>1. CASE addEvent \/ addDestroyedEvent
    BY <2>1 DEF addEvent, addDestroyedEvent
  <2>2. CASE markDeleted
    BY <2>2 DEF markDeleted, DirectoryFree
  <2>3. CASE broadcast \/ readAbortPipe \/ aborting
    BY <2>3 DEF broadcast, WakeAll, readAbortPipe, aborting, recordAbort, finishAbort
  <2>4. ASSUME NEW h \in Handles, createOpenContext(h) \/ destroyOpenContext(h)
        PROVE  ~m_deleted'
    BY <2>4 DEF createOpenContext, destroyOpenContext
  <2>5. ASSUME NEW u \in Threads, NEW h \in Handles, read(u, h)
        PROVE  ~m_deleted'
    BY <2>5 DEF read
  <2>6. ASSUME NEW u \in Threads, readEvent(u)
        PROVE  ~m_deleted'
    <3>1. CASE relock(u) \/ prepareBlockingCall(u)
      BY <3>1 DEF relock, prepareBlockingCall, refuseBlocking, wait, LeaveWith
    <3>2. CASE LoopTurn(u)
      BY <3>2 DEF LoopTurn, deliverEvent, signalEOF, wouldBlock, wasAborted, nothingToRead,
                  MayBlock, NothingNew, Entered, LeaveWith
    <3> QED
      BY <2>6, <3>1, <3>2 DEF readEvent, LoopTurn
  <2>7. ASSUME NEW u \in Threads, spuriousWakeup(u) \/ replyRead(u) \/ signalThread(u)
        PROVE  ~m_deleted'
    BY <2>7 DEF spuriousWakeup, replyRead, signalThread
  <2>8. CASE UNCHANGED vars
    BY <2>8 DEF vars
  <2> QED
    BY <2>1, <2>2, <2>3, <2>4, <2>5, <2>6, <2>7, <2>8 DEF Next, Publisher
<1> QED
  BY <1>1, <1>2, TypeCorrect, PTL DEF Spec

(***************************************************************************)
(* Once the window is gone no read ends with an error, whatever aborts are *)
(* pending and whether ids wrap or not.                                    *)
(***************************************************************************)
THEOREM ReadsGoToTheEnd == Spec => ReadToTheEnd
<1>1. TypeOK /\ RegisteringAlive /\ [Next]_vars =>
        \A t \in Threads : m_deleted /\ pc[t] # "leave" /\ pc'[t] = "leave"
                               => res'[t] \in {"event", "EOF"}
  <2> SUFFICES ASSUME TypeOK, RegisteringAlive, [Next]_vars, NEW t \in Threads,
                      m_deleted, pc[t] # "leave", pc'[t] = "leave"
               PROVE  res'[t] \in {"event", "EOF"}
    OBVIOUS
  <2> USE DEF TypeOK
  <2>1. CASE addEvent \/ addDestroyedEvent \/ markDeleted
    BY <2>1 DEF addEvent, addDestroyedEvent, markDeleted, thread
  <2>2. CASE broadcast \/ readAbortPipe \/ aborting
    BY <2>2 DEF broadcast, readAbortPipe, aborting, recordAbort, finishAbort, WakeAll, thread
  <2>3. ASSUME NEW u \in Threads, readEvent(u)
        PROVE  res'[t] \in {"event", "EOF"}
    <3>1. CASE relock(u) \/ nothingToRead(u)
      BY <3>1 DEF relock, nothingToRead
    <3>2. CASE prepareBlockingCall(u)
      BY <3>2 DEF prepareBlockingCall, refuseBlocking, wait, LeaveWith, RegisteringAlive
    <3>3. CASE deliverEvent(u) \/ signalEOF(u) \/ wouldBlock(u) \/ wasAborted(u)
      BY <3>3 DEF deliverEvent, signalEOF, wouldBlock, wasAborted, MayBlock, LeaveWith, Answer
    <3> QED
      BY <2>3, <3>1, <3>2, <3>3 DEF readEvent
  <2>4. ASSUME NEW h \in Handles, createOpenContext(h) \/ destroyOpenContext(h)
        PROVE  res'[t] \in {"event", "EOF"}
    BY <2>4 DEF createOpenContext, destroyOpenContext, thread
  <2>5. ASSUME NEW u \in Threads, NEW h \in Handles, read(u, h)
        PROVE  res'[t] \in {"event", "EOF"}
    BY <2>5 DEF read, isOperationAllowed
  <2>6. ASSUME NEW u \in Threads, spuriousWakeup(u) \/ replyRead(u) \/ signalThread(u)
        PROVE  res'[t] \in {"event", "EOF"}
    BY <2>6 DEF spuriousWakeup, replyRead, signalThread, thread
  <2>7. CASE UNCHANGED vars
    BY <2>7 DEF vars, thread
  <2> QED
    BY <2>1, <2>2, <2>3, <2>4, <2>5, <2>6, <2>7 DEF Next, Publisher
<1> QED
  BY <1>1, TypeCorrect, RegisteringCorrect, PTL DEF Spec, ReadToTheEnd

-----------------------------------------------------------------------------
(* The file implements the stream.                                         *)

(***************************************************************************)
(* A step of the file is a step of the stream or invisible in it.          *)
(***************************************************************************)
LEMMA StepSimulation ==
    ASSUME NoWrap, IsFiniteSet(Handles), Inv, [Next]_vars
    PROVE  [Stream!Next]_(Stream!vars)
<1> DEFINE mapped == <<published, m_deleted, opened, last, ended>>
<1>1. SUFFICES Stream!Next \/ UNCHANGED mapped
  BY DEF Stream!vars
<1>2. CASE addEvent \/ addDestroyedEvent
  BY <1>2 DEF addEvent, addDestroyedEvent, pushEvent, context, Stream!Next, Stream!Publish
<1>3. CASE markDeleted
  <2>1. ~m_deleted
    BY <1>3 DEF Inv, PublishedBounded, markDeleted
  <2> QED
    BY <1>3, <2>1 DEF markDeleted, context, Stream!Next, Stream!Close
<1>4. CASE broadcast \/ readAbortPipe \/ aborting
  BY <1>4 DEF broadcast, readAbortPipe, aborting, recordAbort, finishAbort, file, context
<1>5. ASSUME NEW h \in Handles, createOpenContext(h)
      PROVE  Stream!Next
  BY <1>5 DEF createOpenContext, Stream!Next, Stream!Follow
<1>6. ASSUME NEW h \in Handles, destroyOpenContext(h)
      PROVE  Stream!Next
  BY <1>6 DEF destroyOpenContext, Stream!Next, Stream!Leave
<1>7. ASSUME NEW t \in Threads, readEvent(t)
      PROVE  Stream!Next \/ UNCHANGED mapped
  <2> DEFINE h == serving[t]
  <2>1. CASE relock(t) \/ prepareBlockingCall(t)
    BY <2>1 DEF relock, prepareBlockingCall, file, context
  <2>2. CASE wouldBlock(t) \/ wasAborted(t) \/ nothingToRead(t)
    BY <2>2 DEF wouldBlock, wasAborted, nothingToRead, MayBlock, NothingNew, Entered, file
  <2>3. CASE deliverEvent(t)
    <3>1. /\ h \in opened /\ h \in Handles
          /\ last[h] < published
          /\ last' = [last EXCEPT ![h] = Due(h)]
      BY <2>3, ReaderFinds DEF deliverEvent
    <3>2. Due(h) = Stream!Larger(last[h], published - MaxBacklog) + 1
      BY DEF Due, Stream!Larger
    <3>3. Stream!Deliver(h)
      BY <2>3, <3>1, <3>2 DEF Stream!Deliver, deliverEvent, Entered, file
    <3> QED
      BY <3>1, <3>3 DEF Stream!Next
  <2>4. CASE signalEOF(t)
    <3>1. last[h] = published /\ h \in opened /\ h \in Handles
      BY <2>4, ReaderFinds DEF signalEOF, NothingNew
    <3>2. Stream!EndOfStream(h)
      BY <2>4, <3>1 DEF Stream!EndOfStream, signalEOF, NothingNew, Entered, file
    <3> QED
      BY <3>1, <3>2 DEF Stream!Next
  <2> QED
    BY <1>7, <2>1, <2>2, <2>3, <2>4 DEF readEvent
<1>8. ASSUME NEW t \in Threads, NEW h \in Handles, read(t, h)
      PROVE  UNCHANGED mapped
  BY <1>8 DEF read, file, context
<1>9. ASSUME NEW t \in Threads, spuriousWakeup(t) \/ replyRead(t) \/ signalThread(t)
      PROVE  UNCHANGED mapped
  BY <1>9 DEF spuriousWakeup, replyRead, signalThread, file, context
<1>10. CASE UNCHANGED vars
  BY <1>10 DEF vars, file, context
<1> QED
  BY <1>2, <1>3, <1>4, <1>5, <1>6, <1>7, <1>8, <1>9, <1>10 DEF Next, Publisher

(***************************************************************************)
(* Every behaviour of the event file is one of EventStream: what readers   *)
(* see is the published sequence from their open on, in order, with gaps   *)
(* only for want of backlog, ended by the last event.                      *)
(***************************************************************************)
THEOREM FileImplementsStream ==
    ASSUME NoWrap, IsFiniteSet(Handles)
    PROVE  Spec => ImplementsStream
<1>1. Init => Inv
  BY InvInit
<1>2. Inv /\ [Next]_vars => Inv'
  BY InvNext
<1>3. Init => Stream!Init
  BY DEF Init, Stream!Init
<1>4. Inv /\ [Next]_vars => [Stream!Next]_(Stream!vars)
  BY StepSimulation
<1> QED
  BY <1>1, <1>2, <1>3, <1>4, PTL DEF Spec, ImplementsStream, Stream!Spec
=============================================================================
