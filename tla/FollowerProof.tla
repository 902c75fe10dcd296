---------------------------- MODULE FollowerProof ----------------------------
(***************************************************************************)
(* A program that follows the events of a window knows its files, for any  *)
(* number of threads, handles and events and any backlog: on top of what   *)
(* EventFileProof says of the events file.                                 *)
(***************************************************************************)
EXTENDS Follower, EventFileProof

-----------------------------------------------------------------------------
(* The inductive invariant.                                                *)

FollowerTypes ==
    /\ content \in Nat
    /\ due \in BOOLEAN
    /\ known \in [Handles -> Nat \cup {Unknown}]

(***************************************************************************)
(* There is an event that the program with handle h has not got: in the    *)
(* queue, or on its way with a read that returns.                          *)
(***************************************************************************)
Behind(h) ==
    \/ last[h] # published
    \/ \E t \in Threads : serving[t] = h /\ pc[t] = "leave" /\ res[t] = "event"

(***************************************************************************)
(* What a program takes for the content of the file is the content, or     *)
(* there is an event to correct it.  While a change is announced and not   *)
(* made there is such an event for everybody.                              *)
(***************************************************************************)
Corrected ==
    \A h \in opened : \/ known[h] \in {Unknown, 0}
                      \/ known[h] = content /\ ~due
                      \/ Behind(h)

FollowerInv == Inv /\ FollowerTypes /\ Corrected

-----------------------------------------------------------------------------
(***************************************************************************)
(* The events file does not notice the file it reports on.                 *)
(***************************************************************************)
LEMMA FileStep ==
    ASSUME [FollowerNext]_allvars
    PROVE  [Next]_vars
<1>1. CASE update \/ newParent
  BY <1>1 DEF update, newParent, Next, Publisher
<1>2. CASE addSpecEntry \/ updateParent
  BY <1>2 DEF addSpecEntry, updateParent
<1>3. ASSUME NEW h \in Handles, openEvents(h) \/ closeEvents(h) \/ readFile(h)
      PROVE  [Next]_vars
  BY <1>3 DEF openEvents, closeEvents, readFile, Next
<1>4. ASSUME NEW t \in Threads, returnEvent(t) PROVE [Next]_vars
  BY <1>4 DEF returnEvent, Next
<1>5. CASE withLock
  BY <1>5 DEF withLock, Next, Publisher
<1>6. CASE withoutLock
  BY <1>6 DEF withoutLock, Next, Publisher
<1>7. CASE UNCHANGED allvars
  BY <1>7 DEF allvars
<1> QED
  BY <1>1, <1>2, <1>3, <1>4, <1>5, <1>6, <1>7 DEF FollowerNext

(***************************************************************************)
(* A handle stays behind until its read returns to the program.            *)
(***************************************************************************)
LEMMA StaysBehind ==
    ASSUME Inv, NEW h \in opened, Behind(h),
           last'[h] = last[h], published' = published,
           \A t \in Threads : pc[t] = "leave" =>
               pc'[t] = "leave" /\ serving'[t] = serving[t] /\ res'[t] = res[t]
    PROVE  Behind(h)'
BY DEF Behind

(***************************************************************************)
(* A new event leaves all programs behind.                                 *)
(***************************************************************************)
LEMMA EventLeavesBehind ==
    ASSUME Inv, published' = published + 1, UNCHANGED context, NEW h \in opened
    PROVE  Behind(h)'
<1>1. last[h] \in Nat /\ published \in Nat /\ last[h] <= published
  BY DEF Inv, TypeOK, Cursors
<1>2. last'[h] # published'
  BY <1>1 DEF context
<1> QED
  BY <1>2 DEF Behind

(***************************************************************************)
(* Steps of the events file alone.                                         *)
(***************************************************************************)
LEMMA FileAlone ==
    ASSUME NoWrap, FollowerInv, UNCHANGED follower, withLock \/ withoutLock
    PROVE  Corrected'
<1>0. Inv /\ FollowerTypes /\ Corrected /\ TypeOK
  BY DEF FollowerInv, Inv
<1>1. content' = content /\ due' = due /\ known' = known
  BY DEF follower
<1>2. SUFFICES ASSUME NEW h \in opened'
               PROVE  h \in opened /\ (Behind(h) => Behind(h)')
  BY <1>0, <1>1 DEF Corrected
<1>3. CASE addDestroyedEvent
  <2>1. UNCHANGED context /\ published' = published + 1
    BY <1>3 DEF addDestroyedEvent, pushEvent
  <2>2. h \in opened
    BY <2>1 DEF context
  <2> QED
    BY <1>0, <2>1, <2>2, EventLeavesBehind
<1>4. CASE readAbortPipe \/ broadcast \/ aborting
  <2>1. UNCHANGED <<file, context, serving, res>>
    BY <1>4 DEF readAbortPipe, broadcast, aborting, recordAbort, finishAbort, thread
  <2>2. \A t \in Threads : pc[t] = "leave" => pc'[t] = "leave"
    BY <1>0, <1>4 DEF readAbortPipe, broadcast, WakeAll, aborting, recordAbort, finishAbort,
                      thread
  <2>3. h \in opened /\ last' = last /\ published' = published
    BY <2>1 DEF context, file
  <2> QED
    BY <1>0, <2>1, <2>2, <2>3, StaysBehind
<1>5. CASE markDeleted \/ \E t \in Threads : signalThread(t)
  <2>1. UNCHANGED <<published, context, thread>>
    BY <1>5 DEF markDeleted, signalThread, file
  <2>2. h \in opened /\ last' = last /\ published' = published
    BY <2>1 DEF context
  <2> QED
    BY <1>0, <2>1, <2>2, StaysBehind DEF thread
<1>6. ASSUME NEW t \in Threads, NEW k \in Handles, read(t, k)
      PROVE  h \in opened /\ (Behind(h) => Behind(h)')
  <2>1. UNCHANGED <<file, context>> /\ pc[t] = "idle"
    BY <1>6 DEF read
  <2>2. \A u \in Threads : u # t =>
           pc'[u] = pc[u] /\ serving'[u] = serving[u] /\ res'[u] = res[u]
    BY <1>0, <1>6 DEF TypeOK, read
  <2>3. h \in opened /\ last' = last /\ published' = published
    BY <2>1 DEF context, file
  <2> QED
    BY <1>0, <2>1, <2>2, <2>3, StaysBehind
<1>7. ASSUME NEW t \in Threads, spuriousWakeup(t)
      PROVE  h \in opened /\ (Behind(h) => Behind(h)')
  <2>1. UNCHANGED <<file, context, serving, res>> /\ pc[t] = "wait"
    BY <1>7 DEF spuriousWakeup
  <2>2. \A u \in Threads : u # t => pc'[u] = pc[u]
    BY <1>0, <1>7 DEF TypeOK, spuriousWakeup
  <2>3. h \in opened /\ last' = last /\ published' = published
    BY <2>1 DEF context, file
  <2> QED
    BY <1>0, <2>1, <2>2, <2>3, StaysBehind
<1>8. ASSUME NEW t \in Threads, readEvent(t)
      PROVE  h \in opened /\ (Behind(h) => Behind(h)')
  <2>1. UNCHANGED <<published, opened, serving>>
    <3>1. CASE relock(t) \/ prepareBlockingCall(t)
      BY <3>1 DEF relock, prepareBlockingCall, file, context
    <3>2. CASE LoopTurn(t)
      BY <1>0, <3>2, LoopTurnDoes DEF file
    <3> QED
      BY <1>8, <3>1, <3>2 DEF readEvent, LoopTurn
  <2>2. pc[t] # "leave"
    <3>1. CASE relock(t) \/ prepareBlockingCall(t)
      BY <3>1 DEF relock, prepareBlockingCall
    <3>2. CASE LoopTurn(t)
      BY <1>0, <3>2, LoopTurnDoes
    <3> QED
      BY <1>8, <3>1, <3>2 DEF readEvent, LoopTurn
  <2>3. \A u \in Threads : u # t => pc'[u] = pc[u] /\ res'[u] = res[u]
    BY <1>0, <1>8 DEF TypeOK, readEvent, relock, deliverEvent, signalEOF, wouldBlock, wasAborted,
                      nothingToRead, prepareBlockingCall, refuseBlocking, wait, LeaveWith
  <2>4. CASE deliverEvent(t) /\ serving[t] = h
    <3>1. pc'[t] = "leave" /\ res'[t] = "event"
      BY <1>0, <2>4 DEF TypeOK, deliverEvent, LeaveWith, Answer
    <3> QED
      BY <2>1, <2>4, <3>1 DEF Behind
  <2>5. CASE ~(deliverEvent(t) /\ serving[t] = h)
    <3>1. last'[h] = last[h]
      <4>1. CASE deliverEvent(t)
        <5>1. last' = [last EXCEPT ![serving[t]] = Due(serving[t])]
          BY <1>0, <1>8, <4>1, ReaderFinds DEF deliverEvent
        <5> QED
          BY <1>0, <2>1, <2>5, <4>1, <5>1 DEF TypeOK
      <4>2. CASE ~deliverEvent(t)
        BY <1>8, <4>2 DEF readEvent, relock, signalEOF, wouldBlock, wasAborted, nothingToRead,
                          prepareBlockingCall, context
      <4> QED
        BY <4>1, <4>2
    <3> QED
      BY <1>0, <2>1, <2>2, <2>3, <3>1, StaysBehind
  <2> QED
    BY <2>4, <2>5
<1> QED
  BY <1>3, <1>4, <1>5, <1>6, <1>7, <1>8 DEF withLock, withoutLock

(***************************************************************************)
(* A change of the file, or its first half, comes with an event.           *)
(***************************************************************************)
LEMMA AnnouncedChange ==
    ASSUME FollowerInv, update \/ newParent
    PROVE  FollowerTypes' /\ Corrected'
<1>1. published' = published + 1 /\ UNCHANGED context /\ known' = known
  BY DEF update, newParent, addEvent, pushEvent
<1>2. content' \in Nat /\ due' \in BOOLEAN
  <2>1. content' \in Nat
    BY DEF FollowerInv, FollowerTypes, update, newParent
  <2>2. due' = due \/ due' = TRUE
    BY Zenon DEF update, newParent
  <2> QED
    BY <2>1, <2>2 DEF FollowerInv, FollowerTypes
<1>3. \A h \in opened' : Behind(h)'
  BY <1>1, EventLeavesBehind DEF FollowerInv, context
<1> QED
  BY <1>1, <1>2, <1>3 DEF FollowerInv, FollowerTypes, Corrected

(***************************************************************************)
(* The other half, and a file that is made, come without.                  *)
(***************************************************************************)
LEMMA SilentChange ==
    ASSUME FollowerInv, addSpecEntry \/ updateParent
    PROVE  FollowerTypes' /\ Corrected'
<1>1. /\ UNCHANGED <<opened, last, published, serving, pc, res, known>>
      /\ due \/ content = 0
  BY DEF addSpecEntry, updateParent, vars, context, file, thread
<1>2. content' \in Nat /\ due' \in BOOLEAN
  <2>1. content' \in Nat
    BY DEF FollowerInv, FollowerTypes, addSpecEntry, updateParent
  <2>2. due' = due \/ due' = FALSE
    BY Zenon DEF addSpecEntry, updateParent
  <2> QED
    BY <2>1, <2>2 DEF FollowerInv, FollowerTypes
<1>3. \A h \in opened : known[h] \in {Unknown, 0} \/ Behind(h)
  BY <1>1 DEF FollowerInv, Corrected
<1>4. \A h \in opened : Behind(h) => Behind(h)'
  BY <1>1 DEF Behind
<1> QED
  BY <1>1, <1>2, <1>3, <1>4 DEF FollowerInv, FollowerTypes, Corrected

(***************************************************************************)
(* The program opens or closes the events, or reads the file.              *)
(***************************************************************************)
LEMMA ProgramStep ==
    ASSUME FollowerInv, NEW h \in Handles, openEvents(h) \/ closeEvents(h) \/ readFile(h)
    PROVE  FollowerTypes' /\ Corrected'
<1>1. /\ UNCHANGED <<content, due, published, serving, pc, res>>
      /\ opened' \subseteq opened \cup {h}
      /\ \A k \in Handles : k # h => last'[k] = last[k]
  BY DEF FollowerInv, Inv, TypeOK, openEvents, closeEvents, readFile, createOpenContext,
         destroyOpenContext, vars, file, thread, context
<1>2. /\ known' \in [Handles -> Nat \cup {Unknown}]
      /\ \A k \in Handles : k # h => known'[k] = known[k]
      /\ known'[h] = Unknown \/ (known'[h] = content /\ ~due)
  BY DEF FollowerInv, FollowerTypes, openEvents, closeEvents, readFile, Unlocked
<1>3. ASSUME NEW k \in opened', k # h
      PROVE  known'[k] \in {Unknown, 0} \/ (known'[k] = content' /\ ~due') \/ Behind(k)'
  <2>1. k \in opened /\ k \in Handles
    BY <1>1, <1>3 DEF FollowerInv, Inv, TypeOK
  <2>2. Behind(k) => Behind(k)'
    BY <1>1, <1>3, <2>1 DEF Behind
  <2> QED
    BY <1>1, <1>2, <1>3, <2>1, <2>2 DEF FollowerInv, Corrected
<1>4. Corrected'
  BY <1>1, <1>2, <1>3 DEF Corrected
<1> QED
  BY <1>1, <1>2, <1>4 DEF FollowerInv, FollowerTypes

(***************************************************************************)
(* An event that arrives makes the program forget what it has read.        *)
(***************************************************************************)
LEMMA ReturnStep ==
    ASSUME FollowerInv, NEW t \in Threads, returnEvent(t)
    PROVE  FollowerTypes' /\ Corrected'
<1>1. /\ UNCHANGED <<content, due, published, last, opened, serving>>
      /\ \A u \in Threads : u # t => pc'[u] = pc[u] /\ res'[u] = res[u]
      /\ known' = IF res[t] = "event" THEN [known EXCEPT ![serving[t]] = Unknown] ELSE known
  BY DEF FollowerInv, Inv, TypeOK, returnEvent, replyRead, file, context
<1>2. /\ known' \in [Handles -> Nat \cup {Unknown}]
      /\ \A h \in Handles : known'[h] = IF res[t] = "event" /\ serving[t] = h THEN Unknown
                                                                             ELSE known[h]
  BY <1>1 DEF FollowerInv, Inv, TypeOK, FollowerTypes
<1>3. ASSUME NEW h \in opened, ~(res[t] = "event" /\ serving[t] = h), Behind(h)
      PROVE  Behind(h)'
  BY <1>1, <1>3 DEF Behind
<1>4. Corrected'
  <2>1. opened \subseteq Handles
    BY DEF FollowerInv, Inv, TypeOK
  <2> QED
    BY <1>1, <1>2, <1>3, <2>1 DEF FollowerInv, Corrected
<1> QED
  BY <1>1, <1>2, <1>4 DEF FollowerInv, FollowerTypes

(***************************************************************************)
(* At the start nobody has read anything.                                  *)
(***************************************************************************)
LEMMA FollowerInvInit == FollowerInit => FollowerInv
<1> SUFFICES ASSUME FollowerInit PROVE FollowerInv
  OBVIOUS
<1>1. Inv
  BY InvInit DEF FollowerInit
<1>2. FollowerTypes
  <2>1. content \in Nat /\ known \in [Handles -> Nat \cup {Unknown}]
    BY DEF FollowerInit
  <2>2. due \in BOOLEAN
    BY Zenon DEF FollowerInit
  <2> QED
    BY <2>1, <2>2 DEF FollowerTypes
<1>3. Corrected
  BY DEF FollowerInit, Init, Corrected
<1> QED
  BY <1>1, <1>2, <1>3 DEF FollowerInv

(***************************************************************************)
(* Every step keeps the invariant.                                         *)
(***************************************************************************)
LEMMA FollowerInvNext ==
    ASSUME NoWrap, IsFiniteSet(Handles), FollowerInv, [FollowerNext]_allvars
    PROVE  FollowerInv'
<1>1. Inv'
  BY FileStep, InvNext DEF FollowerInv
<1>2. FollowerTypes' /\ Corrected'
  <2>1. CASE update \/ newParent
    BY <2>1, AnnouncedChange
  <2>2. CASE addSpecEntry \/ updateParent
    BY <2>2, SilentChange
  <2>3. ASSUME NEW h \in Handles, openEvents(h) \/ closeEvents(h) \/ readFile(h)
        PROVE  FollowerTypes' /\ Corrected'
    BY <2>3, ProgramStep
  <2>4. ASSUME NEW t \in Threads, returnEvent(t)
        PROVE  FollowerTypes' /\ Corrected'
    BY <2>4, ReturnStep
  <2>5. CASE withLock \/ withoutLock
    <3>1. UNCHANGED follower
      BY <2>5 DEF withLock, withoutLock
    <3>2. Corrected'
      BY <2>5, <3>1, FileAlone
    <3>3. FollowerTypes'
      BY <3>1 DEF FollowerInv, FollowerTypes, follower
    <3> QED
      BY <3>2, <3>3
  <2>6. CASE UNCHANGED allvars
    <3>1. UNCHANGED <<content, due, known, opened, last, published, serving, pc, res>>
      BY <2>6 DEF allvars, vars, follower, file, context, thread
    <3> QED
      BY <3>1 DEF FollowerInv, FollowerTypes, Corrected, Behind
  <2> QED
    BY <2>1, <2>2, <2>3, <2>4, <2>5, <2>6 DEF FollowerNext
<1> QED
  BY <1>1, <1>2 DEF FollowerInv

(***************************************************************************)
(* WindowDirEntry::update, newParent and the events file together: who     *)
(* reads the file after each event and finds no more events knows what the *)
(* file shows, whatever was dropped from the queue and in whichever order  *)
(* event and change came.                                                  *)
(***************************************************************************)
THEOREM FollowerCorrect ==
    ASSUME NoWrap, IsFiniteSet(Handles)
    PROVE  FollowerSpec => []FollowerKnows
<1>1. FollowerInit => FollowerInv
  BY FollowerInvInit
<1>2. FollowerInv /\ [FollowerNext]_allvars => FollowerInv'
  BY FollowerInvNext
<1>3. FollowerInv => FollowerKnows
  <2> SUFFICES ASSUME FollowerInv, NEW h \in opened, Unlocked, known[h] # Unknown,
                      last[h] = published,
                      \A t \in Threads : serving[t] = h => pc[t] # "leave"
               PROVE  UpToDate(h)
    BY DEF FollowerKnows
  <2>1. ~Behind(h)
    BY DEF Behind
  <2> QED
    BY <2>1 DEF FollowerInv, Corrected, UpToDate
<1> QED
  BY <1>1, <1>2, <1>3, PTL DEF FollowerSpec

(***************************************************************************)
(* The composition implements the events file: changing the files that the *)
(* events report on, reading them and the file system's lock only restrict *)
(* when the event thread publishes (WindowDirEntry::update and newParent)  *)
(* and the programs read, so all that is proved of EventFile holds here.   *)
(***************************************************************************)
THEOREM FollowerUsesFile == FollowerSpec => Spec
<1>1. FollowerInit => Init
  BY DEF FollowerInit
<1>2. [FollowerNext]_allvars => [Next]_vars
  BY FileStep
<1> QED
  BY <1>1, <1>2, PTL DEF FollowerSpec, Spec

(***************************************************************************)
(* In particular the programs that follow the events see the promised      *)
(* stream, and in order (readEvent, nextEvent).                            *)
(***************************************************************************)
THEOREM FollowerSeesStream ==
    ASSUME NoWrap, IsFiniteSet(Handles)
    PROVE  FollowerSpec => ImplementsStream /\ InOrder
<1>1. Spec => ImplementsStream
  BY FileImplementsStream
<1>2. Spec => InOrder
  BY OrderCorrect
<1> QED
  BY <1>1, <1>2, FollowerUsesFile, PTL
=============================================================================
