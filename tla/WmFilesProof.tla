---------------------------- MODULE WmFilesProof ----------------------------
(***************************************************************************)
(* Theorems about WmFiles for any number of workers, calls and events and  *)
(* any values of the window manager's properties.                          *)
(***************************************************************************)
EXTENDS WmFiles, SequenceTheorems, NaturalsInduction, WellFoundedInduction, TLAPS

-----------------------------------------------------------------------------
(* The inductive invariant.                                                *)

(***************************************************************************)
(* A write that has passed its first tests has an argument to send.        *)
(***************************************************************************)
Calls ==
    /\ DOMAIN call = Threads
    /\ \A t \in Threads :
          pc[t] = "write" /\ call[t].file \notin WindowFiles =>
              call[t].file \in Files /\ call[t].text[1] \in Values \cup {-1}

(***************************************************************************)
(* Who owns which mutex.                                                   *)
(***************************************************************************)
LockHolders ==
    /\ \A t \in Threads : /\ event_lock = t <=> pc[t] = "lines"
                          /\ dir_lock = t <=> pc[t] = "own events"
    /\ event_lock = "event thread" <=> ev = "drain"

(***************************************************************************)
(* What is written of `owners`: all of it, or what its one writer has got  *)
(* to.                                                                     *)
(***************************************************************************)
LinesWritten(n) == IF n = 1 THEN <<>> ELSE <<"PRIMARY">>

OwnersWritten ==
    /\ \A t \in Threads : pc[t] = "lines" =>
          call[t] \in {1, 2} /\ owners = LinesWritten(call[t])
    /\ OwnersWhole

(***************************************************************************)
(* A file that does not show its property is about to be updated: the      *)
(* event is on the connection, in libX11's queue or being handled.         *)
(***************************************************************************)
In(f, q) == \E i \in DOMAIN q : q[i] = f

Queued(f) == In(f, wire) \/ In(f, x_queue)

Pending(f) == Queued(f) \/ (ev = "handle" /\ event = f)

ChangePending ==
    phase \in {"filled", "running"} =>
        \A f \in Files \cap Written :
            x_prop[f] = None \/ file[f] = x_prop[f] \/ Pending(f)

Inv == /\ TypeOK
       /\ Calls
       /\ LockHolders
       /\ OwnersWritten
       /\ ChangePending

-----------------------------------------------------------------------------
(***************************************************************************)
(* Workers, the event thread and nobody are different owners.              *)
(***************************************************************************)
LEMMA OwnersDiffer ==
    /\ \A t \in Threads : t # None /\ t # "event thread"
    /\ None # "event thread"
    /\ None \notin Values
BY WmFilesAssumption

(***************************************************************************)
(* The bound on the calls is a number.                                     *)
(***************************************************************************)
LEMMA CallsBounded == MaxCalls \in Nat
BY WmFilesAssumption

(***************************************************************************)
(* The files that are written to are not files of a window.                *)
(***************************************************************************)
LEMMA FilesDiffer == /\ \A f \in Files : f \notin WindowFiles
                     /\ Files \subseteq Events /\ "other" \in Events
<1>1. Files \subseteq Written \cup Kept
  BY WmFilesAssumption
<1>2. \A f \in Written \cup Kept : f \notin WindowFiles
  BY DEF Written, Kept, WindowFiles
<1> QED
  BY <1>1, <1>2 DEF Events

(***************************************************************************)
(* What is in one of two queues is in both put together.                   *)
(***************************************************************************)
LEMMA InConcat ==
    ASSUME NEW S, NEW q \in Seq(S), NEW r \in Seq(S), NEW f
    PROVE  q \o r \in Seq(S) /\ (In(f, q) \/ In(f, r) => In(f, q \o r))
<1>1. /\ q \o r \in Seq(S) /\ Len(q) \in Nat /\ Len(r) \in Nat
      /\ DOMAIN q = 1 .. Len(q) /\ DOMAIN r = 1 .. Len(r)
      /\ DOMAIN (q \o r) = 1 .. Len(q) + Len(r)
  OBVIOUS
<1>2. /\ \A i \in 1 .. Len(q) : (q \o r)[i] = q[i]
      /\ \A i \in 1 .. Len(r) : (q \o r)[Len(q) + i] = r[i]
  OBVIOUS
<1>3. ASSUME NEW i \in 1 .. Len(q), q[i] = f
      PROVE  In(f, q \o r)
  <2>1. i \in DOMAIN (q \o r) /\ (q \o r)[i] = f
    BY <1>1, <1>2, <1>3
  <2> QED
    BY <2>1 DEF In
<1>4. ASSUME NEW i \in 1 .. Len(r), r[i] = f
      PROVE  In(f, q \o r)
  <2>1. Len(q) + i \in DOMAIN (q \o r) /\ (q \o r)[Len(q) + i] = f
    BY <1>1, <1>2, <1>4
  <2> QED
    BY <2>1 DEF In
<1> QED
  BY <1>1, <1>3, <1>4 DEF In

(***************************************************************************)
(* What is in a queue stays when something is put behind, which is in it   *)
(* then.                                                                   *)
(***************************************************************************)
LEMMA InAppend ==
    ASSUME NEW S, NEW q \in Seq(S), NEW e \in S, NEW f
    PROVE  Append(q, e) \in Seq(S) /\ (In(f, q) \/ f = e => In(f, Append(q, e)))
<1>1. /\ Append(q, e) \in Seq(S) /\ Len(q) \in Nat
      /\ DOMAIN q = 1 .. Len(q) /\ DOMAIN Append(q, e) = 1 .. Len(q) + 1
      /\ Append(q, e)[Len(q) + 1] = e
      /\ \A i \in 1 .. Len(q) : Append(q, e)[i] = q[i]
  OBVIOUS
<1>2. ASSUME NEW i \in 1 .. Len(q), q[i] = f
      PROVE  In(f, Append(q, e))
  <2>1. i \in DOMAIN Append(q, e) /\ Append(q, e)[i] = f
    BY <1>1, <1>2
  <2> QED
    BY <2>1 DEF In
<1>3. ASSUME f = e
      PROVE  In(f, Append(q, e))
  <2>1. Len(q) + 1 \in DOMAIN Append(q, e)
    BY <1>1
  <2> QED
    BY <1>1, <1>3, <2>1 DEF In
<1> QED
  BY <1>1, <1>2, <1>3 DEF In

(***************************************************************************)
(* What is in a queue is its first element or stays when that is taken     *)
(* away.                                                                   *)
(***************************************************************************)
LEMMA InTail ==
    ASSUME NEW S, NEW q \in Seq(S), q # <<>>, NEW f
    PROVE  Head(q) \in S /\ Tail(q) \in Seq(S) /\ (In(f, q) => f = Head(q) \/ In(f, Tail(q)))
<1>1. /\ Head(q) \in S /\ Tail(q) \in Seq(S) /\ Head(q) = q[1]
      /\ Len(q) \in Nat \ {0} /\ DOMAIN q = 1 .. Len(q) /\ DOMAIN Tail(q) = 1 .. Len(q) - 1
      /\ \A i \in 1 .. Len(q) - 1 : Tail(q)[i] = q[i + 1]
  OBVIOUS
<1>2. ASSUME NEW i \in 1 .. Len(q), q[i] = f, i # 1
      PROVE  In(f, Tail(q))
  <2>1. i - 1 \in DOMAIN Tail(q) /\ (i - 1) + 1 = i
    BY <1>1, <1>2
  <2>2. Tail(q)[i - 1] = f
    BY <1>1, <1>2, <2>1
  <2> QED
    BY <2>1, <2>2 DEF In
<1> QED
  BY <1>1, <1>2 DEF In

(***************************************************************************)
(* What Append makes of a sequence.                                        *)
(***************************************************************************)
LEMMA AppendOne ==
    ASSUME NEW S, NEW q \in Seq(S), NEW e \in S
    PROVE  /\ Append(q, e) \in Seq(S) /\ Len(Append(q, e)) = Len(q) + 1
           /\ Append(q, e)[Len(q) + 1] = e
           /\ \A i \in 1 .. Len(q) : Append(q, e)[i] = q[i]
OBVIOUS

(***************************************************************************)
(* A line put behind one other makes two.                                  *)
(***************************************************************************)
LEMMA AppendTwo ==
    ASSUME NEW S, NEW one \in Seq(S), NEW two \in Seq(S), NEW e \in S
    PROVE  Len(one) = 1 /\ Len(two) = 2 /\ two[1] = one[1] /\ two[2] = e =>
               Append(one, e) = two
<1>1. /\ Append(one, e) \in Seq(S) /\ Len(Append(one, e)) = Len(one) + 1
      /\ Append(one, e)[Len(one) + 1] = e
      /\ \A i \in 1 .. Len(one) : Append(one, e)[i] = one[i]
  BY AppendOne
<1> SUFFICES ASSUME Len(one) = 1, Len(two) = 2, two[1] = one[1], two[2] = e
             PROVE  Append(one, e) = two
  OBVIOUS
<1>2. 1 \in 1 .. Len(one) /\ Len(one) + 1 = 2
  OBVIOUS
<1>3. Len(Append(one, e)) = 2 /\ Append(one, e)[1] = one[1] /\ Append(one, e)[2] = e
  BY <1>1, <1>2
<1>4. \A i \in 1 .. Len(Append(one, e)) : Append(one, e)[i] = two[i]
  BY <1>3
<1> QED
  BY <1>1, <1>3, <1>4, SeqEqual

(***************************************************************************)
(* The last line makes the text of `owners` whole.                         *)
(***************************************************************************)
LEMMA TwoLines == Append(<<"PRIMARY">>, "CLIPBOARD") = <<"PRIMARY", "CLIPBOARD">>
<1> DEFINE S == {"PRIMARY", "CLIPBOARD"}
           one == <<"PRIMARY">>
           two == <<"PRIMARY", "CLIPBOARD">>
<1>1. one \in Seq(S) /\ Len(one) = 1 /\ one[1] = "PRIMARY"
  OBVIOUS
<1>2. two \in Seq(S) /\ Len(two) = 2 /\ two[1] = "PRIMARY" /\ two[2] = "CLIPBOARD"
  OBVIOUS
<1>3. "CLIPBOARD" \in S
  OBVIOUS
<1> HIDE DEF S, one, two
<1>4. Append(one, "CLIPBOARD") = two
  BY <1>1, <1>2, <1>3, AppendTwo
<1> QED
  BY <1>4 DEF one, two

(***************************************************************************)
(* The empty queue.                                                        *)
(***************************************************************************)
LEMMA InEmpty == \A f : ~In(f, <<>>)
BY DEF In

(***************************************************************************)
(* A reply or a new event loses none that is there.                        *)
(***************************************************************************)
LEMMA ConnectionKeeps ==
    ASSUME TypeOK, UNCHANGED events \/ RoundTrip \/ \E e \in Events : Notify(e)
    PROVE  /\ wire' \in Seq(Events) /\ x_queue' \in Seq(Events) /\ taken' \in BOOLEAN
           /\ \A f : Queued(f) => Queued(f)'
<1>0. wire \in Seq(Events) /\ x_queue \in Seq(Events) /\ taken \in BOOLEAN
  BY DEF TypeOK
<1>1. CASE UNCHANGED events
  BY <1>0, <1>1 DEF events, Queued
<1>2. CASE RoundTrip
  <2>1. x_queue' = x_queue \o wire /\ wire' = <<>>
    BY <1>2 DEF RoundTrip
  <2>2. taken' \in BOOLEAN
    BY <1>0, <1>2, Zenon DEF RoundTrip
  <2>3. \A f : Queued(f) => In(f, x_queue \o wire)
    BY <1>0, InConcat DEF Queued
  <2>4. x_queue \o wire \in Seq(Events)
    BY <1>0, InConcat
  <2> QED
    BY <2>1, <2>2, <2>3, <2>4 DEF Queued
<1>3. ASSUME NEW e \in Events, Notify(e)
      PROVE  /\ wire' \in Seq(Events) /\ x_queue' \in Seq(Events) /\ taken' \in BOOLEAN
             /\ \A f : Queued(f) => Queued(f)'
  <2>1. wire' \in {wire, Append(wire, e)} /\ x_queue' = x_queue /\ taken' = taken
    BY <1>3 DEF Notify
  <2>2. Append(wire, e) \in Seq(Events) /\ \A f : In(f, wire) => In(f, Append(wire, e))
    BY <1>0, InAppend
  <2> QED
    BY <1>0, <2>1, <2>2 DEF Queued
<1> QED
  BY <1>1, <1>2, <1>3

(***************************************************************************)
(* A subscribed xwmfs is told.                                             *)
(***************************************************************************)
LEMMA Told ==
    ASSUME TypeOK, NEW e \in Events, Notify(e), Subscribed
    PROVE  Queued(e)'
<1>1. wire' = Append(wire, e) /\ wire \in Seq(Events)
  BY DEF Notify, TypeOK
<1>2. In(e, Append(wire, e))
  BY <1>1, InAppend
<1> QED
  BY <1>1, <1>2 DEF Queued

(***************************************************************************)
(* Steps that leave the files and the properties alone.                    *)
(***************************************************************************)
LEMMA FilesKept ==
    ASSUME TypeOK, ChangePending, UNCHANGED <<x_prop, file, phase>>,
           \A f \in Files : Pending(f) => Pending(f)'
    PROVE  ChangePending'
BY DEF ChangePending

(***************************************************************************)
(* Steps in which no worker takes part.                                    *)
(***************************************************************************)
LEMMA WorkersKept ==
    ASSUME Calls, LockHolders, OwnersWritten, UNCHANGED <<workers, owners, dir_lock>>,
           \A t \in Threads : event_lock' = t <=> event_lock = t,
           event_lock' = "event thread" <=> ev' = "drain"
    PROVE  Calls' /\ LockHolders' /\ OwnersWritten'
<1>1. UNCHANGED <<pc, call, owners, dir_lock>>
  BY DEF workers
<1>2. Calls'
  BY <1>1 DEF Calls
<1>3. LockHolders'
  BY <1>1 DEF LockHolders
<1>4. OwnersWritten'
  BY <1>1 DEF OwnersWritten, OwnersWhole
<1> QED
  BY <1>2, <1>3, <1>4

-----------------------------------------------------------------------------
(* The steps of the server.                                                *)

(***************************************************************************)
(* A property changes, by itself or for a request.                         *)
(***************************************************************************)
LEMMA PropertyChanges ==
    ASSUME Inv, NEW f \in Files, NEW v \in Values \cup {None},
           x_prop' = [x_prop EXCEPT ![f] = v],
           Notify(IF v = None THEN "other" ELSE f),
           requests' \in Seq([file : Files, value : Values \cup {-1}]),
           UNCHANGED <<phase, mirror, locks, ev_thread, workers>>
    PROVE  Inv'
<1> DEFINE e == IF v = None THEN "other" ELSE f
<1>0. TypeOK /\ Calls /\ LockHolders /\ OwnersWritten /\ ChangePending
  BY DEF Inv
<1>1. e \in Events /\ Notify(e) /\ (v # None => e = f)
  BY FilesDiffer
<1> HIDE DEF e
<1>2. /\ wire' \in Seq(Events) /\ x_queue' \in Seq(Events) /\ taken' \in BOOLEAN
      /\ \A g : Queued(g) => Queued(g)'
  BY <1>0, <1>1, ConnectionKeeps
<1>3. TypeOK'
  BY <1>0, <1>2 DEF TypeOK, mirror, locks, ev_thread, workers
<1>4. Calls' /\ LockHolders' /\ OwnersWritten'
  BY <1>0, WorkersKept DEF mirror, locks, ev_thread, LockHolders
<1>5. ChangePending'
  <2>1. /\ \A g \in Files : g # f => x_prop'[g] = x_prop[g]
        /\ x_prop'[f] = v
    BY <1>0 DEF TypeOK
  <2>2. UNCHANGED <<phase, file, ev, event>>
    BY DEF mirror, ev_thread
  <2>3. phase \in {"filled", "running"} /\ v # None => Queued(f)'
    BY <1>0, <1>1, Told DEF Subscribed
  <2>4. \A g : Pending(g) => Pending(g)'
    BY <1>2, <2>2 DEF Pending
  <2> QED
    BY <1>0, <2>1, <2>2, <2>3, <2>4 DEF ChangePending, Pending
<1> QED
  BY <1>3, <1>4, <1>5 DEF Inv

(***************************************************************************)
(* The window manager's steps.                                             *)
(***************************************************************************)
LEMMA WindowManagerStep ==
    ASSUME Inv, \/ \E f \in Files, v \in Values \cup {None} : setProp(f, v)
                \/ honourRequest
                \/ ignoreRequest
    PROVE  Inv'
<1> DEFINE Requests == [file : Files, value : Values \cup {-1}]
<1>0. TypeOK /\ requests \in Seq(Requests)
  BY DEF Inv, TypeOK
<1>1. ASSUME NEW f \in Files, NEW v \in Values \cup {None}, setProp(f, v)
      PROVE  Inv'
  BY <1>0, <1>1, PropertyChanges DEF setProp
<1>2. ASSUME requests # <<>>
      PROVE  /\ Head(requests) \in Requests /\ Head(requests).file \in Files
             /\ Tail(requests) \in Seq(Requests)
  <2>1. Head(requests) \in Requests /\ Tail(requests) \in Seq(Requests)
    BY <1>0, <1>2, InTail
  <2> QED
    BY <2>1
<1>3. CASE honourRequest
  <2>1. PICK f \in Files : f = Head(requests).file
    BY <1>2, <1>3 DEF honourRequest
  <2>2. PICK v \in Values : v = Head(requests).value
    BY <1>3 DEF honourRequest
  <2>3. v # None
    BY OwnersDiffer
  <2>4. /\ x_prop' = [x_prop EXCEPT ![f] = v]
        /\ Notify(f) /\ requests' = Tail(requests)
        /\ UNCHANGED <<phase, mirror, locks, ev_thread, workers>>
    BY <1>3, <2>1, <2>2 DEF honourRequest
  <2>5. requests' \in Seq(Requests)
    BY <1>2, <1>3, <2>4 DEF honourRequest
  <2>6. v \in Values \cup {None} /\ Notify(IF v = None THEN "other" ELSE f)
    BY <2>3, <2>4
  <2> QED
    BY <2>4, <2>5, <2>6, PropertyChanges
<1>4. CASE ignoreRequest
  <2>1. /\ requests' \in Seq(Requests)
        /\ UNCHANGED <<x_prop, events, phase, mirror, locks, ev_thread, workers>>
    BY <1>2, <1>4 DEF ignoreRequest
  <2>2. TypeOK'
    BY <1>0, <2>1 DEF TypeOK, events, mirror, locks, ev_thread, workers
  <2>3. Calls' /\ LockHolders' /\ OwnersWritten'
    BY <2>1, WorkersKept DEF Inv, LockHolders, mirror, locks, ev_thread
  <2>4. ChangePending'
    BY <1>0, <2>1, FilesKept DEF Inv, mirror, ev_thread, events, Pending, Queued
  <2> QED
    BY <2>2, <2>3, <2>4 DEF Inv
<1> QED
  BY <1>1, <1>3, <1>4

-----------------------------------------------------------------------------
(* Start-up.                                                               *)

(***************************************************************************)
(* What is fetched and shown has its type, and is what the property is.    *)
(***************************************************************************)
LEMMA ShownRight ==
    ASSUME TypeOK, NEW f \in Files
    PROVE  /\ Fetched(f) \in Values \cup {None}
           /\ Shown(f, Fetched(f)) \in Values \cup {-1, 0}
           /\ f \in Written /\ x_prop[f] # None => Shown(f, Fetched(f)) = x_prop[f]
<1>1. Fetched(f) \in Values \cup {None}
  BY DEF TypeOK, Fetched
<1>2. Unset(f) \in {-1, 0}
  BY DEF Unset
<1> QED
  BY <1>1, <1>2 DEF Shown, Fetched

(***************************************************************************)
(* xwmfs subscribes, fills the files and makes its selection window.       *)
(***************************************************************************)
LEMMA StartStep ==
    ASSUME Inv, selectPropertyNotifyEvent \/ createFS \/ createSelectionWindow
    PROVE  Inv'
<1>0. TypeOK /\ Calls /\ LockHolders /\ OwnersWritten /\ ChangePending
  BY DEF Inv
<1>1. UNCHANGED <<x_server, owners, locks, ev_thread, workers>>
  BY DEF selectPropertyNotifyEvent, createFS, createSelectionWindow, mirror
<1>2. Calls' /\ LockHolders' /\ OwnersWritten'
  BY <1>0, <1>1, WorkersKept DEF LockHolders, locks, ev_thread
<1>3. CASE selectPropertyNotifyEvent
  <2>1. phase' = "subscribed" /\ UNCHANGED <<events, mirror>>
    BY <1>3 DEF selectPropertyNotifyEvent
  <2>2. TypeOK'
    BY <1>0, <1>1, <2>1 DEF TypeOK, x_server, events, mirror, locks, ev_thread, workers
  <2>3. ChangePending'
    BY <2>1 DEF ChangePending
  <2> QED
    BY <1>2, <2>2, <2>3 DEF Inv
<1>4. CASE createFS
  <2>1. /\ phase' = "filled" /\ RoundTrip
        /\ cache' = [f \in Files |-> Fetched(f)]
        /\ file' = [f \in Files |-> Shown(f, Fetched(f))]
    BY <1>4 DEF createFS
  <2>2. wire' \in Seq(Events) /\ x_queue' \in Seq(Events) /\ taken' \in BOOLEAN
    BY <1>0, <2>1, ConnectionKeeps
  <2>3. cache' \in [Files -> Values \cup {None}] /\ file' \in [Files -> Values \cup {-1, 0}]
    BY <1>0, <2>1, ShownRight
  <2>4. TypeOK'
    BY <1>0, <1>1, <2>1, <2>2, <2>3 DEF TypeOK, x_server, locks, ev_thread, workers
  <2>5. \A f \in Files \cap Written : x_prop[f] # None => file'[f] = x_prop[f]
    BY <1>0, <2>1, ShownRight
  <2>6. ChangePending'
    BY <1>1, <2>5 DEF ChangePending, x_server
  <2> QED
    BY <1>2, <2>4, <2>6 DEF Inv
<1>5. CASE createSelectionWindow
  <2>1. /\ phase = "filled" /\ phase' = "running" /\ wire' = Append(wire, "other")
        /\ UNCHANGED <<x_queue, taken, mirror>>
    BY <1>5 DEF createSelectionWindow
  <2>2. wire' \in Seq(Events) /\ \A f : In(f, wire) => In(f, wire')
    BY <1>0, <2>1, FilesDiffer, InAppend DEF TypeOK
  <2>3. TypeOK'
    BY <1>0, <1>1, <2>1, <2>2 DEF TypeOK, x_server, mirror, locks, ev_thread, workers
  <2>4. \A f : Pending(f) => Pending(f)'
    BY <1>1, <2>1, <2>2 DEF Pending, Queued, ev_thread
  <2>5. ChangePending'
    BY <1>0, <1>1, <2>1, <2>4 DEF ChangePending, x_server, mirror
  <2> QED
    BY <1>2, <2>3, <2>5 DEF Inv
<1> QED
  BY <1>3, <1>4, <1>5

-----------------------------------------------------------------------------
(* The event thread.                                                       *)

(***************************************************************************)
(* It wakes up, takes the lock, takes an event, or finds none.             *)
(***************************************************************************)
LEMMA DrainStep ==
    ASSUME Inv, wakeUp \/ lockEvents \/ nextEvent \/ noPendingEvents
    PROVE  Inv'
<1>0. TypeOK /\ Calls /\ LockHolders /\ OwnersWritten /\ ChangePending
  BY DEF Inv
<1>1. UNCHANGED <<x_server, phase, mirror, dir_lock, workers>>
  BY DEF wakeUp, lockEvents, nextEvent, noPendingEvents, locks
<1>2. wire \in Seq(Events) /\ x_queue \in Seq(Events)
  BY <1>0 DEF TypeOK
<1>3. Calls' /\ LockHolders' /\ OwnersWritten'
  <2>1. CASE wakeUp
    <3>1. ev = "poll" /\ ev' = "lock" /\ event_lock' = event_lock
      BY <2>1 DEF wakeUp, locks
    <3> QED
      BY <1>0, <1>1, <3>1, WorkersKept DEF LockHolders, mirror
  <2>2. CASE lockEvents
    <3>1. event_lock = None /\ event_lock' = "event thread" /\ ev' = "drain"
      BY <2>2 DEF lockEvents
    <3> QED
      BY <1>0, <1>1, <3>1, OwnersDiffer, WorkersKept DEF mirror
  <2>3. CASE nextEvent \/ noPendingEvents
    <3>1. ev = "drain" /\ ev' # "drain" /\ event_lock' = None
      BY <2>3 DEF nextEvent, noPendingEvents, ReverseGuard
    <3>2. event_lock = "event thread"
      BY <1>0, <3>1 DEF LockHolders
    <3> QED
      BY <1>0, <1>1, <3>1, <3>2, OwnersDiffer, WorkersKept DEF mirror
  <2> QED
    BY <2>1, <2>2, <2>3
<1>4. CASE wakeUp \/ lockEvents \/ noPendingEvents
  <2>1. UNCHANGED <<wire, x_queue, event>> /\ ev # "handle" /\ taken' \in BOOLEAN
        /\ ev' \in {"poll", "lock", "drain"}
        /\ event_lock' \in {event_lock, None, "event thread"}
    BY <1>0, <1>4 DEF TypeOK, wakeUp, lockEvents, noPendingEvents, events, locks
  <2>2. TypeOK'
    BY <1>0, <1>1, <2>1 DEF TypeOK, x_server, mirror, workers
  <2>3. ChangePending'
    BY <1>0, <1>1, <2>1, FilesKept DEF x_server, mirror, Pending, Queued
  <2> QED
    BY <1>3, <2>2, <2>3 DEF Inv
<1>5. CASE nextEvent
  <2>1. PICK q \in {wire, x_queue} :
          /\ q = IF x_queue # <<>> THEN x_queue ELSE wire
          /\ q # <<>> /\ event' = Head(q) /\ x_queue' = Tail(q)
          /\ wire' = IF x_queue # <<>> THEN wire ELSE <<>>
          /\ ev = "drain" /\ ev' = "handle" /\ event_lock' = None /\ taken' = taken
    BY <1>5 DEF nextEvent, ReverseGuard
  <2>2. q \in Seq(Events)
    BY <1>2, <2>1
  <2>3. /\ Head(q) \in Events /\ Tail(q) \in Seq(Events)
        /\ \A f : In(f, q) => f = Head(q) \/ In(f, Tail(q))
    BY <2>1, <2>2, InTail
  <2>4. wire' \in Seq(Events)
    BY <1>2, <2>1
  <2>5. TypeOK'
    BY <1>0, <1>1, <2>1, <2>3, <2>4 DEF TypeOK, x_server, mirror, workers
  <2>6. \A f : Queued(f) => Pending(f)'
    BY <2>1, <2>3, InEmpty DEF Queued, Pending
  <2>7. ChangePending'
    BY <1>0, <1>1, <2>1, <2>6, FilesKept DEF x_server, mirror, Pending
  <2> QED
    BY <1>3, <2>5, <2>7 DEF Inv
<1> QED
  BY <1>4, <1>5

(***************************************************************************)
(* It handles one: the file gets the value of now.                         *)
(***************************************************************************)
LEMMA HandleEventStep ==
    ASSUME Inv, handleEvent
    PROVE  Inv'
<1>0. TypeOK /\ Calls /\ LockHolders /\ OwnersWritten /\ ChangePending
  BY DEF Inv
<1>1. /\ UNCHANGED <<x_server, phase, owners, locks, workers>>
      /\ ev = "handle" /\ ev' = "relock" /\ event' = None /\ RoundTrip
  BY DEF handleEvent, AfterEvent, update, mirror
<1>2. /\ wire' \in Seq(Events) /\ x_queue' \in Seq(Events) /\ taken' \in BOOLEAN
      /\ \A g : Queued(g) => Queued(g)'
  BY <1>0, <1>1, ConnectionKeeps
<1>3. Calls' /\ LockHolders' /\ OwnersWritten'
  BY <1>0, <1>1, WorkersKept DEF LockHolders, locks
<1>4. CASE event \in Files
  <2>1. PICK f \in Files : f = event
    BY <1>4
  <2>2. /\ cache' = [cache EXCEPT ![f] = Fetched(f)]
        /\ file' = [file EXCEPT ![f] = Shown(f, Fetched(f))]
    BY <1>4, <2>1 DEF handleEvent, update
  <2>3. TypeOK'
    BY <1>0, <1>1, <1>2, <2>2, ShownRight DEF TypeOK, x_server, locks, workers
  <2>4. \A g \in Files : g # f => file'[g] = file[g] /\ (Pending(g) => Queued(g)')
    BY <1>0, <1>1, <1>2, <2>1, <2>2 DEF TypeOK, Pending
  <2>5. f \in Written /\ x_prop[f] # None => file'[f] = x_prop[f]
    BY <1>0, <2>2, ShownRight DEF TypeOK
  <2>6. ChangePending'
    BY <1>0, <1>1, <2>4, <2>5 DEF ChangePending, Pending, x_server
  <2> QED
    BY <1>3, <2>3, <2>6 DEF Inv
<1>5. CASE event \notin Files
  <2>1. UNCHANGED mirror
    BY <1>5 DEF handleEvent
  <2>2. TypeOK'
    BY <1>0, <1>1, <1>2, <2>1 DEF TypeOK, x_server, mirror, locks, workers
  <2>3. \A f \in Files : Pending(f) => Pending(f)'
    BY <1>2, <1>5 DEF Pending
  <2>4. ChangePending'
    BY <1>0, <1>1, <2>1, <2>3, FilesKept DEF x_server, mirror
  <2> QED
    BY <1>3, <2>2, <2>4 DEF Inv
<1> QED
  BY <1>4, <1>5

-----------------------------------------------------------------------------
(* The workers.                                                            *)

(***************************************************************************)
(* What a step of t has to do for the mutexes and the text of `owners`.    *)
(***************************************************************************)
LEMMA OneWorker ==
    ASSUME Inv, NEW t \in Threads, TypeOK', UNCHANGED <<x_prop, file, phase, ev, event>>,
           \A f : Queued(f) => Queued(f)',
           DOMAIN call' = Threads,
           \A u \in Threads : u # t => pc'[u] = pc[u] /\ call'[u] = call[u],
           pc'[t] = "write" /\ call'[t].file \notin WindowFiles =>
               call'[t].file \in Files /\ call'[t].text[1] \in Values \cup {-1},
           \/ event_lock' = event_lock /\ (pc[t] = "lines" <=> pc'[t] = "lines")
           \/ event_lock = None /\ event_lock' = t /\ pc'[t] = "lines"
           \/ event_lock = t /\ event_lock' = None /\ pc'[t] # "lines",
           \/ dir_lock' = dir_lock /\ (pc[t] = "own events" <=> pc'[t] = "own events")
           \/ dir_lock = None /\ dir_lock' = t /\ pc'[t] = "own events"
           \/ dir_lock = t /\ dir_lock' = None /\ pc'[t] # "own events",
           pc[t] # "lines" /\ pc'[t] # "lines" => owners' = owners,
           pc'[t] = "lines" => call'[t] \in {1, 2} /\ owners' = LinesWritten(call'[t]),
           pc[t] = "lines" /\ pc'[t] # "lines" => owners' = SelectionTypes
    PROVE  Inv'
<1>0. TypeOK /\ Calls /\ LockHolders /\ OwnersWritten /\ ChangePending
  BY DEF Inv
<1>1. Calls'
  BY <1>0 DEF Calls
<1>2. t # None /\ t # "event thread" /\ None # "event thread"
      /\ \A u \in Threads : u # None /\ u # "event thread"
  BY OwnersDiffer
<1>3. ASSUME NEW u \in Threads, u # t
      PROVE  /\ event_lock' = u <=> pc'[u] = "lines"
             /\ dir_lock' = u <=> pc'[u] = "own events"
  <2>1. pc'[u] = pc[u] /\ u # None
    BY <1>2, <1>3
  <2>2. event_lock' = u <=> event_lock = u
    BY <1>3, <2>1
  <2>3. dir_lock' = u <=> dir_lock = u
    BY <1>3, <2>1
  <2> QED
    BY <1>0, <2>1, <2>2, <2>3 DEF LockHolders
<1>4. /\ event_lock' = t <=> pc'[t] = "lines"
      /\ dir_lock' = t <=> pc'[t] = "own events"
  BY <1>0, <1>2 DEF LockHolders
<1>5. event_lock' = "event thread" <=> ev' = "drain"
  BY <1>0, <1>2 DEF LockHolders
<1>6. LockHolders'
  <2>1. \A u \in Threads : /\ event_lock' = u <=> pc'[u] = "lines"
                           /\ dir_lock' = u <=> pc'[u] = "own events"
    <3>1. TAKE u \in Threads
    <3>2. CASE u = t
      BY <1>4, <3>2
    <3>3. CASE u # t
      BY <1>3, <3>3
    <3> QED
      BY <3>2, <3>3
  <2> QED
    BY <1>5, <2>1 DEF LockHolders
<1>7. OwnersWritten'
  <2>1. \A u \in Threads : u # t /\ pc'[u] = "lines" => pc[t] # "lines" /\ pc'[t] # "lines"
    BY <1>0, <1>3, <1>4 DEF LockHolders
  <2>2. \A u \in Threads : pc'[u] = "lines" =>
           call'[u] \in {1, 2} /\ owners' = LinesWritten(call'[u])
    BY <1>0, <2>1 DEF OwnersWritten
  <2>3. OwnersWhole'
    <3>1. SUFFICES ASSUME \A u \in Threads : pc'[u] # "lines"
                   PROVE  owners' = SelectionTypes
      BY DEF OwnersWhole, SelectionTypes
    <3>2. CASE pc[t] = "lines"
      BY <3>1, <3>2
    <3>3. CASE pc[t] # "lines"
      BY <1>0, <3>1, <3>3 DEF OwnersWritten, OwnersWhole
    <3> QED
      BY <3>2, <3>3
  <2> QED
    BY <2>2, <2>3 DEF OwnersWritten
<1>8. ChangePending'
  BY <1>0, FilesKept DEF Pending
<1> QED
  BY <1>1, <1>6, <1>7, <1>8 DEF Inv

(***************************************************************************)
(* Another call is counted.                                                *)
(***************************************************************************)
LEMMA OneMoreCall ==
    ASSUME TypeOK, NEW t \in Threads, Begin(t)
    PROVE  calls' \in 0 .. MaxCalls
<1>1. calls \in 0 .. MaxCalls /\ calls < MaxCalls /\ calls' = calls + 1
  BY DEF TypeOK, Begin
<1> QED
  BY <1>1, CallsBounded

(***************************************************************************)
(* A write or a read begins.                                               *)
(***************************************************************************)
LEMMA BeginWriteStep ==
    ASSUME Inv, NEW t \in Threads, NEW f \in (Files \cap Written) \cup WindowFiles,
           NEW text \in Inputs(f), NEW offset \in BOOLEAN, beginWrite(t, f, text, offset)
    PROVE  Inv'
<1>0. TypeOK /\ Calls
  BY DEF Inv
<1>1. /\ UNCHANGED <<x_server, events, phase, mirror, locks, ev_thread>>
      /\ pc[t] = "idle" /\ Begin(t)
  BY DEF beginWrite, Begin
<1>2. /\ pc'[t] \in {"idle", "write"} /\ DOMAIN call' = Threads
      /\ pc' \in [Threads -> {"idle", "write", "own events", "selection", "owners", "lines",
                              "copy"}]
      /\ \A u \in Threads : u # t => pc'[u] = pc[u] /\ call'[u] = call[u]
  BY <1>0 DEF TypeOK, Calls, beginWrite, Return, MoveTo
<1>3. result' \in [Threads -> Results \cup {None}]
  <2>1. \E how \in Results \cup {None} : result' = [result EXCEPT ![t] = how]
    BY DEF beginWrite, Return, Results
  <2> QED
    BY <1>0, <2>1 DEF TypeOK
<1>4. TypeOK'
  <2>1. calls' \in 0 .. MaxCalls
    BY <1>0, <1>1, OneMoreCall
  <2> QED
    BY <1>0, <1>1, <1>2, <1>3, <2>1 DEF TypeOK, x_server, events, mirror, locks, ev_thread
<1>5. pc'[t] = "write" /\ call'[t].file \notin WindowFiles =>
          call'[t].file \in Files /\ call'[t].text[1] \in Values \cup {-1}
  <2>1. SUFFICES ASSUME pc'[t] = "write", call'[t].file \notin WindowFiles
                 PROVE  call'[t].file \in Files /\ call'[t].text[1] \in Values \cup {-1}
    OBVIOUS
  <2>2. call'[t] = [file |-> f, text |-> text] /\ (f \notin WindowFiles => Accepted(f, text))
    BY <1>0, <2>1 DEF TypeOK, Calls, beginWrite, Return, MoveTo
  <2>3. f \notin WindowFiles /\ f \in Files
    BY <2>1, <2>2
  <2>4. text # <<>> /\ text \in {<<v>> : v \in Values \cup {-1}} \cup {<<>>}
    BY <2>2, <2>3 DEF Accepted, Inputs, WindowFiles
  <2> QED
    BY <2>2, <2>3, <2>4
<1>6. UNCHANGED <<x_prop, file, owners, ev, event, wire, x_queue, event_lock, dir_lock>>
  BY <1>1 DEF x_server, mirror, ev_thread, events, locks
<1> QED
  BY <1>1, <1>2, <1>4, <1>5, <1>6, OneWorker DEF Queued

LEMMA BeginReadStep ==
    ASSUME Inv, NEW t \in Threads, beginRead(t)
    PROVE  Inv'
<1>0. TypeOK /\ Calls
  BY DEF Inv
<1>1. /\ UNCHANGED <<x_server, events, phase, mirror, locks, ev_thread, call>>
      /\ pc[t] = "idle" /\ Begin(t)
  BY DEF beginRead, Begin
<1>2. /\ pc'[t] \in {"selection", "owners"}
      /\ pc' \in [Threads -> {"idle", "write", "own events", "selection", "owners", "lines",
                              "copy"}]
      /\ \A u \in Threads : u # t => pc'[u] = pc[u]
  BY <1>0 DEF TypeOK, beginRead, MoveTo
<1>3. TypeOK'
  BY <1>0, <1>1, <1>2, OneMoreCall
     DEF TypeOK, beginRead, x_server, events, mirror, locks, ev_thread
<1>4. /\ UNCHANGED <<x_prop, file, owners, ev, event, wire, x_queue, event_lock, dir_lock>>
      /\ DOMAIN call' = Threads
  BY <1>0, <1>1 DEF Calls, x_server, mirror, ev_thread, events, locks
<1> QED
  BY <1>1, <1>2, <1>3, <1>4, OneWorker DEF Queued

(***************************************************************************)
(* A call that ends.                                                       *)
(***************************************************************************)
LEMMA Returns ==
    ASSUME TypeOK, Calls, NEW t \in Threads, NEW how \in Results, Return(t, how)
    PROVE  /\ pc' \in [Threads -> {"idle", "write", "own events", "selection", "owners",
                                   "lines", "copy"}]
           /\ result' \in [Threads -> Results \cup {None}]
           /\ DOMAIN call' = Threads
           /\ pc'[t] = "idle"
           /\ \A u \in Threads : u # t => pc'[u] = pc[u] /\ call'[u] = call[u]
BY DEF TypeOK, Calls, Return, MoveTo

LEMMA WriteWmFileStep ==
    ASSUME Inv, NEW t \in Threads, writeWmFile(t)
    PROVE  Inv'
<1> DEFINE Requests == [file : Files, value : Values \cup {-1}]
<1>0. TypeOK /\ Calls
  BY DEF Inv
<1>1. /\ UNCHANGED <<x_prop, events, phase, mirror, locks, ev_thread, calls>>
      /\ pc[t] = "write" /\ call[t].file \notin WindowFiles
  BY DEF writeWmFile
<1>2. PICK how \in Results : Return(t, how)
  <2>1. {"INVALID_ARG", "NO_SYS", "OK"} \subseteq Results
    BY DEF Results
  <2> QED
    BY <2>1 DEF writeWmFile
<1>3. requests' \in Seq(Requests)
  <2>1. requests \in Seq(Requests)
    BY <1>0 DEF TypeOK
  <2>2. call[t].file \in Files /\ call[t].text[1] \in Values \cup {-1}
    BY <1>0, <1>1 DEF Calls
  <2>3. \/ requests' = requests
        \/ requests' = Append(requests, [file |-> call[t].file, value |-> call[t].text[1]])
    BY DEF writeWmFile, sendRequest
  <2>4. [file |-> call[t].file, value |-> call[t].text[1]] \in Requests
    BY <2>2
  <2>5. Append(requests, [file |-> call[t].file, value |-> call[t].text[1]]) \in Seq(Requests)
    BY <2>1, <2>4, InAppend
  <2> QED
    BY <2>1, <2>3, <2>5
<1>4. TypeOK'
  <2>1. /\ pc' \in [Threads -> {"idle", "write", "own events", "selection", "owners", "lines",
                                "copy"}]
        /\ result' \in [Threads -> Results \cup {None}]
    BY <1>0, <1>2, Returns
  <2> QED
    BY <1>0, <1>1, <1>3, <2>1 DEF TypeOK, events, mirror, locks, ev_thread
<1>5. UNCHANGED <<x_prop, file, owners, ev, event, wire, x_queue, event_lock, dir_lock>>
  BY <1>1 DEF mirror, ev_thread, events, locks
<1>6. pc'[t] = "idle" /\ DOMAIN call' = Threads
      /\ \A u \in Threads : u # t => pc'[u] = pc[u] /\ call'[u] = call[u]
  BY <1>0, <1>2, Returns
<1> QED
  BY <1>1, <1>4, <1>5, <1>6, OneWorker DEF Queued

(***************************************************************************)
(* The other calls that end by a return, the text of `owners` untouched.   *)
(***************************************************************************)
LEMMA CallEnds ==
    ASSUME Inv, NEW t \in Threads, NEW how \in Results, Return(t, how),
           pc[t] # "lines", UNCHANGED <<x_server, phase, mirror, event_lock, ev_thread, calls>>,
           UNCHANGED events \/ RoundTrip \/ \E e \in Events : Notify(e),
           IF pc[t] = "own events" THEN dir_lock' = None ELSE dir_lock' = dir_lock
    PROVE  Inv'
<1>0. TypeOK /\ Calls /\ LockHolders
  BY DEF Inv
<1>1. /\ wire' \in Seq(Events) /\ x_queue' \in Seq(Events) /\ taken' \in BOOLEAN
      /\ \A f : Queued(f) => Queued(f)'
  BY <1>0, ConnectionKeeps
<1>2. TypeOK'
  BY <1>0, <1>1, Returns DEF TypeOK, x_server, mirror, ev_thread
<1>3. UNCHANGED <<x_prop, file, owners, ev, event>>
  BY DEF mirror, ev_thread, x_server
<1>4. pc'[t] = "idle" /\ DOMAIN call' = Threads
      /\ \A u \in Threads : u # t => pc'[u] = pc[u] /\ call'[u] = call[u]
  BY <1>0, Returns
<1>5. \/ dir_lock' = dir_lock /\ pc[t] # "own events"
      \/ dir_lock = t /\ dir_lock' = None
  BY <1>0 DEF LockHolders
<1> QED
  BY <1>1, <1>2, <1>3, <1>4, <1>5, OneWorker

LEMMA ReturnStep ==
    ASSUME Inv, NEW t \in Threads, \/ writeWindowFile(t)
                                   \/ writePropertiesFile(t)
                                   \/ getSelectionOwner(t)
                                   \/ copyOwners(t)
    PROVE  Inv'
<1>1. {"OK", "INVALID_ARG"} \subseteq Results /\ "other" \in Events
  BY FilesDiffer DEF Results
<1>2. CASE writeWindowFile(t)
  <2>1. PICK how \in Results : Return(t, how)
    BY <1>1, <1>2 DEF writeWindowFile
  <2>2. /\ pc[t] = "write" /\ UNCHANGED <<x_server, phase, mirror, locks, ev_thread, calls>>
        /\ UNCHANGED events \/ Notify("other")
    BY <1>2 DEF writeWindowFile
  <2> QED
    BY <1>1, <2>1, <2>2, CallEnds DEF locks
<1>3. CASE writePropertiesFile(t)
  <2>1. PICK how \in Results : Return(t, how)
    BY <1>1, <1>3 DEF writePropertiesFile
  <2>2. /\ pc[t] = "own events" /\ dir_lock' = None
        /\ UNCHANGED <<x_server, phase, mirror, event_lock, ev_thread, calls>>
        /\ UNCHANGED events \/ RoundTrip
    BY <1>3 DEF writePropertiesFile
  <2> QED
    BY <2>1, <2>2, CallEnds
<1>4. CASE getSelectionOwner(t)
  <2>1. /\ pc[t] = "selection" /\ Return(t, "OK") /\ RoundTrip
        /\ UNCHANGED <<x_server, phase, mirror, locks, ev_thread, calls>>
    BY <1>4 DEF getSelectionOwner
  <2> QED
    BY <1>1, <2>1, CallEnds DEF locks
<1>5. CASE copyOwners(t)
  <2>1. /\ pc[t] = "copy" /\ Return(t, "OK")
        /\ UNCHANGED <<x_server, events, phase, mirror, locks, ev_thread, calls>>
    BY <1>5 DEF copyOwners
  <2> QED
    BY <1>1, <2>1, CallEnds DEF locks
<1> QED
  BY <1>2, <1>3, <1>4, <1>5

LEMMA LockPropertiesStep ==
    ASSUME Inv, NEW t \in Threads, lockProperties(t)
    PROVE  Inv'
<1>0. TypeOK /\ Calls
  BY DEF Inv
<1>1. /\ UNCHANGED <<x_server, events, phase, mirror, event_lock, ev_thread, call, result, calls>>
      /\ pc[t] = "write" /\ pc'[t] = "own events" /\ dir_lock = None /\ dir_lock' = t
      /\ \A u \in Threads : u # t => pc'[u] = pc[u]
  BY <1>0 DEF TypeOK, lockProperties, MoveTo
<1>2. TypeOK'
  BY <1>0, <1>1 DEF TypeOK, lockProperties, MoveTo, x_server, events, mirror, ev_thread
<1>3. /\ UNCHANGED <<x_prop, file, owners, ev, event, wire, x_queue, event_lock>>
      /\ DOMAIN call' = Threads
  BY <1>0, <1>1 DEF Calls, x_server, mirror, ev_thread, events
<1> QED
  BY <1>1, <1>2, <1>3, OneWorker DEF Queued

(***************************************************************************)
(* The text of `owners` is begun ...                                       *)
(***************************************************************************)
LEMMA ClearOwnersStep ==
    ASSUME Inv, NEW t \in Threads, clearOwners(t)
    PROVE  Inv'
<1>0. TypeOK /\ Calls
  BY DEF Inv
<1>1. /\ UNCHANGED <<x_server, events, phase, cache, file, dir_lock, ev_thread, result, calls>>
      /\ pc[t] = "owners" /\ pc'[t] = "lines" /\ event_lock = None /\ event_lock' = t
      /\ owners' = <<>> /\ call'[t] = 1 /\ DOMAIN call' = Threads
      /\ \A u \in Threads : u # t => pc'[u] = pc[u] /\ call'[u] = call[u]
  BY <1>0 DEF TypeOK, Calls, clearOwners, MoveTo, OwnersGuard
<1>2. TypeOK'
  <2>1. pc' \in [Threads -> {"idle", "write", "own events", "selection", "owners", "lines",
                             "copy"}]
    BY <1>0 DEF TypeOK, clearOwners, MoveTo
  <2>2. owners' \in Seq({"PRIMARY", "CLIPBOARD"})
    BY <1>1
  <2> QED
    BY <1>0, <1>1, <2>1, <2>2 DEF TypeOK, x_server, events, ev_thread
<1>3. UNCHANGED <<x_prop, ev, event, wire, x_queue>>
  BY <1>1 DEF x_server, ev_thread, events
<1> QED
  BY <1>1, <1>2, <1>3, OneWorker DEF Queued, LinesWritten

(***************************************************************************)
(* ... and gets its lines.                                                 *)
(***************************************************************************)
LEMMA AddOwnerStep ==
    ASSUME Inv, NEW t \in Threads, addOwner(t)
    PROVE  Inv'
<1>0. TypeOK /\ Calls /\ LockHolders /\ OwnersWritten
  BY DEF Inv
<1>1. /\ UNCHANGED <<x_server, phase, cache, file, dir_lock, ev_thread, result, calls>>
      /\ pc[t] = "lines" /\ RoundTrip /\ owners' = Append(owners, SelectionTypes[call[t]])
  BY DEF addOwner
<1>2. event_lock = t /\ call[t] \in {1, 2} /\ owners = LinesWritten(call[t])
  BY <1>0, <1>1 DEF LockHolders, OwnersWritten
<1>3. /\ wire' \in Seq(Events) /\ x_queue' \in Seq(Events) /\ taken' \in BOOLEAN
      /\ \A f : Queued(f) => Queued(f)'
  BY <1>0, <1>1, ConnectionKeeps
<1>4. UNCHANGED <<x_prop, ev, event>>
  BY <1>1 DEF x_server, ev_thread
<1>5. Len(SelectionTypes) = 2 /\ SelectionTypes[1] = "PRIMARY" /\ SelectionTypes[2] = "CLIPBOARD"
  BY DEF SelectionTypes
<1>6. owners' \in Seq({"PRIMARY", "CLIPBOARD"})
  <2>1. SelectionTypes[call[t]] \in {"PRIMARY", "CLIPBOARD"}
    BY <1>2, <1>5
  <2>2. owners \in Seq({"PRIMARY", "CLIPBOARD"})
    BY <1>0 DEF TypeOK
  <2> QED
    BY <1>1, <2>1, <2>2, InAppend
<1>7. CASE call[t] = 1
  <2>1. /\ call' = [call EXCEPT ![t] = @ + 1] /\ UNCHANGED <<pc, event_lock>>
        /\ owners' = <<"PRIMARY">>
    BY <1>1, <1>2, <1>5, <1>7 DEF addOwner, LinesWritten
  <2>2. call'[t] = 2 /\ DOMAIN call' = Threads
        /\ \A u \in Threads : u # t => call'[u] = call[u]
    BY <1>0, <1>7, <2>1 DEF Calls
  <2>3. TypeOK'
    BY <1>0, <1>1, <1>3, <1>6, <2>1, <2>2 DEF TypeOK, x_server, ev_thread
  <2> QED
    BY <1>1, <1>3, <1>4, <2>1, <2>2, <2>3, OneWorker DEF LinesWritten
<1>8. CASE call[t] = 2
  <2>1. /\ call' = [call EXCEPT ![t] = None] /\ MoveTo(t, "copy") /\ event_lock' = None
    BY <1>1, <1>5, <1>8 DEF addOwner
  <2>2. owners' = Append(<<"PRIMARY">>, "CLIPBOARD")
    BY <1>1, <1>2, <1>5, <1>8 DEF LinesWritten
  <2>3. owners' = SelectionTypes
    BY <2>2, TwoLines DEF SelectionTypes
  <2>4. /\ pc'[t] = "copy" /\ DOMAIN call' = Threads
        /\ \A u \in Threads : u # t => pc'[u] = pc[u] /\ call'[u] = call[u]
        /\ pc' \in [Threads -> {"idle", "write", "own events", "selection", "owners", "lines",
                                "copy"}]
    BY <1>0, <2>1 DEF TypeOK, Calls, MoveTo
  <2>5. TypeOK'
    BY <1>0, <1>1, <1>3, <1>6, <2>1, <2>4 DEF TypeOK, x_server, ev_thread
  <2> QED
    BY <1>1, <1>2, <1>3, <1>4, <2>1, <2>3, <2>4, <2>5, OneWorker
<1> QED
  BY <1>2, <1>7, <1>8

-----------------------------------------------------------------------------
(* The theorems.                                                           *)

(***************************************************************************)
(* The invariant holds at the start.                                       *)
(***************************************************************************)
LEMMA InvInit == Init => Inv
<1> SUFFICES ASSUME Init PROVE Inv
  OBVIOUS
<1>1. TypeOK
  <2>1. /\ requests \in Seq([file : Files, value : Values \cup {-1}])
        /\ wire \in Seq(Events) /\ x_queue \in Seq(Events)
    BY DEF Init
  <2>2. owners \in Seq({"PRIMARY", "CLIPBOARD"})
    BY DEF Init, SelectionTypes
  <2>3. calls \in 0 .. MaxCalls
    <3>1. calls = 0
      BY DEF Init
    <3> QED
      BY <3>1, CallsBounded
  <2>4. taken \in BOOLEAN
    BY Zenon DEF Init
  <2> QED
    BY <2>1, <2>2, <2>3, <2>4 DEF Init, TypeOK
<1>2. \A t \in Threads : pc[t] = "idle"
  BY DEF Init
<1>3. Calls
  BY <1>2 DEF Init, Calls
<1>4. LockHolders
  BY <1>2, OwnersDiffer DEF Init, LockHolders
<1>5. OwnersWritten
  BY <1>2 DEF Init, OwnersWritten, OwnersWhole
<1>6. ChangePending
  BY DEF Init, ChangePending
<1> QED
  BY <1>1, <1>3, <1>4, <1>5, <1>6 DEF Inv

(***************************************************************************)
(* Every step keeps the invariant.                                         *)
(***************************************************************************)
LEMMA InvNext == Inv /\ [Next]_vars => Inv'
<1> SUFFICES ASSUME Inv, [Next]_vars PROVE Inv'
  OBVIOUS
<1>1. CASE \/ \E f \in Files, v \in Values \cup {None} : setProp(f, v)
           \/ honourRequest
           \/ ignoreRequest
  BY <1>1, WindowManagerStep
<1>2. CASE selectPropertyNotifyEvent \/ createFS \/ createSelectionWindow
  BY <1>2, StartStep
<1>3. CASE eventThreadStep
  BY <1>3, DrainStep, HandleEventStep DEF eventThreadStep
<1>4. ASSUME NEW t \in Threads, NEW f \in (Files \cap Written) \cup WindowFiles,
             NEW text \in Inputs(f), NEW offset \in BOOLEAN, beginWrite(t, f, text, offset)
      PROVE  Inv'
  BY <1>4, BeginWriteStep
<1>5. ASSUME NEW t \in Threads, beginRead(t)
      PROVE  Inv'
  BY <1>5, BeginReadStep
<1>6. ASSUME NEW t \in Threads, workerStep(t)
      PROVE  Inv'
  BY <1>6, WriteWmFileStep, ReturnStep, LockPropertiesStep, ClearOwnersStep, AddOwnerStep
     DEF workerStep
<1>7. CASE UNCHANGED vars
  <2>1. UNCHANGED <<x_prop, requests, wire, x_queue, taken, phase, cache, file, owners,
                    event_lock, dir_lock, ev, event, pc, call, result, calls>>
    BY <1>7 DEF vars, x_server, events, mirror, ev_thread, workers, locks
  <2>2. TypeOK'
    BY <2>1 DEF Inv, TypeOK
  <2>3. Calls' /\ LockHolders' /\ OwnersWritten'
    BY <2>1 DEF Inv, Calls, LockHolders, OwnersWritten, OwnersWhole
  <2>4. ChangePending'
    BY <2>1 DEF Inv, ChangePending, Pending, Queued
  <2> QED
    BY <2>2, <2>3, <2>4 DEF Inv
<1> QED
  BY <1>1, <1>2, <1>3, <1>4, <1>5, <1>6, <1>7 DEF Next

(***************************************************************************)
(* The inductive invariant holds in every state.                           *)
(***************************************************************************)
THEOREM InvHolds == Spec => []Inv
BY InvInit, InvNext, PTL DEF Spec

(***************************************************************************)
(* Every variable has its type, for any number of workers and calls.       *)
(***************************************************************************)
THEOREM TypeCorrect == Spec => []TypeOK
<1>1. Inv => TypeOK
  BY DEF Inv
<1> QED
  BY <1>1, InvHolds, PTL

(***************************************************************************)
(* WinManagerDirEntry::update and handlePendingEvents: with no event left, *)
(* the files that are fetched show what is set, also when a worker's query *)
(* has read the event.                                                     *)
(***************************************************************************)
THEOREM FilesCorrect == Spec => []FilesCurrent
<1>1. Inv => FilesCurrent
  <2>1. wire = <<>> /\ x_queue = <<>> /\ ev = "poll" => \A f : ~Pending(f)
    BY InEmpty DEF Pending, Queued
  <2> QED
    BY <2>1 DEF Inv, ChangePending, FilesCurrent
<1> QED
  BY <1>1, InvHolds, PTL

(***************************************************************************)
(* write() and the reads that ask the X server: the workers never wait for *)
(* each other and the event thread in a circle.                            *)
(***************************************************************************)
THEOREM LocksCorrect == Spec => []LocksMove
<1>1. Inv => LocksMove
  <2> SUFFICES ASSUME Inv, NEW t \in Readers, ev # "drain"
               PROVE  \E u \in Readers : ~Waits(u)
    BY DEF LocksMove
  <2>0. t \in Threads /\ \A u \in Threads : u \in Readers <=> pc[u] # "idle"
    BY DEF Readers
  <2>1. CASE event_lock # None
    <3>1. event_lock \in Threads
      BY <2>1 DEF Inv, TypeOK, LockHolders
    <3>2. pc[event_lock] = "lines"
      BY <3>1 DEF Inv, LockHolders
    <3>3. event_lock \in Readers /\ ~Waits(event_lock)
      BY <2>0, <3>1, <3>2 DEF Waits
    <3> QED
      BY <3>3
  <2>2. CASE event_lock = None /\ dir_lock # None
    <3>1. dir_lock \in Threads
      BY <2>2 DEF Inv, TypeOK
    <3>2. pc[dir_lock] = "own events"
      BY <3>1 DEF Inv, LockHolders
    <3>3. dir_lock \in Readers /\ ~Waits(dir_lock)
      BY <2>0, <2>2, <3>1, <3>2 DEF Waits
    <3> QED
      BY <3>3
  <2>3. CASE event_lock = None /\ dir_lock = None
    BY <2>3 DEF Waits
  <2> QED
    BY <2>1, <2>2, <2>3
<1> QED
  BY <1>1, InvHolds, PTL

(***************************************************************************)
(* SelectionOwnerFile::updateOwners: however many reads write the text of  *)
(* `owners` anew, it is whole when none of them does.                      *)
(***************************************************************************)
THEOREM OwnersCorrect == Spec => []OwnersWhole
<1>1. Inv => OwnersWhole
  BY DEF Inv, OwnersWritten
<1> QED
  BY <1>1, InvHolds, PTL

-----------------------------------------------------------------------------
(* The texts that are written.                                             *)

(***************************************************************************)
(* Natural numbers are well-founded.                                       *)
(***************************************************************************)
LEMMA Least ==
    ASSUME NEW S \in SUBSET Nat, S # {}
    PROVE  \E n \in S : \A m \in S : n <= m
<1>1. IsWellFoundedOn(OpToRel(<, Nat), Nat)
  BY NatLessThanWellFounded
<1>2. PICK n \in S : \A m \in S : <<m, n>> \notin OpToRel(<, Nat)
  BY <1>1, WFMin
<1>3. \A m \in S : ~(m < n)
  BY <1>2 DEF OpToRel
<1> QED
  BY <1>3

(***************************************************************************)
(* std::string::find: the first place of the token from the given one on.  *)
(***************************************************************************)
LEMMA Found ==
    ASSUME NEW T, NEW text \in Seq(T), NEW token, NEW from \in Nat \ {0}
    PROVE  \/ /\ find(text, token, from) = 0
              /\ \A i \in from .. Len(text) : text[i] # token
           \/ /\ find(text, token, from) \in from .. Len(text)
              /\ text[find(text, token, from)] = token
              /\ \A i \in from .. find(text, token, from) - 1 : text[i] # token
<1> DEFINE S == {i \in from .. Len(text) : text[i] = token}
<1>1. Len(text) \in Nat
  OBVIOUS
<1>2. CASE S = {}
  BY <1>2 DEF find
<1>3. CASE S # {}
  <2>1. S \in SUBSET Nat
    BY <1>1
  <2>2. \E i \in S : \A j \in S : i <= j
    <3> HIDE DEF S
    <3> QED
      BY <1>3, <2>1, Least
  <2>3. find(text, token, from) = CHOOSE i \in S : \A j \in S : i <= j
    BY <1>3 DEF find
  <2>4. /\ find(text, token, from) \in S
        /\ \A j \in S : find(text, token, from) <= j
    <3> HIDE DEF S
    <3> QED
      BY <2>2, <2>3
  <2> QED
    BY <1>1, <2>4
<1> QED
  BY <1>2, <1>3

(***************************************************************************)
(* And it is the only such place.                                          *)
(***************************************************************************)
LEMMA FoundAt ==
    ASSUME NEW T, NEW text \in Seq(T), NEW token, NEW from \in Nat \ {0},
           NEW k \in from .. Len(text), text[k] = token,
           \A i \in from .. k - 1 : text[i] # token
    PROVE  find(text, token, from) = k
BY Found

(***************************************************************************)
(* A type that is known is one token, and none of the delimiters.          *)
(***************************************************************************)
LEMMA TypeKnown ==
    ASSUME NEW type, NEW value, ValueFits(type, value)
    PROVE  /\ Len(type) = 1
           /\ type[1] # ")"
BY DEF ValueFits

(***************************************************************************)
(* One token, and two, cut out of a text.                                  *)
(***************************************************************************)
LEMMA OneToken ==
    ASSUME NEW T, NEW text \in Seq(T), NEW i \in 1 .. Len(text)
    PROVE  SubSeq(text, i, i) = <<text[i]>>
<1> DEFINE s == SubSeq(text, i, i)
<1>1. i \in Int /\ \A j \in i .. i : text[j] \in T
  OBVIOUS
<1>2. s \in Seq(T) /\ Len(s) = 1 /\ \A j \in 1 .. i - i + 1 : s[j] = text[i + j - 1]
  BY <1>1, SubSeqProperties
<1>3. s[1] = text[i]
  <2>1. 1 \in 1 .. i - i + 1 /\ i + 1 - 1 = i
    BY <1>1
  <2> QED
    BY <1>2, <2>1
<1> HIDE DEF s
<1>4. <<text[i]>> \in Seq(T) /\ Len(<<text[i]>>) = 1 /\ <<text[i]>>[1] = text[i]
  OBVIOUS
<1>5. s = <<text[i]>>
  <2>1. \A k \in 1 .. Len(s) : k = 1
    BY <1>2
  <2> QED
    BY <1>2, <1>3, <1>4, <2>1, SeqEqual
<1> QED
  BY <1>5 DEF s

LEMMA TwoTokens ==
    ASSUME NEW T, NEW text \in Seq(T), NEW i \in Nat \ {0}, NEW j, j = i + 1, j <= Len(text)
    PROVE  /\ SubSeq(text, i, j) = <<text[i], text[j]>>
           /\ SubSeq(text, i, j)[1] = text[i]
           /\ SubSeq(text, i, j)[2] = text[j]
<1> DEFINE s == SubSeq(text, i, j)
<1>1. i \in Int /\ j \in Int /\ \A k \in i .. j : text[k] \in T
  OBVIOUS
<1>2. s \in Seq(T) /\ Len(s) = 2 /\ \A k \in 1 .. j - i + 1 : s[k] = text[i + k - 1]
  BY <1>1, SubSeqProperties
<1>3. s[1] = text[i] /\ s[2] = text[j]
  <2>1. 1 \in 1 .. j - i + 1 /\ 2 \in 1 .. j - i + 1 /\ i + 1 - 1 = i /\ i + 2 - 1 = j
    BY <1>1
  <2> QED
    BY <1>2, <2>1
<1> HIDE DEF s
<1>4. /\ <<text[i], text[j]>> \in Seq(T) /\ Len(<<text[i], text[j]>>) = 2
      /\ <<text[i], text[j]>>[1] = text[i] /\ <<text[i], text[j]>>[2] = text[j]
  BY <1>1
<1>5. s = <<text[i], text[j]>>
  BY <1>2, <1>3, <1>4, SeqEqual
<1> QED
  BY <1>3, <1>5 DEF s

(***************************************************************************)
(* WindowFileEntry::setProperty accepts exactly NAME(TYPE)=VALUE, with the *)
(* first parenthesis opening the type, a known type, a value that is not   *)
(* blank and fits, and nothing skipped: for texts of any length and of any *)
(* tokens.                                                                 *)
(***************************************************************************)
THEOREM PropertySyntax ==
    ASSUME NEW T, NEW text \in Seq(T)
    PROVE  setProperty(text) <=> NamesProperty(text)
<1> DEFINE open   == find(text, "(", 1)
           close  == find(text, ")", open + 1)
           assign == find(text, "=", close + 1)
           value  == stripped(SubSeq(text, assign + 1, Len(text)))
<1>1. Len(text) \in Nat
  OBVIOUS
<1>2. ASSUME setProperty(text) PROVE NamesProperty(text)
  <2>1. /\ 0 \notin {open, close, assign}
        /\ assign = close + 1
        /\ open > 1 /\ close > open + 1 /\ value # <<>>
        /\ ValueFits(SubSeq(text, open + 1, close - 1), value)
    BY <1>2 DEF setProperty
  <2>2. /\ open \in 1 .. Len(text) /\ text[open] = "("
        /\ \A i \in 1 .. open - 1 : text[i] # "("
    BY <2>1, Found
  <2>3. close \in open + 1 .. Len(text) /\ text[close] = ")"
    <3>1. open + 1 \in Nat \ {0}
      BY <2>2
    <3> QED
      BY <2>1, <3>1, Found
  <2>4. assign \in close + 1 .. Len(text) /\ text[assign] = "="
    <3>1. close + 1 \in Nat \ {0}
      BY <2>2, <2>3
    <3> QED
      BY <2>1, <3>1, Found
  <2> HIDE DEF open, close, assign
  <2>5. Len(SubSeq(text, open + 1, close - 1)) = close - open - 1
    <3>1. \A i \in open + 1 .. close - 1 : text[i] \in T
      BY <1>1, <2>2, <2>3
    <3>2. open + 1 \in Int /\ close - 1 \in Int /\ open + 1 <= close - 1
      BY <2>1, <2>2, <2>3
    <3>3. Len(SubSeq(text, open + 1, close - 1)) = (close - 1) - (open + 1) + 1
      BY <3>1, <3>2, SubSeqProperties
    <3> QED
      BY <2>2, <2>3, <3>3
  <2>6. close = open + 2 /\ assign = open + 3 /\ assign + 1 = open + 4
    <3>1. close - open - 1 = 1
      BY <2>1, <2>5, TypeKnown
    <3> QED
      BY <1>1, <2>1, <2>2, <2>3, <3>1
  <2>7. SubSeq(text, open + 1, close - 1) = <<text[open + 1]>>
    <3>1. open + 1 \in 1 .. Len(text) /\ close - 1 = open + 1
      BY <1>1, <2>2, <2>3, <2>6
    <3> QED
      BY <3>1, OneToken
  <2>8. assign + 1 <= Len(text)
    <3> SUFFICES ASSUME assign + 1 > Len(text) PROVE FALSE
      BY <1>1, <2>2, <2>6
    <3>1. SubSeq(text, assign + 1, Len(text)) = <<>>
      BY <1>1, <2>2, <2>6, SubSeqEmpty
    <3>2. DOMAIN <<>> = {}
      OBVIOUS
    <3>3. stripped(<<>>) = <<>>
      BY <3>2 DEF stripped
    <3> QED
      BY <2>1, <3>1, <3>3
  <2>9. open \in 2 .. Len(text) - 4
    BY <1>1, <2>1, <2>2, <2>6, <2>8
  <2>10. {i \in 1 .. open : text[i] = "("} = {open}
    BY <2>2
  <2>11. SubSeq(text, open + 2, open + 3) = <<")", "=">>
    <3>1. open + 2 \in Nat \ {0} /\ open + 3 = (open + 2) + 1 /\ open + 3 <= Len(text)
      BY <1>1, <2>2, <2>4, <2>6
    <3> QED
      BY <2>3, <2>4, <2>6, <3>1, TwoTokens
  <2> QED
    BY <2>1, <2>6, <2>7, <2>9, <2>10, <2>11 DEF NamesProperty
<1>3. ASSUME NamesProperty(text) PROVE setProperty(text)
  <2>1. PICK o \in 2 .. Len(text) - 4 :
            /\ {i \in 1 .. o : text[i] = "("} = {o}
            /\ SubSeq(text, o + 2, o + 3) = <<")", "=">>
            /\ stripped(SubSeq(text, o + 4, Len(text))) # <<>>
            /\ ValueFits(<<text[o + 1]>>, stripped(SubSeq(text, o + 4, Len(text))))
    BY <1>3 DEF NamesProperty
  <2>2. o \in Nat /\ o + 1 \in Nat \ {0} /\ o + 3 \in Nat \ {0} /\ o + 4 <= Len(text)
    BY <1>1
  <2>3. text[o + 2] = ")" /\ text[o + 3] = "="
    <3>1. o + 2 \in Nat \ {0} /\ o + 3 = (o + 2) + 1 /\ o + 3 <= Len(text)
      BY <1>1, <2>2
    <3>2. SubSeq(text, o + 2, o + 3) = <<")", "=">>
      BY <2>1
    <3>3. /\ <<")", "=">>[1] = text[o + 2]
          /\ <<")", "=">>[2] = text[o + 3]
      BY <3>1, <3>2, TwoTokens
    <3> QED
      BY <3>3
  <2>4. text[o + 1] # ")"
    BY <2>1, TypeKnown
  <2>5. open = o
    <3>1. text[o] = "(" /\ \A i \in 1 .. o - 1 : text[i] # "("
      BY <2>1, <2>2
    <3>2. o \in 1 .. Len(text)
      BY <1>1, <2>2
    <3> QED
      BY <3>1, <3>2, FoundAt
  <2>6. find(text, ")", o + 1) = o + 2
    <3>1. o + 2 \in o + 1 .. Len(text) /\ \A i \in o + 1 .. (o + 2) - 1 : i = o + 1
      BY <1>1, <2>2
    <3>2. \A i \in o + 1 .. (o + 2) - 1 : text[i] # ")"
      BY <2>4, <3>1
    <3> QED
      BY <2>2, <2>3, <3>1, <3>2, FoundAt
  <2>7. find(text, "=", o + 3) = o + 3
    <3>1. o + 3 \in o + 3 .. Len(text) /\ \A i \in o + 3 .. (o + 3) - 1 : FALSE
      BY <1>1, <2>2
    <3> QED
      BY <2>2, <2>3, <3>1, FoundAt
  <2>8. close = o + 2
    BY <2>5, <2>6
  <2>9. assign = o + 3 /\ assign + 1 = o + 4
    <3>1. close + 1 = o + 3
      BY <2>2, <2>8
    <3>2. assign = o + 3
      BY <2>7, <3>1
    <3> QED
      BY <2>2, <3>2
  <2>10. value = stripped(SubSeq(text, o + 4, Len(text)))
    BY <2>9
  <2>11. SubSeq(text, open + 1, close - 1) = <<text[o + 1]>>
    <3>1. open + 1 = o + 1 /\ close - 1 = o + 1 /\ o + 1 \in 1 .. Len(text)
      BY <1>1, <2>2, <2>5, <2>8
    <3> QED
      BY <3>1, OneToken
  <2>12. /\ 0 \notin {open, close, assign} /\ assign = close + 1
         /\ open > 1 /\ close > open + 1
    BY <2>2, <2>5, <2>8, <2>9
  <2> HIDE DEF open, close, assign, value
  <2>13. value # <<>> /\ ValueFits(SubSeq(text, open + 1, close - 1), value)
    BY <2>1, <2>10, <2>11
  <2> QED
    BY <2>12, <2>13 DEF setProperty, open, close, assign, value
<1> QED
  BY <1>2, <1>3

(***************************************************************************)
(* Solids goes through a text token by token; a step of it.                *)
(***************************************************************************)
Collect(f, text, n) ==
    IF n = 0 THEN <<>>
    ELSE IF text[n] \in Blanks THEN f[n - 1] ELSE Append(f[n - 1], text[n])

(***************************************************************************)
(* The steps define a function.                                            *)
(***************************************************************************)
LEMMA CollectExists ==
    ASSUME NEW text, NEW n \in Nat
    PROVE  \E f : f = [i \in 0 .. n |-> Collect(f, text, i)]
<1> DEFINE Good(m) == \E f : f = [i \in 0 .. m |-> Collect(f, text, i)]
           B == {m \in Nat : ~Good(m)}
<1> SUFFICES ASSUME B # {} PROVE FALSE
  OBVIOUS
<1>1. PICK m \in B : \A i \in B : m <= i
  <2>1. B \in SUBSET Nat
    OBVIOUS
  <2> HIDE DEF B
  <2> QED
    BY <2>1, Least
<1>2. m \in Nat /\ ~Good(m)
  OBVIOUS
<1>3. CASE m = 0
  <2> DEFINE g == [i \in 0 .. 0 |-> <<>>]
  <2>1. g = [i \in 0 .. m |-> Collect(g, text, i)]
    BY <1>3 DEF Collect
  <2> QED
    BY <1>2, <2>1
<1>4. CASE m # 0
  <2>1. m - 1 \in Nat /\ m - 1 \notin B
    BY <1>1, <1>2, <1>4
  <2>2. PICK f : f = [i \in 0 .. m - 1 |-> Collect(f, text, i)]
    BY <2>1
  <2> DEFINE g == [i \in 0 .. m |-> Collect(f, text, i)]
  <2>3. ASSUME NEW i \in 0 .. m PROVE Collect(f, text, i) = Collect(g, text, i)
    <3>1. i # 0 => i - 1 \in 0 .. m - 1 /\ i - 1 \in 0 .. m
      BY <1>2
    <3>2. i # 0 => f[i - 1] = g[i - 1]
      BY <2>2, <3>1
    <3> HIDE DEF g
    <3> QED
      BY <3>2 DEF Collect
  <2>4. g = [i \in 0 .. m |-> Collect(g, text, i)]
    BY <2>3
  <2> QED
    BY <1>2, <2>4
<1> QED
  BY <1>3, <1>4

(***************************************************************************)
(* And Solids is its value for the whole text.                             *)
(***************************************************************************)
LEMMA SolidsKept ==
    ASSUME NEW T, NEW text \in Seq(T)
    PROVE  \E f : /\ \A n \in 0 .. Len(text) : f[n] = Collect(f, text, n)
                  /\ Solids(text) = f[Len(text)]
<1> DEFINE f == CHOOSE f : f = [n \in 0 .. Len(text) |-> Collect(f, text, n)]
<1>1. Len(text) \in Nat
  OBVIOUS
<1>2. f = [n \in 0 .. Len(text) |-> Collect(f, text, n)]
  BY <1>1, CollectExists
<1>3. Solids(text) = f[Len(text)]
  BY DEF Solids, Collect
<1> HIDE DEF f
<1>4. \A n \in 0 .. Len(text) : f[n] = Collect(f, text, n)
  BY <1>2
<1> QED
  BY <1>3, <1>4

(***************************************************************************)
(* An empty text has nothing solid, and of a longer one the last token     *)
(* counts if it is no blank.                                               *)
(***************************************************************************)
LEMMA SolidsEmpty == Solids(<<>>) = <<>>
<1>1. <<>> \in Seq({}) /\ Len(<<>>) = 0
  OBVIOUS
<1>2. PICK f : /\ \A n \in 0 .. Len(<<>>) : f[n] = Collect(f, <<>>, n)
               /\ Solids(<<>>) = f[Len(<<>>)]
  BY <1>1, SolidsKept
<1>3. f[0] = Collect(f, <<>>, 0)
  BY <1>1, <1>2
<1> QED
  BY <1>1, <1>2, <1>3 DEF Collect

LEMMA SolidsAppend ==
    ASSUME NEW T, NEW text \in Seq(T), NEW token \in T
    PROVE  Solids(Append(text, token)) =
               IF token \in Blanks THEN Solids(text) ELSE Append(Solids(text), token)
<1> DEFINE longer == Append(text, token)
<1>1. /\ longer \in Seq(T) /\ Len(text) \in Nat /\ Len(longer) = Len(text) + 1
      /\ \A n \in 1 .. Len(text) : longer[n] = text[n]
      /\ longer[Len(longer)] = token
  BY AppendProperties
<1> HIDE DEF longer
<1>2. PICK f : /\ \A n \in 0 .. Len(text) : f[n] = Collect(f, text, n)
               /\ Solids(text) = f[Len(text)]
  BY SolidsKept
<1>3. PICK g : /\ \A n \in 0 .. Len(longer) : g[n] = Collect(g, longer, n)
               /\ Solids(longer) = g[Len(longer)]
  BY <1>1, SolidsKept
<1>4. \A n \in 0 .. Len(text) : g[n] = f[n]
  <2> DEFINE B == {n \in 0 .. Len(text) : g[n] # f[n]}
  <2> SUFFICES ASSUME B # {} PROVE FALSE
    OBVIOUS
  <2>1. PICK n \in B : \A i \in B : n <= i
    <3>1. B \in SUBSET Nat
      BY <1>1
    <3> HIDE DEF B
    <3> QED
      BY <3>1, Least
  <2>2. n \in 0 .. Len(text) /\ g[n] # f[n] /\ n \in 0 .. Len(longer)
    BY <1>1
  <2>3. f[n] = Collect(f, text, n) /\ g[n] = Collect(g, longer, n)
    BY <1>2, <1>3, <2>2
  <2>4. n # 0
    BY <2>2, <2>3 DEF Collect
  <2>5. n - 1 \in 0 .. Len(text) /\ n - 1 \notin B /\ n \in 1 .. Len(text)
    BY <1>1, <2>1, <2>2, <2>4
  <2>6. g[n - 1] = f[n - 1] /\ longer[n] = text[n]
    BY <1>1, <2>5
  <2> QED
    BY <2>2, <2>3, <2>4, <2>6 DEF Collect
<1>5. /\ Len(longer) \in 0 .. Len(longer) /\ Len(longer) # 0 /\ Len(longer) - 1 = Len(text)
      /\ Len(text) \in 0 .. Len(text)
  BY <1>1
<1>6. Solids(longer) = Collect(g, longer, Len(longer))
  BY <1>3, <1>5
<1>7. g[Len(longer) - 1] = Solids(text)
  BY <1>2, <1>4, <1>5
<1> QED
  BY <1>1, <1>5, <1>6, <1>7 DEF Collect, longer

(***************************************************************************)
(* A text without blanks is solid.                                         *)
(***************************************************************************)
LEMMA AllSolid ==
    ASSUME NEW T, T \cap Blanks = {}, NEW text \in Seq(T)
    PROVE  Solids(text) = text
<1>1. Len(text) \in Nat
  OBVIOUS
<1>2. PICK f : /\ \A n \in 0 .. Len(text) : f[n] = Collect(f, text, n)
               /\ Solids(text) = f[Len(text)]
  BY SolidsKept
<1>3. \A n \in 0 .. Len(text) : f[n] = SubSeq(text, 1, n)
  <2> DEFINE B == {n \in 0 .. Len(text) : f[n] # SubSeq(text, 1, n)}
  <2> SUFFICES ASSUME B # {} PROVE FALSE
    OBVIOUS
  <2>1. PICK n \in B : \A i \in B : n <= i
    <3>1. B \in SUBSET Nat
      BY <1>1
    <3> HIDE DEF B
    <3> QED
      BY <3>1, Least
  <2>2. n \in 0 .. Len(text) /\ f[n] # SubSeq(text, 1, n) /\ f[n] = Collect(f, text, n)
    BY <1>2
  <2>3. n # 0
    <3>1. SubSeq(text, 1, 0) = <<>>
      BY SubSeqEmpty
    <3> QED
      BY <2>2, <3>1 DEF Collect
  <2>4. n - 1 \in 0 .. Len(text) /\ n - 1 \notin B /\ n \in 1 .. Len(text)
    BY <1>1, <2>1, <2>2, <2>3
  <2>5. f[n - 1] = SubSeq(text, 1, n - 1)
    BY <2>4
  <2>6. text[n] \in T /\ text[n] \notin Blanks
    BY <2>4, ElementOfSeq
  <2>7. SubSeq(text, 1, n) = Append(SubSeq(text, 1, n - 1), text[n])
    BY <2>4, SubSeqRecursiveSecond
  <2> QED
    BY <2>2, <2>3, <2>5, <2>6, <2>7 DEF Collect
<1>4. Len(text) \in 0 .. Len(text)
  BY <1>1
<1> QED
  BY <1>2, <1>3, <1>4, SubSeqFull

(***************************************************************************)
(* WindowFileEntry::writeGeometry with a line end behind: the text is      *)
(* accepted if, blanks aside, it begins with X,Y:WxH, whatever its length. *)
(***************************************************************************)
THEOREM GeometrySyntax ==
    ASSUME NEW T, NEW text \in Seq(T), "\n" \in T
    PROVE  writeGeometry(Append(text, "\n")) <=> IsPrefix(GeometryPattern, Solids(text))
<1>1. "\n" \in Blanks
  BY DEF Blanks
<1>2. Solids(Append(text, "\n")) = Solids(text)
  BY <1>1, SolidsAppend
<1>3. EndsInBlank(Append(text, "\n"))
  <2>1. Last(Append(text, "\n")) = "\n"
    BY AppendProperties DEF Last
  <2> QED
    BY <1>1, <2>1 DEF EndsInBlank
<1> QED
  BY <1>2, <1>3 DEF writeGeometry

(***************************************************************************)
(* A text that is no longer than its prefix is that prefix.                *)
(***************************************************************************)
LEMMA WholePrefix ==
    ASSUME NEW T, NEW pattern \in Seq(T), NEW text \in Seq(T), Len(text) <= Len(pattern)
    PROVE  IsPrefix(pattern, text) <=> text = pattern
<1>1. Len(text) \in Nat /\ Len(pattern) \in Nat
  OBVIOUS
<1>2. SubSeq(pattern, 1, Len(pattern)) = pattern /\ SubSeq(text, 1, Len(text)) = text
  BY SubSeqFull
<1>3. Len(pattern) <= Len(text) <=> Len(text) = Len(pattern)
  BY <1>1
<1> QED
  BY <1>2, <1>3 DEF IsPrefix

(***************************************************************************)
(* Short texts are texts, and the geometry is one.                         *)
(***************************************************************************)
LEMMA TextTypes ==
    ASSUME NEW T, NEW text \in Texts(T, 7)
    PROVE  text \in Seq(T) /\ Len(text) <= 7
<1>1. PICK m \in 0 .. 7 : text \in [1 .. m -> T]
  BY DEF Texts
<1> QED
  BY <1>1

LEMMA PatternType ==
    ASSUME NEW T, NEW a \in T, NEW b \in T, NEW c \in T, NEW d \in T
    PROVE  <<a, b, a, c, a, d, a>> \in Seq(T) /\ Len(<<a, b, a, c, a, d, a>>) = 7
OBVIOUS

(***************************************************************************)
(* So what the documentation says of short texts is right.                 *)
(***************************************************************************)
LEMMA SyntaxAsDocumented == ArgumentSyntax
<1>1. ASSUME NEW text \in Texts({"CARDINAL", Number, "(", ")", "=", " "}, 7)
      PROVE  setProperty(text) <=> NamesProperty(text)
  BY TextTypes, PropertySyntax, Zenon
<1>2. ASSUME NEW text \in Texts({Number, ",", ":", "x"}, 7)
      PROVE  writeGeometry(Append(text, "\n")) <=> text = GeometryPattern
  <2> DEFINE T == {Number, ",", ":", "x"}
  <2>1. T \cap Blanks = {}
    BY DEF Blanks, Number
  <2>2. Number \in T /\ "," \in T /\ ":" \in T /\ "x" \in T
    BY Zenon
  <2>3. text \in Texts(T, 7)
    BY <1>2
  <2> HIDE DEF T
  <2>4. GeometryPattern \in Seq(T) /\ Len(GeometryPattern) = 7
    BY <2>2, PatternType, Zenon DEF GeometryPattern
  <2>5. text \in Seq(T) /\ Len(text) <= Len(GeometryPattern)
    BY <2>3, <2>4, TextTypes, Zenon
  <2>6. text \in Seq(T \cup {"\n"}) /\ "\n" \in T \cup {"\n"}
    BY <2>5, SeqMonotonic, Zenon
  <2>7. Solids(text) = text
    BY <2>1, <2>5, AllSolid, Zenon
  <2>8. writeGeometry(Append(text, "\n")) <=> IsPrefix(GeometryPattern, Solids(text))
    BY <2>6, GeometrySyntax, Zenon
  <2>9. IsPrefix(GeometryPattern, text) <=> text = GeometryPattern
    BY <2>4, <2>5, WholePrefix, Zenon
  <2> QED
    BY <2>7, <2>8, <2>9, Zenon
<1> QED
  BY <1>1, <1>2 DEF ArgumentSyntax

(***************************************************************************)
(* WindowFileEntry::setProperty and writeGeometry, as the run checks them. *)
(***************************************************************************)
THEOREM ArgumentsCorrect == Spec => []ArgumentsParsed
<1>1. ArgumentsParsed
  BY SyntaxAsDocumented DEF ArgumentsParsed
<1> QED
  BY <1>1, PTL
=============================================================================
