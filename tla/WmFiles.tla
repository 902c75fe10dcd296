------------------------------ MODULE WmFiles ------------------------------
(***************************************************************************)
(* The files of the `wm` directory, the writes to them and to the files of *)
(* a window, and the X connection that all threads share.  libX11 queues   *)
(* the events that arrive while some thread waits for a reply (x_queue);   *)
(* the event thread polls the connection itself (wire).  m_event_lock is   *)
(* taken by the event thread and, for some calls, by workers, which hold   *)
(* the read lock of the file system at that time.  What is done under the  *)
(* write lock is one action.                                               *)
(***************************************************************************)
EXTENDS Integers, Sequences, FiniteSets, Arguments

CONSTANTS Threads,    \* FUSE worker threads
          Files,      \* the files of wm that are looked at
          Values,     \* values of the window manager's properties
          None,       \* property not set, nobody
          MaxEvents,  \* bound on the events not yet handled
          MaxCalls    \* bound on the calls of users

Written == {"number_of_desktops", "active_desktop", "active_window"}
Kept    == {"show_desktop_mode", "name", "class"}

ASSUME WmFilesAssumption ==
    /\ Files \subseteq Written \cup Kept
    /\ Values \subseteq Nat \ {0}
    /\ {MaxEvents, MaxCalls} \subseteq Nat \ {0}
    /\ None \notin Values
    /\ None \notin Threads \cup {"event thread"}
    /\ "event thread" \notin Threads

VARIABLES
    x_prop,     \* the root window's properties
    requests,   \* requests the window manager has not answered
    wire,       \* events on the connection
    x_queue,    \* events libX11 has read, waiting to be fetched
    phase,      \* of Xwmfs::init
    cache,      \* WinManagerWindow: m_wm_num_desktops, ...
    file,       \* what the files show
    event_lock, \* owner of m_event_lock
    dir_lock,   \* owner of the mutex of a window's directory
    owners,     \* the lines of the file `owners`
    ev,         \* place of the event thread
    event,      \* the event it handles
    pc,         \* place of each worker
    call,       \* the file it writes and the text, or the line it is at
    result,     \* of its last call
    calls,      \* calls so far
    taken       \* events have left the wire while the event thread polls

x_server  == <<x_prop, requests>>
events    == <<wire, x_queue, taken>>
mirror    == <<cache, file, owners>>
ev_thread == <<ev, event>>
workers   == <<pc, call, result, calls>>
locks     == <<event_lock, dir_lock>>
vars == <<x_server, events, phase, mirror, locks, ev_thread, workers>>

Events  == Files \cup {"other"}
Results == {"OK", "INVALID_ARG", "OP_NOT_SUPPORTED", "NO_SYS"}

SelectionTypes == <<"PRIMARY", "CLIPBOARD">>

TypeOK ==
    /\ x_prop \in [Files -> Values \cup {None}]
    /\ requests \in Seq([file : Files, value : Values \cup {-1}])
    /\ {wire, x_queue} \subseteq Seq(Events)
    /\ phase \in {"init", "subscribed", "filled", "running"}
    /\ cache \in [Files -> Values \cup {None}]
    /\ file \in [Files -> Values \cup {-1, 0}]
    /\ owners \in Seq({"PRIMARY", "CLIPBOARD"})
    /\ event_lock \in Threads \cup {None, "event thread"}
    /\ dir_lock \in Threads \cup {None}
    /\ ev \in {"poll", "lock", "drain", "handle", "relock"}
    /\ event \in Events \cup {None}
    /\ pc \in [Threads -> {"idle", "write", "own events", "selection", "owners", "lines", "copy"}]
    /\ result \in [Threads -> Results \cup {None}]
    /\ calls \in 0..MaxCalls
    /\ taken \in BOOLEAN

Readers == {t \in Threads : pc[t] # "idle"}

MoveTo(t, place) == pc' = [pc EXCEPT ![t] = place]
Return(t, how)   == /\ MoveTo(t, "idle")
                    /\ result' = [result EXCEPT ![t] = how]
                    /\ call' = [call EXCEPT ![t] = None]

-----------------------------------------------------------------------------
(* The X server, and the window manager behind it.                         *)

Subscribed_late == phase = "running"

Subscribed == phase # "init"

Notify(e) ==
    /\ Len(wire) + Len(x_queue) < MaxEvents
    /\ wire' = IF Subscribed THEN Append(wire, e) ELSE wire
    /\ UNCHANGED <<x_queue, taken>>

(***************************************************************************)
(* The window manager sets or, with None, removes one of its properties;   *)
(* xwmfs does nothing on a removal (delProp).                              *)
(***************************************************************************)
setProp(f, v) ==
    /\ v # x_prop[f]
    /\ x_prop' = [x_prop EXCEPT ![f] = v]
    /\ Notify(IF v = None THEN "other" ELSE f)
    /\ UNCHANGED <<requests, phase, mirror, locks, ev_thread, workers>>

honourRequest ==
    /\ requests # <<>>
    /\ Head(requests).value \in Values
    /\ requests' = Tail(requests)
    /\ x_prop' = [x_prop EXCEPT ![Head(requests).file] = Head(requests).value]
    /\ Notify(Head(requests).file)
    /\ UNCHANGED <<phase, mirror, locks, ev_thread, workers>>

ignoreRequest ==
    /\ requests # <<>>
    /\ requests' = Tail(requests)
    /\ UNCHANGED <<x_prop, events, phase, mirror, locks, ev_thread, workers>>

(***************************************************************************)
(* While a thread waits for a reply it queues what else arrives.           *)
(***************************************************************************)
RoundTrip == /\ x_queue' = x_queue \o wire
             /\ wire' = <<>>
             /\ taken' = (taken \/ (ev = "poll" /\ wire # <<>>))

-----------------------------------------------------------------------------
(* WinManagerDirEntry and the values WinManagerWindow keeps.               *)

(***************************************************************************)
(* Only the values of Written are fetched again for an update.             *)
(***************************************************************************)
Fetched(f) == IF f \in Written THEN x_prop[f] ELSE cache[f]

(***************************************************************************)
(* What is written when the property is not set; number_of_desktops reads  *)
(* an empty optional, which holds the 0 of the last attempt to fetch it.   *)
(***************************************************************************)
Unset(f) == CASE f \in {"number_of_desktops", "active_window"} -> 0
              [] OTHER -> -1

Shown_raw(f, v) == v

Shown(f, v) == IF v = None THEN Unset(f) ELSE v

update(f) ==
    /\ cache' = [cache EXCEPT ![f] = Fetched(f)]
    /\ file' = [file EXCEPT ![f] = Shown(f, Fetched(f))]
    /\ UNCHANGED owners

Init ==
    /\ x_prop \in [Files -> Values \cup {None}]
    /\ requests = <<>>
    /\ wire = <<>>
    /\ x_queue = <<>>
    /\ phase = "init"
    /\ cache = x_prop
    /\ file = [f \in Files |-> -1]
    /\ owners = SelectionTypes
    /\ event_lock = None
    /\ dir_lock = None
    /\ ev = "poll"
    /\ event = None
    /\ pc = [t \in Threads |-> "idle"]
    /\ call = [t \in Threads |-> None]
    /\ result = [t \in Threads |-> None]
    /\ calls = 0
    /\ taken = FALSE

selectPropertyNotifyEvent ==
    /\ phase = "init"
    /\ phase' = "subscribed"
    /\ UNCHANGED <<x_server, events, mirror, locks, ev_thread, workers>>

createFS ==
    /\ phase = "subscribed"
    /\ phase' = "filled"
    /\ cache' = [f \in Files |-> Fetched(f)]
    /\ file' = [f \in Files |-> Shown(f, Fetched(f))]
    /\ RoundTrip
    /\ UNCHANGED owners
    /\ UNCHANGED <<x_server, locks, ev_thread, workers>>

(***************************************************************************)
(* The new selection window announces itself, so that the event thread,    *)
(* started next, does not begin with a silent connection.                  *)
(***************************************************************************)
createSelectionWindow ==
    /\ phase = "filled"
    /\ phase' = "running"
    /\ wire' = Append(wire, "other")
    /\ UNCHANGED <<x_server, x_queue, taken, mirror, locks, ev_thread, workers>>

-----------------------------------------------------------------------------
(* The event thread.                                                       *)

wakeUp ==
    /\ phase = "running"
    /\ ev = "poll"
    /\ wire # <<>>
    /\ ev' = "lock"
    /\ taken' = FALSE
    /\ UNCHANGED <<x_server, wire, x_queue, phase, mirror, locks, event, workers>>

lockEvents ==
    /\ ev \in {"lock", "relock"}
    /\ event_lock = None
    /\ event_lock' = "event thread"
    /\ ev' = "drain"
    /\ UNCHANGED <<x_server, events, phase, mirror, dir_lock, event, workers>>

(***************************************************************************)
(* The reverse guard gives the lock back while the event is handled.       *)
(***************************************************************************)
ReverseGuard_none == UNCHANGED event_lock

ReverseGuard == event_lock' = None

nextEvent ==
    LET pending == IF x_queue # <<>> THEN x_queue ELSE wire
    IN  /\ ev = "drain"
        /\ pending # <<>>
        /\ event' = Head(pending)
        /\ x_queue' = Tail(pending)
        /\ wire' = IF x_queue # <<>> THEN wire ELSE <<>>
        /\ ev' = "handle"
        /\ ReverseGuard
        /\ UNCHANGED <<x_server, taken, phase, mirror, dir_lock, workers>>

noPendingEvents ==
    /\ ev = "drain"
    /\ x_queue = <<>> /\ wire = <<>>
    /\ ev' = "poll"
    /\ event_lock' = None
    /\ UNCHANGED <<x_server, events, phase, mirror, dir_lock, event, workers>>

AfterEvent_poll == "poll"

AfterEvent == "relock"

(***************************************************************************)
(* An update is made under the write lock, which needs all workers gone.   *)
(* Of the other events those about a selection take no such lock. The      *)
(* fetch waits for a reply.                                                *)
(***************************************************************************)
handleEvent ==
    /\ ev = "handle"
    /\ event \in Files => Readers = {}
    /\ ev' = AfterEvent
    /\ event' = None
    /\ IF event \in Files THEN update(event) ELSE UNCHANGED mirror
    /\ RoundTrip
    /\ UNCHANGED <<x_server, phase, locks, workers>>

eventThreadStep == wakeUp \/ lockEvents \/ nextEvent \/ noPendingEvents \/ handleEvent

-----------------------------------------------------------------------------
(* Workers: xwmfs_write, and reads that ask the X server.                  *)

Begin(t) ==
    /\ phase = "running"
    /\ pc[t] = "idle"
    /\ calls < MaxCalls
    /\ calls' = calls + 1

WindowFiles == {"geometry", "properties", "other window file"}

(***************************************************************************)
(* Texts: numbers and one that is none for the files of wm; an accepted    *)
(* and a refused one for the files of a window.                            *)
(***************************************************************************)
Inputs(f) ==
    CASE f = "properties" -> {<<"PROP", "(", "STRING", ")", "=", "text", "\n">>, <<"PROP">>}
      [] f = "geometry"   -> {Append(GeometryPattern, "\n"), GeometryPattern}
      [] f = "other window file" -> {<<"delete">>, <<"text">>}
      [] OTHER            -> {<<v>> : v \in Values \cup {-1}} \cup {<<>>}

Accepted(f, text) == CASE f = "properties" -> writeProperties(text)
                       [] f = "geometry"   -> writeGeometry(text)
                       [] f = "other window file" -> text = <<"delete">>
                       [] OTHER            -> text # <<>>

(***************************************************************************)
(* The tests made before any mutex is taken: the offset and, for the files *)
(* of wm, that the text begins with a number.                              *)
(***************************************************************************)
beginWrite(t, f, text, offset) ==
    /\ Begin(t)
    /\ \/ /\ offset
          /\ Return(t, "OP_NOT_SUPPORTED")
       \/ /\ ~offset
          /\ f \notin WindowFiles /\ ~Accepted(f, text)
          /\ Return(t, "INVALID_ARG")
       \/ /\ ~offset
          /\ f \notin WindowFiles => Accepted(f, text)
          /\ MoveTo(t, "write")
          /\ call' = [call EXCEPT ![t] = [file |-> f, text |-> text]]
          /\ result' = [result EXCEPT ![t] = None]
    /\ UNCHANGED <<x_server, events, phase, mirror, locks, ev_thread>>

NotImplemented(f) == cache[f] = None

sendRequest(f, v) == requests' = Append(requests, [file |-> f, value |-> v])

(***************************************************************************)
(* callUpdateFunc: a request to the window manager, if the value was there *)
(* when it was last fetched. It is made under the mutex of wm, whose       *)
(* owners wait for no other lock, so that it is taken and given back       *)
(* within the step.                                                        *)
(***************************************************************************)
writeWmFile(t) ==
    LET f == call[t].file
        v == call[t].text[1]
    IN  /\ pc[t] = "write"
        /\ f \notin WindowFiles
        /\ IF f = "active_window" /\ v < 0
           THEN Return(t, "INVALID_ARG") /\ UNCHANGED requests
           ELSE IF NotImplemented(f)
           THEN Return(t, "NO_SYS") /\ UNCHANGED requests
           ELSE /\ Return(t, "OK")
                /\ sendRequest(f, v)
        /\ UNCHANGED <<x_prop, events, phase, mirror, locks, ev_thread, calls>>

(***************************************************************************)
(* WindowFileEntry::write.  The server may report what it changed.         *)
(***************************************************************************)
writeWindowFile(t) ==
    /\ pc[t] = "write"
    /\ call[t].file \in WindowFiles \ {"properties"}
    /\ dir_lock = None
    /\ \/ /\ Accepted(call[t].file, call[t].text)
          /\ Return(t, "OK")
          /\ Notify("other") \/ UNCHANGED events
       \/ /\ ~Accepted(call[t].file, call[t].text)
          /\ Return(t, "INVALID_ARG")
          /\ UNCHANGED events
    /\ UNCHANGED <<x_server, phase, mirror, locks, ev_thread, calls>>

lockProperties(t) ==
    /\ pc[t] = "write"
    /\ call[t].file = "properties"
    /\ dir_lock = None
    /\ dir_lock' = t
    /\ MoveTo(t, "own events")
    /\ UNCHANGED <<x_server, events, phase, mirror, event_lock, ev_thread, call, result,
                   calls>>

(***************************************************************************)
(* With the event lock: the name of a property has to be looked up.        *)
(***************************************************************************)
writePropertiesFile(t) ==
    /\ pc[t] = "own events"
    /\ event_lock = None
    /\ dir_lock' = None
    /\ \/ /\ Accepted("properties", call[t].text)
          /\ Return(t, "OK")
          /\ RoundTrip
       \/ /\ ~Accepted("properties", call[t].text)
          /\ Return(t, "INVALID_ARG")
          /\ UNCHANGED events
    /\ UNCHANGED <<x_server, phase, mirror, event_lock, ev_thread, calls>>

(***************************************************************************)
(* Reads of a selection and of `owners` ask the server for the owner, with *)
(* the event lock.                                                         *)
(***************************************************************************)
beginRead(t) ==
    /\ Begin(t)
    /\ MoveTo(t, "selection") \/ MoveTo(t, "owners")
    /\ result' = [result EXCEPT ![t] = None]
    /\ UNCHANGED <<x_server, events, phase, mirror, locks, ev_thread, call>>

getSelectionOwner(t) ==
    /\ pc[t] = "selection"
    /\ event_lock = None
    /\ Return(t, "OK")
    /\ RoundTrip
    /\ UNCHANGED <<x_server, phase, mirror, locks, ev_thread, calls>>

OwnersGuard_none(t) == UNCHANGED event_lock

OwnersGuard(t) == event_lock = None /\ event_lock' = t

(***************************************************************************)
(* updateOwners clears the text of `owners` ...                            *)
(***************************************************************************)
clearOwners(t) ==
    /\ pc[t] = "owners"
    /\ OwnersGuard(t)
    /\ owners' = <<>>
    /\ call' = [call EXCEPT ![t] = 1]
    /\ MoveTo(t, "lines")
    /\ UNCHANGED <<x_server, events, phase, cache, file, dir_lock, ev_thread, result, calls>>

(***************************************************************************)
(* ... and writes a line for each selection, after asking for its owner.   *)
(***************************************************************************)
addOwner(t) ==
    /\ pc[t] = "lines"
    /\ owners' = Append(owners, SelectionTypes[call[t]])
    /\ RoundTrip
    /\ IF call[t] < Len(SelectionTypes)
       THEN /\ call' = [call EXCEPT ![t] = @ + 1]
            /\ UNCHANGED <<pc, event_lock>>
       ELSE /\ call' = [call EXCEPT ![t] = None]
            /\ MoveTo(t, "copy")
            /\ event_lock' = None
    /\ UNCHANGED <<x_server, phase, cache, file, dir_lock, ev_thread, result, calls>>

(***************************************************************************)
(* The text is copied under another mutex, of the directory.               *)
(***************************************************************************)
copyOwners(t) ==
    /\ pc[t] = "copy"
    /\ Return(t, "OK")
    /\ UNCHANGED <<x_server, events, phase, mirror, locks, ev_thread, calls>>

workerStep(t) == \/ writeWmFile(t)
                 \/ writeWindowFile(t)
                 \/ lockProperties(t)
                 \/ writePropertiesFile(t)
                 \/ getSelectionOwner(t)
                 \/ clearOwners(t) \/ addOwner(t) \/ copyOwners(t)

Next == \/ \E f \in Files, v \in Values \cup {None} : setProp(f, v)
        \/ honourRequest
        \/ ignoreRequest
        \/ selectPropertyNotifyEvent
        \/ createFS
        \/ createSelectionWindow
        \/ eventThreadStep
        \/ \E t \in Threads :
              \/ \E f \in (Files \cap Written) \cup WindowFiles :
                    \E text \in Inputs(f), offset \in BOOLEAN : beginWrite(t, f, text, offset)
              \/ beginRead(t)
              \/ workerStep(t)

Spec == Init /\ [][Next]_vars

(***************************************************************************)
(* The event thread and the workers are scheduled and get the locks that   *)
(* become free again and again.  Users come only MaxCalls times: readers   *)
(* without end can keep a writer out for ever.                             *)
(***************************************************************************)
Fairness == /\ WF_vars(selectPropertyNotifyEvent)
            /\ WF_vars(createFS)
            /\ WF_vars(createSelectionWindow)
            /\ SF_vars(eventThreadStep)
            /\ \A t \in Threads : SF_vars(workerStep(t))

FairSpec == Spec /\ Fairness

-----------------------------------------------------------------------------
(* Properties.                                                             *)

(***************************************************************************)
(* "... probably better than the other way around: losing events for       *)
(* things we should have known" (Xwmfs.cxx:103-105): with all events       *)
(* handled the files that are fetched show what the window manager has     *)
(* set.                                                                    *)
(***************************************************************************)
FilesCurrent ==
    phase = "running" /\ ev = "poll" /\ wire = <<>> /\ x_queue = <<>>
    => \A f \in Files \cap Written : x_prop[f] # None => file[f] = x_prop[f]

(***************************************************************************)
(* "we might run into cross-locking issues, because other threads may hold *)
(* the FS lock and want our event lock" (Xwmfs.cxx:300-303): among the     *)
(* workers that keep the event thread out one can go on, unless the thread *)
(* is just taking an event from the queue.                                 *)
(***************************************************************************)
Waits(t) == \/ pc[t] \in {"own events", "selection", "owners"} /\ event_lock # None
            \/ pc[t] = "write" /\ call[t].file \in WindowFiles /\ dir_lock # None

LocksMove == Readers # {} => ev = "drain" \/ \E t \in Readers : ~Waits(t)

(***************************************************************************)
(* `owners` has one line for each selection (SelectionOwnerFile.cxx:43-58),*)
(* however many reads write it anew, except while one of them does: then a *)
(* read that is just copying the text may get less.                        *)
(***************************************************************************)
OwnersWhole == (\A t \in Threads : pc[t] # "lines") => owners = SelectionTypes

(***************************************************************************)
(* All short texts are parsed as documented, see ArgumentSyntax.  It does  *)
(* not depend on the state, so it is looked at before the start only.      *)
(***************************************************************************)
ArgumentsParsed == phase = "init" => ArgumentSyntax

(***************************************************************************)
(* "xwmfs is able to detect changes ... in an event based way" (README.md: *)
(* 222): a value that stays is shown in the end and stays shown, unless a  *)
(* worker has emptied the connection under the event thread's poll.        *)
(***************************************************************************)
ChangesShow ==
    \A f \in Files \cap Written, v \in Values :
        <>[](x_prop[f] = v /\ ~taken) => <>[](file[f] = v)
=============================================================================
