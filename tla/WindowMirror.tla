---------------------------- MODULE WindowMirror ----------------------------
(***************************************************************************)
(* The `windows` directory as a mirror of the X server (Xwmfs::init,       *)
(* createFS and handleEvent, WindowsRootDir, WindowDirEntry).  The server  *)
(* changes at any time; xwmfs subscribes to events, asks for the state,    *)
(* and works off the queue of events, which is always behind the state it  *)
(* asks for.  One property file ("name"), the file "mapped" and the file   *)
(* "parent" stand for the files of a window: the first is fetched again on *)
(* every event, the others get their value from the event itself.          *)
(***************************************************************************)
EXTENDS Integers, Sequences, SequencesExt

CONSTANTS Windows,     \* window ids
          Names,       \* values of the name property
          None,
          Setups,      \* command lines and environments, see SetupType
          MaxQueue,    \* bound on the events not yet read
          MaxChanges   \* bound on the changes of the X server

(***************************************************************************)
(* The option --handle-pseudo-windows; whether the window manager puts     *)
(* windows into frames; whether the server uses the id of a dead window    *)
(* again.                                                                  *)
(***************************************************************************)
SetupType == [handle_pseudo : BOOLEAN, reparenting : BOOLEAN, recycling : BOOLEAN]

ASSUME WindowMirrorAssumption ==
    /\ None \notin Windows \cup Names
    /\ Setups \subseteq SetupType
    /\ {MaxQueue, MaxChanges} \subseteq Nat

VARIABLES
    setup,       \* one of Setups, for good
    x_win,       \* the X server's windows
    x_selected,  \* windows whose events xwmfs has asked for
    x_root,      \* xwmfs has asked for the events of the root's children
    used,        \* ids that have been used
    queue,       \* events not yet read by xwmfs
    changes,     \* number of changes so far
    started,     \* steps of the start-up that are done
    to_add,      \* windows createFS has still to add
    adding,      \* the window being added, and how far
    add_step,
    dir,         \* window directories: the contents of their files
    announced,   \* the name in the file at the last "name" event
    m_ignored_windows

server == <<x_win, x_selected, x_root, used, queue, changes>>
mirror == <<dir, announced, m_ignored_windows>>
thread == <<started, to_add, adding, add_step>>
vars   == <<setup, server, thread, mirror>>

Parents == {"root", "frame"}

(***************************************************************************)
(* The name property may be missing (None); its file then does not exist   *)
(* or is empty.                                                            *)
(***************************************************************************)
WindowState == [name : Names \cup {None}, mapped : BOOLEAN, parent : Parents,
                override : BOOLEAN]
FileState   == [name : Names \cup {"absent", "empty"}, mapped : BOOLEAN,
                parent : Parents]

EventType == [type : {"create", "destroy", "property", "map", "unmap"}
                     \cup {"to_root", "to_frame"},
              win : Windows, override : BOOLEAN]

\* No window and no directory is mistaken for none.
ASSUME StateAssumption == None \notin WindowState /\ None \notin FileState

TypeOK ==
    /\ setup \in Setups
    /\ x_win \in [Windows -> WindowState \cup {None}]
    /\ x_selected \subseteq Windows
    /\ x_root \in BOOLEAN
    /\ used \subseteq Windows
    /\ queue \in Seq(EventType)
    /\ changes \in Nat
    /\ started \in 0 .. 2
    /\ to_add \subseteq Windows
    /\ adding \in Windows \cup {None}
    /\ add_step \in 0 .. 1
    /\ dir \in [Windows -> FileState \cup {None}]
    /\ announced \in [Windows -> Names \cup {"absent", "empty"}]
    /\ m_ignored_windows \subseteq Windows
    /\ to_add # {} => x_root   \* the windows are asked for after the events

Exists(w) == x_win[w] # None
HasDir(w) == dir[w] # None
Exist     == {w \in Windows : Exists(w)}
Dirs      == {w \in Windows : HasDir(w)}

Init ==
    /\ setup \in Setups
    /\ x_win \in [Windows -> WindowState \cup {None}]
    /\ \A w \in Exist : x_win[w].parent = "frame" => setup.reparenting /\ ~x_win[w].override
    /\ x_selected = {}
    /\ x_root = FALSE
    /\ used = Exist
    /\ queue = <<>>
    /\ changes = 0
    /\ started = 0
    /\ to_add = {}
    /\ adding = None
    /\ add_step = 0
    /\ dir = [w \in Windows |-> None]
    /\ announced = [w \in Windows |-> "absent"]
    /\ m_ignored_windows = {}

-----------------------------------------------------------------------------
(* The X server and its other clients.                                     *)

Event(t, w) == [type |-> t, win |-> w,
                override |-> IF Exists(w) THEN x_win[w].override ELSE FALSE]

(***************************************************************************)
(* Structure events go to those who selected them on the window and to     *)
(* those who selected them on its parent; xwmfs may be both.               *)
(***************************************************************************)
Copies(event, w, is_root_child) ==
    (IF w \in x_selected THEN <<event>> ELSE <<>>)
        \o (IF x_root /\ is_root_child THEN <<event>> ELSE <<>>)

IsRootChild(w) == x_win[w].parent = "root"

ServerChange(events) ==
    /\ changes < MaxChanges
    /\ changes' = changes + 1
    /\ queue' = queue \o events
    /\ Len(queue') <= MaxQueue
    /\ UNCHANGED <<setup, x_root, thread, mirror>>

createWindow(w, override) ==
    /\ ~Exists(w)
    /\ setup.recycling \/ w \notin used
    /\ x_win' = [x_win EXCEPT ![w] = [name |-> None, mapped |-> FALSE,
                                      parent |-> "root", override |-> override]]
    /\ used' = used \cup {w}
    /\ ServerChange(Copies([type |-> "create", win |-> w, override |-> override],
                           w, TRUE))
    /\ UNCHANGED x_selected

destroyWindow(w) ==
    /\ Exists(w)
    /\ x_win' = [x_win EXCEPT ![w] = None]
    /\ x_selected' = x_selected \ {w}
    /\ ServerChange(Copies(Event("destroy", w), w, IsRootChild(w)))
    /\ UNCHANGED used

changeName(w, name) ==
    /\ Exists(w)
    /\ x_win[w].name # name
    /\ x_win' = [x_win EXCEPT ![w].name = name]
    /\ ServerChange(Copies(Event("property", w), w, FALSE))
    /\ UNCHANGED <<x_selected, used>>

mapWindow(w, mapped) ==
    /\ Exists(w)
    /\ x_win[w].mapped # mapped
    /\ x_win' = [x_win EXCEPT ![w].mapped = mapped]
    /\ ServerChange(Copies(Event(IF mapped THEN "map" ELSE "unmap", w), w,
                           IsRootChild(w)))
    /\ UNCHANGED <<x_selected, used>>

(***************************************************************************)
(* One of the two parents is the root, so the root's subscriber is told.   *)
(***************************************************************************)
reparentWindow(w, parent) ==
    /\ setup.reparenting
    /\ Exists(w)
    /\ ~x_win[w].override
    /\ x_win[w].parent # parent
    /\ x_win' = [x_win EXCEPT ![w].parent = parent]
    /\ ServerChange(Copies(Event(IF parent = "root" THEN "to_root" ELSE "to_frame", w),
                           w, TRUE))
    /\ UNCHANGED <<x_selected, used>>

xServer ==
    \E w \in Windows :
        \/ \E override \in BOOLEAN : createWindow(w, override)
        \/ destroyWindow(w)
        \/ \E name \in Names \cup {None} : changeName(w, name)
        \/ \E mapped \in BOOLEAN : mapWindow(w, mapped)
        \/ \E parent \in Parents : reparentWindow(w, parent)

-----------------------------------------------------------------------------
(* The files of a window directory.                                        *)

Fetched(w) == Exists(w) /\ x_win[w].name # None

(***************************************************************************)
(* addSpecEntry: without a value there is no file.                         *)
(***************************************************************************)
InitialName(w) == IF Fetched(w) THEN x_win[w].name ELSE "absent"

(***************************************************************************)
(* WindowDirEntry::update: the file is emptied before the value is asked   *)
(* for, and stays empty when there is none.                                *)
(***************************************************************************)
UpdatedName(w) ==
    IF dir[w].name = "absent" THEN InitialName(w)
    ELSE IF Fetched(w) THEN x_win[w].name ELSE "empty"

(***************************************************************************)
(* ... and the event is sent after that, unless the file has just been     *)
(* created: who reads the file on the event finds the new name.            *)
(***************************************************************************)
updateName(w) ==
    /\ dir' = [dir EXCEPT ![w].name = UpdatedName(w)]
    /\ announced' = IF dir[w].name = "absent" THEN announced
                    ELSE [announced EXCEPT ![w] = UpdatedName(w)]

(***************************************************************************)
(* The constructor asks for the map state at start-up only; for a window   *)
(* just created it relies on the events to come.                           *)
(***************************************************************************)
InitialMapped(w, initial) == initial /\ Exists(w) /\ x_win[w].mapped

InitialParent(w) == IF Exists(w) THEN x_win[w].parent ELSE "root"

(***************************************************************************)
(* addWindow after its subscriptions: a directory, or a refresh (updateAll)*)
(* of the property files of the one there is.                              *)
(***************************************************************************)
createDirectory(w, initial) ==
    IF HasDir(w) THEN updateName(w)
    ELSE /\ dir' = [dir EXCEPT ![w] = [name |-> InitialName(w),
                                       mapped |-> InitialMapped(w, initial),
                                       parent |-> InitialParent(w)]]
         /\ announced' = [announced EXCEPT ![w] = InitialName(w)]

(***************************************************************************)
(* A request for a window that is gone is an asynchronous X error, which   *)
(* is logged.                                                              *)
(***************************************************************************)
selectEvents(w) ==
    x_selected' = IF Exists(w) THEN x_selected \cup {w} ELSE x_selected

(***************************************************************************)
(* The order that the comment at WindowsRootDir.cxx:41-46 argues for.      *)
(***************************************************************************)
AddOrder_late == <<"create", "select">>

AddOrder == <<"select", "create">>

addWindow ==
    /\ adding # None
    /\ IF AddOrder[add_step + 1] = "select"
       THEN selectEvents(adding) /\ UNCHANGED <<dir, announced>>
       ELSE createDirectory(adding, to_add # {}) /\ UNCHANGED x_selected
    /\ add_step' = 1 - add_step
    /\ adding' = IF add_step = 1 THEN None ELSE adding
    /\ to_add' = IF add_step = 1 THEN to_add \ {adding} ELSE to_add
    /\ UNCHANGED <<setup, x_win, x_root, used, queue, changes, started, m_ignored_windows>>

-----------------------------------------------------------------------------
(* Start-up.                                                               *)

(***************************************************************************)
(* The window manager's client list holds what it manages, the query of    *)
(* the window tree finds everything.                                       *)
(***************************************************************************)
Managed(w) == Exists(w) /\ x_win[w].mapped /\ ~x_win[w].override

WindowList == IF setup.handle_pseudo THEN Exist ELSE {w \in Windows : Managed(w)}

StartOrder_late == <<"query", "select">>

StartOrder == <<"select", "query">>

startUp ==
    /\ started < 2
    /\ started' = started + 1
    /\ IF StartOrder[started + 1] = "select"
       THEN x_root' = TRUE /\ UNCHANGED to_add
       ELSE to_add' = WindowList /\ UNCHANGED x_root
    /\ UNCHANGED <<setup, x_win, x_selected, used, queue, changes, adding, add_step, mirror>>

addListedWindow ==
    /\ started = 2
    /\ adding = None
    /\ adding' \in to_add
    /\ UNCHANGED <<setup, server, mirror, started, to_add, add_step>>

-----------------------------------------------------------------------------
(* The event thread.                                                       *)

(***************************************************************************)
(* nextEvent takes the oldest event; each of the handlers below is the     *)
(* body of one case of handleEvent.                                        *)
(***************************************************************************)
NextEventIs(types) ==
    /\ started = 2 /\ to_add = {} /\ adding = None
    /\ queue # <<>>
    /\ Head(queue).type \in types
    /\ queue' = Tail(queue)
    /\ UNCHANGED <<setup, x_win, x_selected, x_root, used, changes, started, to_add,
                   add_step>>

(***************************************************************************)
(* The second test, for a parent other than the root, is left out: create  *)
(* events come to who has selected them on the parent, and xwmfs does so   *)
(* on the root only.                                                       *)
(***************************************************************************)
isPseudoWindow_always(event) == event.override

isPseudoWindow(event) == ~setup.handle_pseudo /\ event.override

handleCreateEvent ==
    /\ NextEventIs({"create"})
    /\ IF isPseudoWindow(Head(queue))
       THEN /\ m_ignored_windows' = m_ignored_windows \cup {Head(queue).win}
            /\ UNCHANGED adding
       ELSE adding' = Head(queue).win /\ UNCHANGED m_ignored_windows
    /\ UNCHANGED <<dir, announced>>

(***************************************************************************)
(* removeEntry throws when there is no directory, and the exception takes  *)
(* the code that would forget an ignored window along.                     *)
(***************************************************************************)
handleDestroyEvent ==
    /\ NextEventIs({"destroy"})
    /\ LET w == Head(queue).win IN
          IF HasDir(w)
          THEN /\ dir' = [dir EXCEPT ![w] = None]
               /\ announced' = [announced EXCEPT ![w] = "absent"]
               /\ m_ignored_windows' = m_ignored_windows \ {w}
          ELSE UNCHANGED mirror
    /\ UNCHANGED adding

updateProperty ==
    /\ NextEventIs({"property"})
    /\ IF HasDir(Head(queue).win) THEN updateName(Head(queue).win)
                                  ELSE UNCHANGED <<dir, announced>>
    /\ UNCHANGED <<adding, m_ignored_windows>>

isIgnored(w) == w \in m_ignored_windows

updateMappedState ==
    /\ NextEventIs({"map", "unmap"})
    /\ LET w == Head(queue).win IN
          IF HasDir(w) /\ ~isIgnored(w)
          THEN dir' = [dir EXCEPT ![w].mapped = (Head(queue).type = "map")]
          ELSE UNCHANGED dir
    /\ UNCHANGED <<adding, announced, m_ignored_windows>>

updateParent ==
    /\ NextEventIs({"to_root", "to_frame"})
    /\ LET w == Head(queue).win
           parent == IF Head(queue).type = "to_root" THEN "root" ELSE "frame"
       IN IF HasDir(w) THEN dir' = [dir EXCEPT ![w].parent = parent]
                       ELSE UNCHANGED dir
    /\ UNCHANGED <<adding, announced, m_ignored_windows>>

handleEvent == \/ handleCreateEvent
               \/ handleDestroyEvent
               \/ updateProperty
               \/ updateMappedState
               \/ updateParent

-----------------------------------------------------------------------------
Next == xServer \/ startUp \/ addListedWindow \/ addWindow \/ handleEvent

Spec == Init /\ [][Next]_vars

-----------------------------------------------------------------------------
(* Properties.  Events take time, so the mirror is compared with the       *)
(* server when no event is left to be read.                                *)

Quiet == started = 2 /\ to_add = {} /\ adding = None /\ queue = <<>>

(***************************************************************************)
(* Every directory stands for a living window: destroy events are not      *)
(* missed, not even those of windows that die while they are being added.  *)
(* With a reparenting window manager that does not hold: the events of a   *)
(* window in a frame that dies before it is subscribed to go to the frame. *)
(***************************************************************************)
NoZombies == Quiet /\ ~setup.reparenting => Dirs \subseteq Exist

(***************************************************************************)
(* So a directory may be left over when the id of such a window comes back.*)
(***************************************************************************)
NoLeftovers == ~(setup.reparenting /\ setup.recycling)

(***************************************************************************)
(* With --handle-pseudo-windows every window has its directory, however    *)
(* the start-up and the create events meet.  Without the option a window   *)
(* that the start-up finds unmanaged and that is managed later has none,   *)
(* and "secondary windows like popup windows are currently not handled"    *)
(* (xwmfs.asciidoc:65-66), not even under the id of a window that was,     *)
(* leftovers apart.                                                        *)
(***************************************************************************)
WindowsShown ==
    Quiet => IF setup.handle_pseudo
             THEN Exist \subseteq Dirs
             ELSE NoLeftovers => \A w \in Dirs \cap Exist : ~x_win[w].override

(***************************************************************************)
(* A window that is added refreshes the directory left over under its id;  *)
(* without the option it may be ignored instead.                           *)
(***************************************************************************)
Refreshed == setup.handle_pseudo \/ NoLeftovers

(***************************************************************************)
(* The race of WindowsRootDir.cxx:41-46 is avoided: the name in the file   *)
(* is the window's name, whenever it was set.                              *)
(***************************************************************************)
NameMirrored ==
    Quiet /\ Refreshed => \A w \in Dirs \cap Exist :
        IF x_win[w].name = None THEN dir[w].name \in {"absent", "empty"}
                                ELSE dir[w].name = x_win[w].name

(***************************************************************************)
(* "If the name of the window changes than an event named 'name' is        *)
(* produced" (xwmfs.asciidoc:98-99): a program that reads the name when    *)
(* the directory appears and on each event is not left with an old one.    *)
(* (The first name of a window that had none creates the file silently.)   *)
(***************************************************************************)
NamesFollowed ==
    Quiet /\ Refreshed => \A w \in Dirs \cap Exist :
        announced[w] = "absent" \/ announced[w] = IF x_win[w].name = None
                                                  THEN "empty" ELSE x_win[w].name

(***************************************************************************)
(* "A boolean value of 0 or 1 indicating whether this window is currently  *)
(* mapped" (xwmfs.asciidoc:104-106).                                       *)
(***************************************************************************)
MappedMirrored ==
    Quiet => \A w \in Dirs \cap Exist : dir[w].mapped = x_win[w].mapped

(***************************************************************************)
(* The file starts with 0 for a new window and relies on the map events to *)
(* come.  They do unless the window is ignored or was put into a frame     *)
(* before it was subscribed to.                                            *)
(***************************************************************************)
MappedUnframed ==
    setup.handle_pseudo /\ ~setup.reparenting => MappedMirrored

(***************************************************************************)
(* "parent" names the parent of the window, also when the query of a new   *)
(* directory overtakes older events that are still in the queue, as long   *)
(* as no directory is left over from an earlier window with the id.        *)
(***************************************************************************)
ParentMirrored ==
    Quiet /\ NoLeftovers =>
        \A w \in Dirs \cap Exist : dir[w].parent = x_win[w].parent

(***************************************************************************)
(* Together: a directory shows its window (WindowDirEntry.cxx:18-61 and    *)
(* the events that follow), each file as far as the setup allows.          *)
(***************************************************************************)
DirShowsWindow == NameMirrored /\ NamesFollowed /\ MappedUnframed /\ ParentMirrored
=============================================================================
