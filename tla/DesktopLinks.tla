---------------------------- MODULE DesktopLinks ----------------------------
(***************************************************************************)
(* The `desktops` directory (DesktopsRootDir): a directory per virtual     *)
(* desktop with a symlink per window assigned to it, and a map from        *)
(* windows to the directory object their link is in.  A window's own       *)
(* directory, `windows/<id>`, counts here only as the target of its link.  *)
(***************************************************************************)
EXTENDS Integers, Sequences

CONSTANTS Windows,
          None,
          MaxDesktops,
          Roaming,     \* windows that may move to another desktop, and
                       \* whose ids may appear again on another
          Loose,       \* windows that may be taken off their desktop: they
                       \* are withdrawn or shown on every desktop
          MaxQueue,    \* bound on the events not yet read
          MaxChanges   \* bound on the changes of the X server

ASSUME DesktopLinksAssumption ==
    /\ Loose \subseteq Roaming /\ Roaming \subseteq Windows
    /\ {MaxDesktops, MaxQueue, MaxChanges} \subseteq Nat \ {0}
    /\ None \notin -1 .. MaxDesktops
    /\ None \notin Windows

VARIABLES
    x_exist,      \* windows of the X server
    used,         \* ids that have been used
    x_desktop,    \* the desktop they are assigned to
    x_names,      \* length of _NET_DESKTOP_NAMES
    x_count,      \* _NET_NUMBER_OF_DESKTOPS
    selected,     \* windows whose property events xwmfs gets
    queue,        \* events not yet read
    changes,      \* number of changes of the X server so far
    started,      \* steps of createFS that are done
    m_names,      \* length of the list of names xwmfs has fetched
    windows,      \* windows that have a directory
    dirs,         \* number of desktop directories
    links,        \* symlinks in each of them
    m_window_desktop_dir_map

server   == <<x_exist, used, x_desktop, x_names, x_count, changes>>
desktops == <<dirs, links, m_window_desktop_dir_map>>
vars     == <<server, selected, queue, started, m_names, windows, desktops>>

Desktops == 0 .. MaxDesktops - 1

(***************************************************************************)
(* A window that is shown on every desktop: 0xFFFFFFFF, read as an int.    *)
(***************************************************************************)
EveryDesktop == -1

Events   == [type : {"create", "destroy", "desktop", "no desktop"}, win : Windows]
            \cup [type : {"names"}]

TypeOK ==
    /\ x_exist \subseteq used /\ used \subseteq Windows
    /\ x_desktop \in [Windows -> Desktops \cup {EveryDesktop, None}]
    /\ x_names \in 1 .. MaxDesktops
    /\ x_count \in 1 .. MaxDesktops
    /\ selected \subseteq x_exist
    /\ queue \in Seq(Events)
    /\ changes \in Nat
    /\ started \in 0 .. 3
    /\ m_names \in 0 .. MaxDesktops
    /\ windows \subseteq Windows
    /\ dirs \in 0 .. MaxDesktops
    /\ links \in [Desktops -> SUBSET Windows]
    /\ m_window_desktop_dir_map \in [Windows -> Desktops \cup {None}]
    /\ \A d \in Desktops : d >= dirs => links[d] = {}

Init ==
    /\ x_exist \in SUBSET Windows
    /\ x_names \in 1 .. MaxDesktops
    /\ x_count \in 1 .. MaxDesktops
    /\ x_desktop \in [Windows -> 0 .. x_count - 1 \cup {EveryDesktop, None}]
    /\ \A w \in Windows \ x_exist : x_desktop[w] = None
    /\ used = x_exist
    /\ selected = {}
    /\ queue = <<>>
    /\ changes = 0
    /\ started = 0
    /\ m_names = 0
    /\ windows = {}
    /\ dirs = 0
    /\ links = [d \in Desktops |-> {}]
    /\ m_window_desktop_dir_map = [w \in Windows |-> None]

-----------------------------------------------------------------------------
(* The X server and the window manager.  xwmfs has subscribed to the       *)
(* events of the root window.                                              *)

Change(events) ==
    /\ changes < MaxChanges
    /\ changes' = changes + 1
    /\ queue' = queue \o events
    /\ Len(queue') <= MaxQueue
    /\ UNCHANGED <<started, m_names, windows, desktops>>

createWindow(w) ==
    /\ w \notin x_exist
    /\ w \in Roaming \/ w \notin used
    /\ x_exist' = x_exist \cup {w}
    /\ used' = used \cup {w}
    /\ Change(<<[type |-> "create", win |-> w]>>)
    /\ UNCHANGED <<x_desktop, x_names, x_count, selected>>

destroyWindow(w) ==
    /\ w \in x_exist
    /\ x_exist' = x_exist \ {w}
    /\ x_desktop' = [x_desktop EXCEPT ![w] = None]
    /\ selected' = selected \ {w}
    /\ Change(<<[type |-> "destroy", win |-> w]>>)
    /\ UNCHANGED <<used, x_names, x_count>>

assignDesktop(w, d) ==
    /\ w \in x_exist
    /\ d < x_count
    /\ d # x_desktop[w]
    /\ x_desktop[w] # None => w \in IF d = EveryDesktop THEN Loose ELSE Roaming
    /\ x_desktop' = [x_desktop EXCEPT ![w] = d]
    /\ Change(IF w \in selected THEN <<[type |-> "desktop", win |-> w]>> ELSE <<>>)
    /\ UNCHANGED <<x_exist, used, x_names, x_count, selected>>

(***************************************************************************)
(* A window that is withdrawn loses the property.                          *)
(***************************************************************************)
deleteDesktop(w) ==
    /\ w \in Loose \cap x_exist
    /\ x_desktop[w] # None
    /\ x_desktop' = [x_desktop EXCEPT ![w] = None]
    /\ Change(IF w \in selected THEN <<[type |-> "no desktop", win |-> w]>> ELSE <<>>)
    /\ UNCHANGED <<x_exist, used, x_names, x_count, selected>>

(***************************************************************************)
(* A desktop goes only when no window is on it any more.  The number of    *)
(* desktops and the list of their names need not agree.                    *)
(***************************************************************************)
changeCount(n) ==
    /\ n # x_count
    /\ \A w \in x_exist : x_desktop[w] # None => x_desktop[w] < n
    /\ x_count' = n
    /\ Change(<<>>)
    /\ UNCHANGED <<x_exist, used, x_desktop, x_names, selected>>

changeNames(n) ==
    /\ n # x_names
    /\ x_names' = n
    /\ Change(<<[type |-> "names"]>>)
    /\ UNCHANGED <<x_exist, used, x_desktop, x_count, selected>>

xServer ==
    \/ \E w \in Windows : \/ createWindow(w)
                          \/ destroyWindow(w)
                          \/ \E d \in Desktops \cup {EveryDesktop} : assignDesktop(w, d)
                          \/ deleteDesktop(w)
    \/ \E n \in 1 .. MaxDesktops : changeCount(n) \/ changeNames(n)

-----------------------------------------------------------------------------
(* Changing the links.                                                     *)

Known(w) == m_window_desktop_dir_map[w] # None

Assigned(w) == w \in x_exist /\ x_desktop[w] # None

(***************************************************************************)
(* A link that is there already is an exception; the map keeps the entry   *)
(* it may have (std::map::insert).                                         *)
(***************************************************************************)
addWindowToDesktop(d, w) ==
    IF w \in links[d]
    THEN UNCHANGED desktops
    ELSE /\ links' = [links EXCEPT ![d] = @ \cup {w}]
         /\ m_window_desktop_dir_map' =
                IF Known(w) THEN m_window_desktop_dir_map
                            ELSE [m_window_desktop_dir_map EXCEPT ![w] = d]
         /\ UNCHANGED dirs

removeWindow(w) ==
    IF Known(w)
    THEN /\ links' = [links EXCEPT ![m_window_desktop_dir_map[w]] = @ \ {w}]
         /\ m_window_desktop_dir_map' = [m_window_desktop_dir_map EXCEPT ![w] = None]
         /\ UNCHANGED dirs
    ELSE UNCHANGED desktops

(***************************************************************************)
(* getDesktop throws when there is no value, getDesktopDir finds nothing   *)
(* for a desktop that has no directory yet, nor for EveryDesktop.          *)
(***************************************************************************)
handleWindowCreated_unchecked(w) ==
    IF Assigned(w) /\ x_desktop[w] >= 0
    THEN addWindowToDesktop(x_desktop[w], w)
    ELSE UNCHANGED desktops

handleWindowCreated(w) ==
    IF Assigned(w) /\ x_desktop[w] \in 0 .. dirs - 1
    THEN addWindowToDesktop(x_desktop[w], w)
    ELSE UNCHANGED desktops

(***************************************************************************)
(* The link is removed from the directory it was in and added to the same  *)
(* directory (line 139), so nothing has changed in the end; nothing has,   *)
(* either, when the window is shown on every desktop now.                  *)
(***************************************************************************)
firstAssignment_ignored(w) == UNCHANGED desktops

firstAssignment(w) == handleWindowCreated(w)

handleWindowDesktopChanged(w) ==
    IF Known(w) THEN UNCHANGED desktops ELSE firstAssignment(w)

(***************************************************************************)
(* Everything is built anew from the names fetched and the client list, of *)
(* which the windows without a desktop are passed over. A window manager   *)
(* assigns desktops to the windows on that list, so a window that has one  *)
(* is on it.                                                               *)
(***************************************************************************)
ClearedMap_forgotten(new_map) ==
    [w \in Windows |-> IF Known(w) THEN m_window_desktop_dir_map[w] ELSE new_map[w]]

ClearedMap(new_map) == new_map

OnDesktop(w, n) == Assigned(w) /\ x_desktop[w] \in 0 .. n - 1

handleDesktopsChanged(n) ==
    /\ dirs' = n
    /\ links' = [d \in Desktops |->
                   IF d < n THEN {w \in Windows : OnDesktop(w, n) /\ x_desktop[w] = d}
                            ELSE {}]
    /\ m_window_desktop_dir_map' =
           ClearedMap([w \in Windows |-> IF OnDesktop(w, n) THEN x_desktop[w] ELSE None])

-----------------------------------------------------------------------------
(* createFS: the wm directory fetches the names, then the window           *)
(* directories are made, then the desktop directories.                     *)

fetchDesktopNames ==
    /\ started = 0
    /\ started' = 1
    /\ m_names' = x_names
    /\ UNCHANGED <<server, selected, queue, windows, desktops>>

(***************************************************************************)
(* Every window that exists gets its directory, as with the option         *)
(* --handle-pseudo-windows; WindowMirror has both.                         *)
(***************************************************************************)
addWindows ==
    /\ started = 1
    /\ started' = 2
    /\ windows' = x_exist
    /\ selected' = x_exist
    /\ UNCHANGED <<server, queue, m_names, desktops>>

addDesktops ==
    /\ started = 2
    /\ started' = 3
    /\ handleDesktopsChanged(m_names)
    /\ UNCHANGED <<server, selected, queue, m_names, windows>>

createFS == fetchDesktopNames \/ addWindows \/ addDesktops

-----------------------------------------------------------------------------
(* The event thread.                                                       *)

NextEventIs(type) ==
    /\ started = 3
    /\ queue # <<>>
    /\ Head(queue).type = type
    /\ queue' = Tail(queue)
    /\ UNCHANGED <<server, started>>

handleCreateEvent ==
    /\ NextEventIs("create")
    /\ windows' = windows \cup {Head(queue).win}
    /\ selected' = selected \cup ({Head(queue).win} \cap x_exist)
    /\ handleWindowCreated(Head(queue).win)
    /\ UNCHANGED m_names

(***************************************************************************)
(* Without a window directory an exception skips the link.                 *)
(***************************************************************************)
handleDestroyEvent ==
    /\ NextEventIs("destroy")
    /\ windows' = windows \ {Head(queue).win}
    /\ IF Head(queue).win \in windows THEN removeWindow(Head(queue).win)
                                      ELSE UNCHANGED desktops
    /\ UNCHANGED <<selected, m_names>>

desktopProperty ==
    /\ NextEventIs("desktop")
    /\ handleWindowDesktopChanged(Head(queue).win)
    /\ UNCHANGED <<selected, m_names, windows>>

(***************************************************************************)
(* deleteProperty goes to the window's directory only: the link stays.     *)
(***************************************************************************)
deleteProperty ==
    /\ NextEventIs("no desktop")
    /\ UNCHANGED <<selected, m_names, windows, desktops>>

updateDesktopNames ==
    /\ NextEventIs("names")
    /\ m_names' = x_names
    /\ handleDesktopsChanged(x_names)
    /\ UNCHANGED <<selected, windows>>

handleEvent == \/ handleCreateEvent
               \/ handleDestroyEvent
               \/ desktopProperty
               \/ deleteProperty
               \/ updateDesktopNames

-----------------------------------------------------------------------------
Next == xServer \/ createFS \/ handleEvent

Spec == Init /\ [][Next]_vars

-----------------------------------------------------------------------------
(* Properties.                                                             *)

Quiet == started = 3 /\ queue = <<>>

(***************************************************************************)
(* The pointers in m_window_desktop_dir_map are those of directories that  *)
(* exist and hold the window's link, so that removeWindow neither follows  *)
(* a dangling pointer nor throws (DesktopsRootDir.cxx:75-85).              *)
(***************************************************************************)
MapSound ==
    \A w \in Windows : Known(w) => /\ m_window_desktop_dir_map[w] < dirs
                                   /\ w \in links[m_window_desktop_dir_map[w]]

(***************************************************************************)
(* A desktop directory holds "symlinks to the windows that are assigned to *)
(* this virtual desktop" (README.md:152-153).                              *)
(***************************************************************************)
LinksRightFor(S) ==
    Quiet => \A d \in 0 .. dirs - 1 :
                links[d] \cap S = {w \in S \cap x_exist : x_desktop[w] = d}

LinksRight == LinksRightFor(Windows)

(***************************************************************************)
(* It does for the windows that keep what they were assigned first, one    *)
(* desktop or all of them, whatever the others do; the race that the       *)
(* comment at DesktopsRootDir.cxx:106-108 speaks of is covered.            *)
(***************************************************************************)
SettledLinksRight == LinksRightFor(Windows \ Roaming)

(***************************************************************************)
(* The complete structure is rebuilt every time the desktop names change   *)
(* (DesktopsRootDir.cxx:38-39): there is a directory per name.             *)
(***************************************************************************)
NamesMirrored == Quiet => dirs = x_names /\ m_names = x_names

(***************************************************************************)
(* Together: the desktops and the settled windows on them are shown.       *)
(***************************************************************************)
DesktopsShown == NamesMirrored /\ SettledLinksRight
=============================================================================
