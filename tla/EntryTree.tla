----------------------------- MODULE EntryTree -----------------------------
(***************************************************************************)
(* The tree of entries (fuse/Entry, DirEntry, RootEntry) and the life of   *)
(* its objects: a root that is never deleted, window directories in it and *)
(* files in those, counted references from the directory, from open        *)
(* contexts and from children to their parent.  The event thread adds and  *)
(* removes under the write lock of the file system, FUSE workers look up,  *)
(* stat, open, read and release under its read lock, several at a time; a  *)
(* read of an event file gives the lock back while it waits.               *)
(***************************************************************************)
EXTENDS Integers, Sequences, FiniteSets, Functions

CONSTANTS Objs,        \* entry objects, each allocated at most once
          Handles,     \* open file descriptions
          Threads,     \* FUSE worker threads
          Root,        \* the root directory
          None,
          Windows,     \* names of window directories
          Files,       \* names of files in them
          EventFiles,  \* those whose reads wait
          Paths        \* paths that are looked up: sequences of names and "/"

Names == Windows \cup Files

ASSUME EntryTreeAssumption ==
    /\ Root \notin Objs
    /\ None \notin Objs \cup Names \cup Handles \cup {Root}
    /\ "/" \notin Names
    /\ Windows \cap Files = {}
    /\ EventFiles \subseteq Files
    /\ IsFiniteSet(Objs) /\ IsFiniteSet(Handles)
    /\ Paths \subseteq {path \in Seq(Names \cup {"/"}) : path # <<>> /\ path[1] = "/"}

VARIABLES
    life,        \* "unused", "live" or "freed" memory
    m_name,      \* Entry::m_name
    m_parent,    \* Entry::m_parent
    m_objs,      \* DirEntry::m_objs
    m_refcount,  \* Entry::m_refcount
    m_deleted,   \* Entry::m_deleted
    handle,      \* entry an open context belongs to
    pc, target,  \* what each worker does, and with which entry
    using,       \* and with which handle
    ev, ev_dir,  \* what the event thread does, and with which directory
    to_mark, to_delete   \* children still to be marked, and to be deleted

objects == <<life, m_name, m_parent, m_objs, m_refcount, m_deleted>>
workers == <<pc, target, using>>
evthr   == <<ev, ev_dir, to_mark, to_delete>>
vars    == <<objects, handle, workers, evthr>>

TypeOK ==
    /\ life \in [Objs -> {"unused", "live", "freed"}]
    /\ m_name \in [Objs -> Names \cup {None}]
    /\ m_parent \in [Objs -> Objs \cup {Root, None}]
    /\ m_objs \in [Objs \cup {Root} -> UNION {[names -> Objs] : names \in SUBSET Names}]
    /\ m_refcount \in [Objs -> Nat]
    /\ m_deleted \in [Objs -> BOOLEAN]
    /\ handle \in [Handles -> Objs \cup {None}]
    /\ pc \in [Threads -> {"idle", "found", "stat", "read", "blocked", "delete"}]
    /\ target \in [Threads -> Objs \cup {Root, None}]
    /\ using \in [Threads -> Handles \cup {None}]
    /\ ev \in {"idle", "update", "clear", "reap", "delete"}
    /\ ev_dir \in Objs \cup {None}
    /\ to_mark \subseteq Objs
    /\ to_delete \subseteq Objs

Init ==
    /\ life = [o \in Objs |-> "unused"]
    /\ m_name = [o \in Objs |-> None]
    /\ m_parent = [o \in Objs |-> None]
    /\ m_objs = [d \in Objs \cup {Root} |-> <<>>]
    /\ m_refcount = [o \in Objs |-> 1]
    /\ m_deleted = [o \in Objs |-> FALSE]
    /\ handle = [h \in Handles |-> None]
    /\ pc = [t \in Threads |-> "idle"]
    /\ target = [t \in Threads |-> None]
    /\ using = [t \in Threads |-> None]
    /\ ev = "idle"
    /\ ev_dir = None
    /\ to_mark = {}
    /\ to_delete = {}

Children(d) == Range(m_objs[d])

(***************************************************************************)
(* The lock of the file system: a worker holds it shared while it is busy, *)
(* except in a wait for events, the event thread exclusively.              *)
(***************************************************************************)
ReadLockFree == ev = "idle"

WriteLockFree_always == ev = "idle"

WriteLockFree == ev = "idle" /\ \A t \in Threads : pc[t] \in {"idle", "blocked"}

(***************************************************************************)
(* unref: --m_refcount == 0.                                               *)
(***************************************************************************)
LastRef(o) == m_refcount[o] = 1

-----------------------------------------------------------------------------
(* Path lookup.                                                            *)

IsDir(o) == o # Root => m_parent[o] = Root

getEntry(d, element) ==
    IF Len(element) = 1 /\ element[1] \in DOMAIN m_objs[d] THEN m_objs[d][element[1]]
                                                           ELSE None

tryCastDirEntry(o) == IF o # None /\ IsDir(o) THEN o ELSE None

(***************************************************************************)
(* find_first_of('/', start), counting from 0 as the code does; npos is    *)
(* past the end.                                                           *)
(***************************************************************************)
FindSlash(path, start) ==
    LET slashes == {i \in start..Len(path) - 1 : path[i + 1] = "/"}
    IN  IF slashes = {} THEN Len(path)
        ELSE CHOOSE i \in slashes : \A j \in slashes : i <= j

TrailingSlash_ignored(cur_dir) == Root

TrailingSlash(cur_dir) == cur_dir

(***************************************************************************)
(* The loop of findEntry: an element that another one follows has to be a  *)
(* directory, the last one may be anything, and a path that ends in a      *)
(* slash leads to the last directory, "/" to the one it starts from.  (The *)
(* code's second test for the last element, end + 1 = size of the element, *)
(* never holds.)                                                           *)
(***************************************************************************)
findEntry(path) ==
    LET npos == Len(path)
        look[start \in 1..npos] ==
            [cur_dir \in Objs \cup {Root} |->
                LET end   == FindSlash(path, start)
                    entry == getEntry(cur_dir, SubSeq(path, start + 1, end))
                    next  == tryCastDirEntry(entry)
                IN  IF start = npos THEN TrailingSlash(cur_dir)
                    ELSE IF end = npos THEN entry
                    ELSE IF next = None THEN None
                    ELSE look[end + 1][next]]
    IN  look[1][Root]

-----------------------------------------------------------------------------
(* The event thread.                                                       *)

Unused == {o \in Objs : life[o] = "unused"}

(***************************************************************************)
(* New objects, one for each name; which memory they get is all the same.  *)
(***************************************************************************)
New(names) == CHOOSE new \in Injection(names, Unused) : TRUE

(***************************************************************************)
(* Every child takes a reference to its parent (setParent).                *)
(***************************************************************************)
ParentRefs_none(files) == 0

ParentRefs(files) == Cardinality(files)

(***************************************************************************)
(* Objects for a directory w with these files.                             *)
(***************************************************************************)
Construct(w, files, new, parent) ==
    /\ ExistsInjection({w} \cup files, Unused)
    /\ life' = [o \in Objs |-> IF o \in Range(new) THEN "live" ELSE life[o]]
    /\ m_name' = [o \in Objs |-> IF \E n \in DOMAIN new : new[n] = o
                                 THEN CHOOSE n \in DOMAIN new : new[n] = o ELSE m_name[o]]
    /\ m_parent' = [o \in Objs |-> IF o = new[w] THEN parent
                                   ELSE IF \E n \in files : new[n] = o THEN new[w]
                                   ELSE m_parent[o]]
    /\ m_refcount' = [m_refcount EXCEPT ![new[w]] = 1 + ParentRefs(files)]

(***************************************************************************)
(* A new window directory, filled by its constructor with the files whose  *)
(* values the window has, is put into the root.  The references to the     *)
(* root are not counted: it stays.                                         *)
(***************************************************************************)
addWindow(w, files) ==
    LET new == New({w} \cup files)
    IN  /\ WriteLockFree
        /\ w \notin DOMAIN m_objs[Root]
        /\ Construct(w, files, new, Root)
        /\ m_objs' = [d \in Objs \cup {Root} |->
                          IF d = Root THEN [n \in DOMAIN m_objs[Root] \cup {w} |->
                                                IF n = w THEN new[w] ELSE m_objs[Root][n]]
                          ELSE IF d = new[w] THEN Restrict(new, files) ELSE m_objs[d]]
        /\ UNCHANGED <<m_deleted, handle, workers, evthr>>

(***************************************************************************)
(* The name is taken: the directory that has it is updated ...             *)
(***************************************************************************)
doubleAdd(w, files) ==
    LET new == New({w} \cup files)
    IN  /\ WriteLockFree
        /\ w \in DOMAIN m_objs[Root]
        /\ Construct(w, files, new, None)
        /\ m_objs' = [m_objs EXCEPT ![new[w]] = Restrict(new, files)]
        /\ ev' = "update"
        /\ ev_dir' = new[w]
        /\ UNCHANGED <<m_deleted, handle, workers, to_mark, to_delete>>

(***************************************************************************)
(* A property the window did not have before gets its file (addSpecEntry), *)
(* on its event or in an update of the whole directory.                    *)
(***************************************************************************)
addFile(d, n) ==
    LET new == New({n})
    IN  /\ WriteLockFree \/ (ev = "update" /\ m_name[ev_dir] = m_name[d])
        /\ d \in Children(Root)
        /\ n \in Files \ DOMAIN m_objs[d]
        /\ ExistsInjection({n}, Unused)
        /\ life' = [life EXCEPT ![new[n]] = "live"]
        /\ m_name' = [m_name EXCEPT ![new[n]] = n]
        /\ m_parent' = [m_parent EXCEPT ![new[n]] = d]
        /\ m_objs' = [m_objs EXCEPT ![d] = [k \in DOMAIN @ \cup {n} |->
                                                IF k = n THEN new[n] ELSE @[k]]]
        /\ m_refcount' = [m_refcount EXCEPT ![d] = @ + 1]
        /\ UNCHANGED <<m_deleted, handle, workers, evthr>>

(***************************************************************************)
(* ... and the duplicate destroyed, whose destructor begins with clear.    *)
(***************************************************************************)
deleteDuplicate ==
    /\ ev = "update"
    /\ ev' = "clear"
    /\ to_mark' = Children(ev_dir)
    /\ UNCHANGED <<objects, handle, workers, ev_dir, to_delete>>

(***************************************************************************)
(* removeEntry takes the directory out of the root and calls its           *)
(* markDeleted, which begins with clear.                                   *)
(***************************************************************************)
removeEntry(w) ==
    /\ WriteLockFree
    /\ w \in DOMAIN m_objs[Root]
    /\ m_objs' = [m_objs EXCEPT ![Root] = Restrict(@, DOMAIN @ \ {w})]
    /\ ev' = "clear"
    /\ ev_dir' = m_objs[Root][w]
    /\ to_mark' = Children(m_objs[Root][w])
    /\ UNCHANGED <<life, m_name, m_parent, m_refcount, m_deleted, handle, workers, to_delete>>

Marked(o) == m_deleted' = [m_deleted EXCEPT ![o] = TRUE]

(***************************************************************************)
(* clear marks the children one by one and collects those that nobody has  *)
(* open ...                                                                *)
(***************************************************************************)
markChild(c) ==
    /\ ev = "clear"
    /\ c \in to_mark
    /\ Marked(c)
    /\ m_refcount' = [m_refcount EXCEPT ![c] = @ - 1]
    /\ to_mark' = to_mark \ {c}
    /\ to_delete' = IF LastRef(c) THEN to_delete \cup {c} ELSE to_delete
    /\ UNCHANGED <<life, m_name, m_parent, m_objs, handle, workers, ev, ev_dir>>

(***************************************************************************)
(* ... empties the map of children and deletes what it collected.          *)
(***************************************************************************)
clearMap ==
    /\ ev = "clear"
    /\ to_mark = {}
    /\ m_objs' = [m_objs EXCEPT ![ev_dir] = <<>>]
    /\ ev' = "reap"
    /\ UNCHANGED <<life, m_name, m_parent, m_refcount, m_deleted, handle, workers, ev_dir,
                   to_mark, to_delete>>

(***************************************************************************)
(* The destructor of an entry: the memory goes, and the reference to the   *)
(* parent, unless that is the root.                                        *)
(***************************************************************************)
UnrefParent_forgotten(o) == UNCHANGED m_refcount

UnrefParent(o) ==
    m_refcount' = IF m_parent[o] \in {Root, None} THEN m_refcount
                  ELSE [m_refcount EXCEPT ![m_parent[o]] = @ - 1]

Destroy(o) == /\ life' = [life EXCEPT ![o] = "freed"]
              /\ UnrefParent(o)

deleteChild(c) ==
    /\ ev = "reap"
    /\ c \in to_delete
    /\ Destroy(c)
    /\ to_delete' = to_delete \ {c}
    /\ UNCHANGED <<m_name, m_parent, m_objs, m_deleted, handle, workers, ev, ev_dir, to_mark>>

(***************************************************************************)
(* Entry::markDeleted for the directory itself; it goes right away if no   *)
(* child that is still open refers to it.                                  *)
(***************************************************************************)
markDirectory ==
    /\ ev = "reap"
    /\ to_delete = {}
    /\ m_parent[ev_dir] = Root
    /\ Marked(ev_dir)
    /\ m_refcount' = [m_refcount EXCEPT ![ev_dir] = @ - 1]
    /\ IF LastRef(ev_dir) THEN ev' = "delete" /\ UNCHANGED ev_dir
                          ELSE ev' = "idle" /\ ev_dir' = None
    /\ UNCHANGED <<life, m_name, m_parent, m_objs, handle, workers, to_mark, to_delete>>

(***************************************************************************)
(* The duplicate is not marked, its destructor is running already.         *)
(***************************************************************************)
deleteDirectory ==
    /\ \/ ev = "delete"
       \/ ev = "reap" /\ to_delete = {} /\ m_parent[ev_dir] = None
    /\ Destroy(ev_dir)
    /\ ev' = "idle"
    /\ ev_dir' = None
    /\ UNCHANGED <<m_name, m_parent, m_objs, m_deleted, handle, workers, to_mark, to_delete>>

-----------------------------------------------------------------------------
(* FUSE workers.                                                           *)

Continue(t, place, o, h) == /\ pc' = [pc EXCEPT ![t] = place]
                            /\ target' = [target EXCEPT ![t] = o]
                            /\ using' = [using EXCEPT ![t] = h]

GoIdle(t) == Continue(t, "idle", None, None)

(***************************************************************************)
(* Calls with a path: the lookup; if there is nothing the call is over.    *)
(***************************************************************************)
lookUp(t, path) ==
    /\ ReadLockFree
    /\ pc[t] = "idle"
    /\ findEntry(path) # None
    /\ Continue(t, "found", findEntry(path), None)
    /\ UNCHANGED <<objects, handle, evthr>>

(***************************************************************************)
(* Given an open context xwmfs_getattr takes the entry from there and does *)
(* not ask whether the operation is allowed.                               *)
(***************************************************************************)
statHandle(t, h) ==
    /\ ReadLockFree
    /\ pc[t] = "idle"
    /\ handle[h] # None
    /\ Continue(t, "stat", handle[h], h)
    /\ UNCHANGED <<objects, handle, evthr>>

(***************************************************************************)
(* xwmfs_getattr looks at the entry and takes the mutex of its directory,  *)
(* xwmfs_readdir looks at the children, too.                               *)
(***************************************************************************)
getStat(t) ==
    /\ pc[t] \in {"found", "stat"}
    /\ GoIdle(t)
    /\ UNCHANGED <<objects, handle, evthr>>

readdir(t) ==
    /\ pc[t] = "found"
    /\ IsDir(target[t])
    /\ GoIdle(t)
    /\ UNCHANGED <<objects, handle, evthr>>

ContextRef_forgotten(o) == UNCHANGED m_refcount

ContextRef(o) == m_refcount' = [m_refcount EXCEPT ![o] = @ + 1]

(***************************************************************************)
(* xwmfs_open, which the kernel calls for files only.                      *)
(***************************************************************************)
createOpenContext(t, h) ==
    /\ pc[t] = "found"
    /\ ~IsDir(target[t])
    /\ handle[h] = None
    /\ handle' = [handle EXCEPT ![h] = target[t]]
    /\ ContextRef(target[t])
    /\ GoIdle(t)
    /\ UNCHANGED <<life, m_name, m_parent, m_objs, m_deleted, evthr>>

(***************************************************************************)
(* Operations on a deleted entry are refused with ENXIO, but not for an    *)
(* event file, whose readers still get the events that are queued.         *)
(***************************************************************************)
isOperationAllowed_always(o) == TRUE

isOperationAllowed(o) == m_name[o] \in EventFiles \/ ~m_deleted[o]

(***************************************************************************)
(* xwmfs_read and xwmfs_write find the entry in the open context.          *)
(***************************************************************************)
beginOperation(t, h) ==
    /\ ReadLockFree
    /\ pc[t] = "idle"
    /\ handle[h] # None
    /\ isOperationAllowed(handle[h])
    /\ Continue(t, "read", handle[h], h)
    /\ UNCHANGED <<objects, handle, evthr>>

(***************************************************************************)
(* EventFile::readEvent waits without the lock and takes it again.         *)
(***************************************************************************)
readEvent(t) ==
    /\ \/ /\ pc[t] = "read"
          /\ m_name[target[t]] \in EventFiles
          /\ pc' = [pc EXCEPT ![t] = "blocked"]
       \/ /\ pc[t] = "blocked"
          /\ ReadLockFree
          /\ pc' = [pc EXCEPT ![t] = "read"]
    /\ UNCHANGED <<objects, handle, target, using, evthr>>

endOperation(t) ==
    /\ pc[t] = "read"
    /\ GoIdle(t)
    /\ UNCHANGED <<objects, handle, evthr>>

DeleteOrGoIdle(t, o, dies) == IF dies THEN Continue(t, "delete", o, None) ELSE GoIdle(t)

(***************************************************************************)
(* xwmfs_release, when no operation uses the handle any more: whoever      *)
(* drops the last reference deletes the entry ...                          *)
(***************************************************************************)
destroyOpenContext(t, h) ==
    /\ ReadLockFree
    /\ pc[t] = "idle"
    /\ handle[h] # None
    /\ \A other \in Threads : using[other] # h
    /\ handle' = [handle EXCEPT ![h] = None]
    /\ m_refcount' = [m_refcount EXCEPT ![handle[h]] = @ - 1]
    /\ DeleteOrGoIdle(t, handle[h], LastRef(handle[h]))
    /\ UNCHANGED <<life, m_name, m_parent, m_objs, m_deleted, evthr>>

(***************************************************************************)
(* ... and its parent if that was the last reference to it.                *)
(***************************************************************************)
deleteEntry(t) ==
    /\ pc[t] = "delete"
    /\ Destroy(target[t])
    /\ DeleteOrGoIdle(t, m_parent[target[t]],
                      m_parent[target[t]] # Root /\ LastRef(m_parent[target[t]]))
    /\ UNCHANGED <<m_name, m_parent, m_objs, m_deleted, handle, evthr>>

-----------------------------------------------------------------------------
removalStep == \/ \E c \in Objs : markChild(c) \/ deleteChild(c)
               \/ clearMap
               \/ markDirectory
               \/ deleteDirectory

Next ==
    \/ \E w \in Windows : \/ \E files \in SUBSET Files : addWindow(w, files) \/ doubleAdd(w, files)
                          \/ removeEntry(w)
    \/ \E d \in Objs, n \in Files : addFile(d, n)
    \/ deleteDuplicate
    \/ removalStep
    \/ \E t \in Threads : \/ \E path \in Paths : lookUp(t, path)
                          \/ getStat(t) \/ readdir(t)
                          \/ \E h \in Handles : \/ createOpenContext(t, h)
                                                \/ statHandle(t, h)
                                                \/ beginOperation(t, h)
                                                \/ destroyOpenContext(t, h)
                          \/ readEvent(t)
                          \/ endOperation(t)
                          \/ deleteEntry(t)

Spec == Init /\ [][Next]_vars

(***************************************************************************)
(* A removal that began goes on, and so does a deletion.                   *)
(***************************************************************************)
Fairness == /\ WF_vars(removalStep)
            /\ \A t \in Threads : WF_vars(deleteEntry(t))

FairSpec == Spec /\ Fairness

-----------------------------------------------------------------------------
(* Properties.                                                             *)

Live(o) == o = Root \/ (o \in Objs /\ life[o] = "live")

HandlesOf(o)  == {h \in Handles : handle[h] = o}
ChildrenOf(o) == {c \in Objs : life[c] = "live" /\ m_parent[c] = o}

(***************************************************************************)
(* Nothing that somebody may touch has been freed: the entry of an open    *)
(* handle and the directory whose mutex a read of it takes, what is linked *)
(* in the tree, what a worker or the event thread works on, waits for or   *)
(* is about to delete.                                                     *)
(***************************************************************************)
NoUseAfterFree ==
    /\ \A h \in Handles : handle[h] # None =>
          Live(handle[h]) /\ Live(m_parent[handle[h]])
    /\ \A d \in Children(Root) : Live(d) /\ \A f \in Children(d) : Live(f)
    /\ \A t \in Threads : pc[t] # "idle" =>
          /\ Live(target[t])
          /\ target[t] # Root => Live(m_parent[target[t]])
    /\ \A o \in to_mark \cup to_delete : Live(o)
    /\ ev # "idle" => Live(ev_dir)

(***************************************************************************)
(* The count is what it stands for (Entry.hxx:270-287): one reference of   *)
(* the directory that holds the entry until it is marked, one per open     *)
(* context and one per living child.                                       *)
(***************************************************************************)
RefcountExact ==
    \A o \in Objs : life[o] = "live" =>
        m_refcount[o] = (IF m_deleted[o] THEN 0 ELSE 1)
                        + Cardinality(HandlesOf(o)) + Cardinality(ChildrenOf(o))

(***************************************************************************)
(* Whoever has the lock sees a tree in which the living entries are those  *)
(* that are linked or marked as deleted, and an operation that was allowed *)
(* works on a linked entry to its end.  Two kinds of operations may work   *)
(* on a removed one: a read of events, which the removal may overtake      *)
(* (isOperationAllowed, Entry.cxx:87-98), and a stat through a handle,     *)
(* which nobody allows (xwmfs_fuse_ops_impl.cxx:56-58).                    *)
(***************************************************************************)
Linked(o) == o = Root \/ o \in Children(Root) \/ \E d \in Children(Root) : o \in Children(d)

LinkedOrDeleted ==
    /\ ev = "idle" => \A o \in Objs : life[o] = "live" => (Linked(o) <=> ~m_deleted[o])
    /\ \A t \in Threads :
          pc[t] = "found" \/ (pc[t] = "read" /\ m_name[target[t]] \notin EventFiles)
          => Linked(target[t])

(***************************************************************************)
(* The lookup finds an entry by its own path and a directory also with a   *)
(* slash after it, in every tree, and nothing by any other path.           *)
(***************************************************************************)
PathsOf(o) ==
    LET names == IF o = Root THEN <<>>
                 ELSE IF m_parent[o] = Root THEN <<"/", m_name[o]>>
                 ELSE <<"/", m_name[m_parent[o]], "/", m_name[o]>>
    IN  (IF o = Root THEN {} ELSE {names}) \cup (IF IsDir(o) THEN {Append(names, "/")} ELSE {})

LookupRight ==
    ev = "idle" /\ (\A t \in Threads : pc[t] \in {"idle", "blocked"}) =>
        \A path \in Paths :
            LET found == findEntry(path)
            IN  IF found # None THEN Linked(found) /\ path \in PathsOf(found)
                ELSE \A o \in Objs \cup {Root} : Linked(o) => path \notin PathsOf(o)

(***************************************************************************)
(* An entry that was removed and that nobody has open is freed, and a      *)
(* directory with its last open file.                                      *)
(***************************************************************************)
Abandoned(o) == /\ m_deleted[o]
                /\ HandlesOf(o) = {}
                /\ \A c \in ChildrenOf(o) : HandlesOf(c) = {}

AbandonedIsFreed == \A o \in Objs : Abandoned(o) ~> life[o] = "freed"
=============================================================================
