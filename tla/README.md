# Verification of xwmfs

xwmfs shows the windows of an X server, the window manager's properties, the
virtual desktops and the selection buffers as a file system. It is a small
program with an unusual amount of concurrency: libfuse serves requests in a
pool of worker threads, an event thread changes the tree underneath them, reads
of `events` files and of selections block, signals abort them, and behind all
of it stands an X server that moves on while it is being asked.

This directory holds TLA+ models of those parts, what TLC checks of them, and
proofs that TLAPS checks, about the `events` files and the programs that follow
them, blocking calls, the tree of entries, the windows and desktops directories,
the selection files and the wm directory. `PROJECT.json` lists the components,
the runs, the mutants that show that each property can fail, the lines of code
each definition stands for, the hazards and the findings.

## 1. Inventory

| Component | State | Operations | Correct means |
|---|---|---|---|
| Event files (`fuse/EventFile`) | queue of events with ids, cursor per open context, non-blocking flag | `addEvent`, `read`/`readEvent`, `nextEvent`, open, release, mark deleted | every reader gets the events in order, without duplicates, gaps only by the backlog; nobody sleeps through anything |
| Blocking calls (`fuse/AbortHandler`, `main/Xwmfs`) | set of aborted threads per file, registry thread → file, shutdown flag, abort pipe | signal handler, `readAbortPipe`, `abortBlockingCall`, `abortAllBlockingCalls`, register, unregister | an abort reaches the blocked call, a shutdown leaves nobody blocked, no deadlock |
| Entries (`fuse/Entry`, `fuse/DirEntry`) | tree of objects, parent pointers, reference counts, deleted flag | add, `removeEntry`, `clear`, open, release, `delete` | nothing is used after it was freed, freed twice or never freed |
| Windows directory (`main/WindowsRootDir`, `main/WindowDirEntry`) | directory per window, its files, `m_ignored_windows` | create, destroy, property, map, reparent and configure events, initial population | once the events are read the tree shows what the server holds |
| Start-up and dispatch (`main/Xwmfs`) | event subscriptions, order of `createFS` | `init`, `createFS`, `handleEvent` | nothing is lost between subscription and query |
| Desktops directory (`main/DesktopsRootDir`) | directory per desktop, symlink per window, map window → directory pointer | rebuild, window created, destroyed, moved | links match the windows' desktops, pointers in the map are alive |
| Selection files (`main/SelectionAccessFile`, `main/SelectionDirEntry`) | flag and outcome of the conversion, content, cached owner | read with a conversion, write, answer to other clients | a read returns the selection, what was written is served |
| wm directory (`main/WinManagerDirEntry`, `x11/WinManagerWindow`) | texts of the root window's properties, cached values | `createFS`, `update`, `delProp` | files show the current values and each change is announced |
| Writes (`main/WindowFileEntry`, `main/WinManagerFileEntry`) | none | parse an argument, send a request | the right request or the right error, no lock taken the wrong way round |
| X connection (`main/Xwmfs`) | events on the socket, events in libX11's queue, event lock | `eventThread`, `handlePendingEvents`, queries of workers | every event is handled, nobody waits in a circle |
| FUSE operations, path lookup (`fuse/xwmfs_fuse_ops_impl`, `fuse/RootEntry`) | file system lock | getattr, readdir, open, release, read, readlink, write | every access under the read lock, results and error codes right |

How they interact. The event thread is the only one that changes the tree; it
holds the write lock of the file system while it handles an X event. Workers
hold its read lock, except that reads that may block give it back
(`FileSysRevReadGuard`) and keep only the mutex of their directory. `addEvent`
is called by the handlers of window and wm directories; it takes the mutex of
the directory and broadcasts the file's condition variable. Signal handlers
write to a pipe which the event thread polls beside the X connection; it then
takes the registry's mutex and, under it, the directory's. Selection answers
reach the reader through `SelectionDirEntry::conversionResult`, again by a
condition variable on the directory's mutex. A change of the desktop names
calls from the wm directory into the desktops directory.

What is hard: the check-then-sleep of blocking reads against four kinds of
wake-up; aborts that arrive before, during or after the call they mean; the
order of locks; the last close against the removal of a directory; queries and
events that describe different moments; window ids that come back; conversions
that overlap. Section 6 says which of these go wrong.

## 2. Plan

| Module | Models | State |
|---|---|---|
| `EventStream` | abstract: what an events file promises | done |
| `EventFile` | events file, its readers, aborts; refines `EventStream` | done |
| `Follower` | `EventFile` composed with a file that its events report on, and a program that follows them | done |
| `EventFileProof` | proofs about `EventFile` | done |
| `BlockingCalls` | the mutexes around blocking reads, several files | done |
| `EntryTree` | entries, names and path lookup, reference counts, open contexts, the calls that use them | done |
| `WindowMirror` | X server, event queue, windows directory, start-up | done |
| `DesktopLinks` | desktops directory beside the same kind of server | done |
| `Selection` | selection files | done |
| `Arguments`, `WmFiles` | parsing of what is written; wm directory, writes, event lock and event loop | done |
| `FollowerProof`, `BlockingCallsProof`, `DesktopLinksProof`, `WmFilesProof`, `SelectionProof`, `WindowMirrorProof`, `EntryTreeProof` | proofs about these modules | done |

`EventFile` comes first because everything else in xwmfs is a text that the
next event corrects, while a reader that is not woken is stuck. Modules are
tied together by shared abstractions, not by one big composition: `EventFile`
has one file, its queue, and the steps of an abort on the two mutexes;
`Follower` puts a file beside it and the write lock around both;
`BlockingCalls` has several files and signal handlers that wait for room in the
pipe, but reduces the queue to "there is an event the reader has not seen";
`Selection` has the same steps on the mutexes for the second kind of blocking
read; `WmFiles` has the event loop and
its lock, of which the others only see one handler after the other. `EntryTree`
has the counts of which `EventFile` has its own file's share.

Proofs use no RECURSIVE operator; all modules are written with one action per
operation and named invariants so that later proofs can go action by action.

## 3. The modules and the code

**EventStream / EventFile.** A handle is an `EventOpenContext`, `cur_id` its
cursor, `m_event_queue` the deque of (text, id), `INVALID` the id that stands
for "none yet" and the modulus of the wraparound. `addEvent`,
`addDestroyedEvent`, `broadcast` and `markDeleted` are the event thread inside a
handler (push under the mutex, broadcast after it is released); `read`,
`readEvent`, `replyRead` are `xwmfs_read` and the loop of `readEvent`. A reader
goes enter → turn of the loop → register → wait → woken → unregister → turn of
the loop, where register and unregister stand for "holds the directory's mutex
and wants the registry's", and leaves from a turn of the loop or when it may not
register. The event thread holds the registry's mutex from `readAbortPipe` to
`finishAbort` and takes the directory's for each `recordAbort`, which is where
the two orders meet (`DirectoryFree`, `RegistryFree`). The registry's mutex is
never kept beyond an action by a reader, nor the directory's by the event
thread, so the places of the threads say who has which. `nextEvent` is
translated branch by branch, including the linear search and the index
arithmetic; `Garbage` is what indexing past the deque or the exception would
give. The ghost variables `published`, `last`, `ended` number the events and
give the refinement: `Stream == INSTANCE EventStream WITH closed <- m_deleted,
followers <- opened, cursor <- last`.

**Follower.** Extends `EventFile` by `content`, the number of changes a file has
shown, and by what a program knows that reads the file again after each event.
`update` changes the file and then calls `addEvent`, `newParent` does it the
other way round (`due` is the change still to come), `addSpecEntry` is the first
value, which is not announced. `Unlocked` says that the event thread has given
the write lock back.

**BlockingCalls.** One action per acquisition or release of a mutex that others
compete for. A worker goes lock → check → register → registering → wait →
relock → unregister → unregistering → check, and holds the registry's mutex in
the places that end in "ing"; the event thread goes lookup (takes the registry's
mutex) → for each call: record the abort (needs the directory's mutex),
broadcast → finish. `signalThread` stops a worker at any step, inside a critical
section too, until its handler has written to the pipe (`writeAbortMsg`), which
it cannot while the pipe is full. `None` is no owner. `Fairness` is strong
because mutexes have no queue here.

**EntryTree.** `life` tells unused, live and freed memory apart, so a use after
free is a state. `addWindow`, `addFile`, `removeEntry` and the steps of
`clear()` (mark each child, clear the map, delete what lost its last reference)
run under the write lock; so does the second addition of a window (`doubleAdd`),
which builds a directory, finds the name taken, updates the one that is there
(`addFile`) and destroys its own (`deleteDuplicate` and the steps of `clear()`).
Workers are under the read lock: `lookUp` with `findEntry`, a translation of the
loop in `RootEntry::findEntry` over a path as a sequence of names and slashes,
then `getStat`, `readdir` or `createOpenContext`; `statHandle` is the stat of an
open file, which takes the entry from its context and asks nobody;
`beginOperation` to `endOperation` is a read or write through an open context,
`readEvent` the wait without the lock; `destroyOpenContext` is release and
`deleteEntry` the `delete this` after the last reference, which goes on to the
parent. `Root` stands for `windows`; the level above it, which never changes, is
left out.

**WindowMirror.** The X server is the external half: `x_win` its windows,
`queue` the events it has sent to xwmfs. A change appends an event for each
subscription it concerns, on the window itself or on its parent. The other half
is `init` (subscribe to the root, query the list), `addWindow` in its two steps
(subscribe, then create the directory from what the server then holds) and a
handler per event type. Three files stand for all: `name` for those that are
fetched again at each event, `mapped` and `parent` for those whose value comes
with the event.

**DesktopLinks.** The same server with desktops instead of names; `links` are
the symlinks, `m_window_desktop_dir_map` the map of directory pointers, a
pointer being the number of the desktop. `clear()` followed by the rebuild is
one action because it runs under the write lock; the queries inside a handler
see one state of the server. `Roaming` windows move, `Loose` ones are also
withdrawn from their desktop (`deleteDesktop`) or shown on all of them
(`EveryDesktop`, 0xFFFFFFFF).

**Selection.** `x_owner`, `asked`, `x_property`, `events` are the X server and
the other clients; `requestConversion` runs from the reset of the flag to the
first test of it; the loop around the wait has the places register, wait, woken
and unregister of `EventFile`, and `abort`, `recordAbort`, `broadcast`,
`finishAbort` are the event thread's side (`LockFree` is the directory's mutex);
`takeResult` and `fillContent` are `str("")` and `<<`; `makeSelectionOwner`,
`clearContent`, `storeContent` are the three steps of `write()`, which takes no
mutex. A content is a sequence because `<<` appends: `<<>>` is the empty file.
`setup` says who uses the file and whether reads are interrupted. A write at an
offset is refused before it has done anything and is no action. The ghosts
`offered` (what the selection held during a read) and `last_written` are what
the properties compare with.

**Arguments / WmFiles.** `Arguments` reads a written text as a sequence of
tokens, with the `find` and `>>` calls of `WindowFileEntry` as they are. In
`WmFiles` the window manager (`x_prop`, `requests`) is external; `wire` and
`x_queue` are the events before and after libX11 has read them, and
`RoundTrip`, a query of any thread, moves them. `wakeUp`, `lockEvents`,
`nextEvent`, `handleEvent`, `noPendingEvents` are `eventThread` and
`handlePendingEvents`; `handleEvent` needs the write lock for an update, hence
no worker inside a call (`Readers`), but not for every other event: those of
selections take none. `beginWrite` makes the tests of `write()` that come
before the mutex, `writeWmFile` and `writeWindowFile` the rest, the write to
`properties` in two steps because it takes the event lock under the directory's
mutex. `getSelectionOwner` is a query of a read in `selections`; a read of
`owners` clears the text, adds a line per query (`clearOwners`, `addOwner`), all
under the event lock, and copies it under the directory's mutex (`copyOwners`).
`cache`
are the optionals of `WinManagerWindow`, filled at its construction, before the
subscription.

`...MC` modules add symmetry sets, or say why there are none, and the setups; a
definition with a suffix (`AddOrder_late`, `Reset_never`, ...) is a mutant and
is used by no run.

## 4. Runs

Deadlock is checked only in `selection_lost`. Everywhere else a model comes
to a legal end: the window is gone and all handles are closed, all objects have
been used, or the budget of changes of the server is spent and all events are
read. In `BlockingCalls` the real deadlock is the subject of a property; in
`EventFile` and `Selection` it is the exception (`LockCycle`) that the liveness
properties make.

| Run | Instance | Shows |
|---|---|---|
| `event_file_safety` | 2 threads, 2 handles, backlog 2, 3 events + "destroyed", no wraparound | types, cursors, wake-ups, registry, order, no error once the window is gone, refinement of `EventStream` |
| `events_followed` | 2 threads, 1 handle, backlog 1, 1 event + "destroyed", a file that changes | who follows the events knows the file; blocked readers are answered, aborted ones return, a shutdown releases all, or the program is in the cycle of the two mutexes |
| `blocking_calls_safety` | 2 threads, 2 directories, pipe of 2 | nobody sleeps through an abort or event, shutdown, registry; the only standstills are one lock cycle and the full pipe |
| `blocking_calls_deadlock` | 1 thread, 1 directory | violated: that cycle is reached |
| `entry_tree` | 5 objects, 2 handles, 2 workers, one window with up to 2 files, one of them of events; all paths of up to 4 letters and those of the files | no use after free, exact counts, operations that were allowed work on linked entries, lookups find what is there, abandoned entries are freed |
| `window_mirror` | 2 windows, 4 changes, 3 events in the queue; ids that come back or a reparenting window manager, with and without the option, and both together with it | no zombies, nothing missing, popups hidden; names, map state and parents right and names followed by their events (`DirShowsWindow`) |
| `window_mirror_ignored` | 1 window, ids that come back | violated: an id stays ignored |
| `desktop_links` | 2 windows, one of them moves, loses its desktop and comes back, up to 3 desktops, 6 changes | the pointer map is sound, a directory per name, the links of the window that stays are right (`DesktopsShown`) |
| `desktop_links_moved` | 1 window, 2 desktops | violated: the links of a window that moves |
| `selection` | one user with 2 contents, who also writes; or 2 users who write; or 2 users, aborts and shutdown | reads are current, what was written is kept; never both stuck, an abort ends the read, except for the cycle of the two mutexes |
| `selection_lost` | 2 threads, no aborts, no writes | violated: one of two readers sleeps on |
| `wm_files` | 1 property, 2 workers with 2 calls, 2 events; all texts of up to 7 tokens | files follow the window manager, no circle of locks, the text of `owners` is whole, texts parsed as documented |

A property of `window_mirror` that needs the option, or a window manager that
does not reparent, says so in its hypothesis (`setup`, chosen once from
`Setups`); section 6 has what happens otherwise.

Why the bounds are enough. Two readers are needed for a wake-up that reaches the
wrong one, for one handle read twice, and for an abort that meets the mutex held
by somebody else; two handles for cursors that differ; a backlog of 2 with 3
events lets a reader lose one and still have one to read. Two directories let
the event thread abort a call of one file while the other is busy. Five objects
give a directory with two files, of which one can keep its parent alive, and a
second directory of the same name, built beside the first or after it; two
handles let two workers have the same file open, or both files; paths of four
letters have every place a slash can take, also two in a row and one at the end.
One worker inside a call keeps the event thread from the write lock while a
second one holds, or wants, the event lock or the directory's mutex; seven
tokens are the shortest text with something between `)` and `=`, and the length
of a geometry. Four changes let one window be destroyed, created again, named
and mapped. Two windows are needed for one that is added while another one dies;
the events in the queue are what start-up and handlers can be behind by, three
of them a death told twice and the next window of that id. Every bound is a
constant of its module (`MaxEvents`, `PipeCapacity`, `MaxQueue`, `MaxChanges`,
`MaxOutstanding`, `MaxCalls`, ...).

Fairness. The event thread returns from each handler, polls the pipe, and
finishes what it began: nothing in these handlers waits for anything but
mutexes. Threads are scheduled and get a mutex they keep asking for: weak
fairness where the step stays enabled, strong where others may take the mutex in
between. Where two mutexes cross, no fairness helps: in `EventFile`, `Follower`,
`BlockingCalls` and `Selection` the steps wait for each other as they do in the
code, and the liveness properties say "or `LockCycle`", a state from which
neither side goes on. It is the only exception besides the full pipe, which is
in `BlockingCalls` alone. No fairness is assumed of users, of the window manager
or of signals; the one exception is that X clients answer the conversion
requests they get (`Selection`), without which only an abort ends a read. In
`WmFiles` users come a bounded number of times, since readers without end could
keep the event thread from the write lock. No wake-up is assumed to be spurious,
all of them may be.

## 5. Proofs

The eight modules below prove, for every value of the constants, what the runs
check on small ones. Each has an invariant (`Inv`, `FollowerInv`, `TreeInv`,
...) that contains the properties and what they rest on, one lemma per action or
group of actions that says the step keeps it, and a theorem per property.

### Events files

`EventFileProof` proves for every number of threads, handles and events and
every backlog:

| Theorem | Statement |
|---|---|
| `TypeCorrect` | `Spec => []TypeOK`, wraparound included |
| `CursorsCorrect` | `[]CursorInQueue`: `nextEvent` stays inside the deque and its search does not fail |
| `WakeupsCorrect` | `[]NoLostWakeup` |
| `BookkeepingCorrect` | `[]BlockedIsRegistered` and `[]RefcountExact` (the latter is in no run) |
| `OrderCorrect` | `InOrder` |
| `ReadsGoToTheEnd` | `ReadToTheEnd`, wraparound included |
| `FileImplementsStream` | `Spec => Stream!Spec` |

All but `TypeCorrect` and `ReadsGoToTheEnd` assume `NoWrap == MaxEvents + 1 <
INVALID` (in the code `INVALID` is the largest 32 or 64 bit number; with
wraparound `InOrder` is false, see section 6), and those that count contexts
assume that `Handles` is finite. The module's assumption `EventFileAssumption`
gives the constants their types.

None of the properties is inductive alone. `Inv` adds to `TypeOK`: the queue is
the tail of what was published and its ids are consecutive (`QueueIsTail`,
`PublishedBounded`), so that the arithmetic of `nextEvent` can be replaced by
"the event after the last one seen, or the oldest" (lemma `NextEventIs`); each
cursor is the number last seen, or `INVALID` for a handle that has seen nothing
since an empty queue (`Cursors`); a thread in a read serves an open handle
(`ServingOpened`), which keeps the count above zero; `BlockedIsRegistered` and
`RefcountExact`; `Sleepers`, which says of a sleeping thread that it has nothing
to learn unless a broadcast is due or, in a shutdown under way, its abort is
still to be recorded; `Registering`, which says the same of a thread that has
looked and is still to register, for as long as it keeps the directory's mutex;
and `AbortBegun`, that only an event thread with the registry's mutex has
somebody to abort. There is one lemma per action, and `NextEventIs` and
`LinkedIsReferenced` carry the arithmetic and the counting. The refinement then
needs the invariant for `Deliver` and `EndOfStream` only; the other steps map to
their namesakes or to stuttering.

### Programs that follow the events

| Theorem | Statement |
|---|---|
| `FollowerCorrect` | `FollowerSpec => []FollowerKnows`, for finite `Handles` and under `NoWrap` |
| `FollowerUsesFile` | `FollowerSpec => Spec`: the composition implements `EventFile` |
| `FollowerSeesStream` | `FollowerSpec => ImplementsStream /\ InOrder`, for finite `Handles` and under `NoWrap` |

`FollowerProof` stands on `EventFileProof`: every step of `Follower` is a step
of `EventFile` or leaves its variables alone (`FileStep`), so `Inv` holds there
too, and with `FollowerUsesFile` so does every theorem about `EventFile`; the
chain `FollowerSpec => Spec => Stream!Spec` is `FollowerSeesStream`. `Corrected`
is added: what a program takes for the content is the content, or the program is
`Behind`, that is, an event it has not got is in the queue or on its way with a
read that returns. While a change is announced and not yet made (`due`)
everybody is behind, and since the write lock is held until it is made nobody
can catch up on the announcement and read the old content (`Unlocked`).

### Blocking calls

| Theorem | Statement |
|---|---|
| `TypeCorrect` | `[]TypeOK` |
| `NoSleepThroughCorrect` | `[]NoSleepThrough` |
| `ShutdownCorrect` | `[]ShutdownBlocksNobody` |
| `AbortsCorrect` | `[]AbortsReachTheirFile` |
| `StandstillsCorrect` | `[]StandstillKnown`, a conjunct of `OnlyKnownDeadlocks` |
| `StandstillLasts` | `[][Standstill => ~ProgramStep]_vars` |

For any number of threads and directories and any size of the pipe; of the
constants only `BlockingCallsAssumption` is used. `LockOwners` says which places
own which mutex, and the rest is about what that mutex protects: a reader that
has found nothing to return finds nothing until it waits (`NothingMissed`), so
that an abort or an event either meets it before its check or in its sleep, and
a shutdown in progress still has every sleeper on its list or its broadcast due
(`ShutdownReaches`). These are safety properties: in the deadlock of section 6
they hold, since the broadcast that the sleepers need is still due.

`OnlyKnownDeadlocks` is therefore about standing still. `Standstill` says what
each party waits for: every worker for room in the pipe, for a mutex or for an
event, the event thread for a mutex or a message. `StandstillsCorrect` says that
if somebody is on the way then, it is the cycle of two mutexes (`LockCycle`) or
a handler in front of a full pipe (`FullPipe`), for any number of threads and
directories. The proof follows the owners: under the registry's mutex a worker
waits for nothing but the pipe (`RegistryOwnerStuck`), under a directory's for
that or for the registry's mutex (`DirectoryOwnerStuck`), so whatever the event
thread wants leads to one of the two, and if it wants nothing no mutex is taken
and nobody is on the way (`IdleStandstill`). `StandstillLasts` says that a
`Standstill` is one, that is, no step of the program is possible. The converse,
that there is a step in every other state, speaks of ENABLED; TLC checks it, as
the other conjunct of `OnlyKnownDeadlocks`.

### Entries

| Theorem | Statement |
|---|---|
| `TypeCorrect` | `[]TypeOK`: among others no count falls below zero |
| `RefcountCorrect` | `[]RefcountExact` |
| `NoUseAfterFreeHolds` | `[]NoUseAfterFree` |
| `LinkedOrDeletedHolds` | `[]LinkedOrDeleted` |
| `LookupHolds` | `[]LookupRight`, for paths of any length |
| `NothingLeaksHolds` | `[]NothingLeaks` |

`EntryTreeProof` is about any names, threads and paths and any finite number of
objects and handles, which a count needs (`EntryTreeAssumption`). Memory is not
used again: an object is what one `new` returned. The parts of `TreeInv`:

- `Links`, `Nodes`: what is linked is alive, in its place and under its name; what
  is alive is a directory or in a living directory, and the only directory
  without a parent is the duplicate of a double addition;
- `Unmarked`: what is not marked is linked, or it is the directory the event
  thread is removing, whose files are linked in it until they are marked;
- `Removal`, `ToDelete`: at which step the event thread is, alone, and what it has
  still to mark and to delete;
- `Dying`: an entry whose count is zero waits for exactly one deleter, the event
  thread or one worker. This is what makes the two ways to delete an entry, the
  last close and the removal, exclusive, and it holds because the count is exact;
- `Opened`, `Working`: a handle is of a living file in a directory that was in the
  tree, and a worker's entry is linked, open or marked as it should be;
- `Unborn`: what an unused object looks like.

There is one lemma per action. `Destroyed` says what the destructor does to the
tree, for its three callers; `Built` what a new directory does, for both kinds
of addition; `Undisturbed` that workers do not notice the event thread. Counts
change by one because a set of handles or children does (`OneMore`, `OneLess`).

`LookupHolds` rests on `findEntry`, which the model writes as a function over
the positions of a path. That this recursion has a solution is proved by the
least position at which it would not (`LookExists`, with the library's theorem
that natural numbers have minima); after that no induction is needed, because
only children of the root are directories: a lookup that goes on to a third name
has failed. `FoundRight` and `AllFound` are the two directions of the property.

`NothingLeaks` is what `AbandonedIsFreed` rests on: of an entry that was removed
and that nobody has open, nor a file in it, the event thread or a worker is
about to free the entry or one of its files. It follows from the exact counts
and `Dying` (`UnreferencedIsFreed`). That the deleter gets there is fairness,
and TLC's.

### Desktops directory

| Theorem | Statement |
|---|---|
| `TypeCorrect` | `[]TypeOK` |
| `MapCorrect` | `[]MapSound` |
| `DesktopsCorrect` | `[]DesktopsShown` |

For any windows, any number of desktops and any length of the event queue,
under `DesktopLinksAssumption`.
`DesktopsShown` is about states in which all events are handled, so its
invariant says of every difference between server and tree which event in the
queue will remove it: a list of names that is not the server's is followed by an
event for the names (`NamesFetched`); a window that is not subscribed to, or
unknown, by its create event before its destroy event (`WindowsListed`); a
missing link by a create or desktop event, a link too many by a destroy event
(`LinksSettled`). `ServerSound` has what the server promises. Without
`WindowsListed` a create event that xwmfs handles late could not be told from
one that is lost.

### wm directory and writes

| Theorem | Statement |
|---|---|
| `TypeCorrect` | `[]TypeOK` |
| `FilesCorrect` | `[]FilesCurrent` |
| `LocksCorrect` | `[]LocksMove` |
| `OwnersCorrect` | `[]OwnersWhole` |
| `PropertySyntax` | `setProperty(text) <=> NamesProperty(text)`, for texts of any length |
| `GeometrySyntax` | `writeGeometry(Append(text, "\n")) <=> IsPrefix(GeometryPattern, Solids(text))`, for texts of any length |
| `ArgumentsCorrect` | `[]ArgumentsParsed` |

For any number of workers, calls and events and any values, under
`WmFilesAssumption`. `FilesCurrent` rests on `ChangePending`: a file that does
not show its property has its event on the connection, in libX11's queue or in
the event thread's hands; a query of any thread moves events from one queue to
the other and loses none (`ConnectionKeeps`). `LockHolders` ties the two mutexes
to the places of the workers, from which `LocksMove` follows without looking at
steps again: who owns the event lock does not wait for the directory's.
`OwnersWritten` gives the text of `owners` at each line its only writer is at.

The run compares the parsers with the documented syntax for all texts of up to
seven tokens; `PropertySyntax` and `GeometrySyntax` do so for all texts, of any
tokens. `find` returns the first position of a delimiter or none (`Found`, by
the least element of a set of numbers), so that `setProperty` and
`NamesProperty` talk about the same positions (`OneToken`, `TwoTokens`). What
`>>` makes of a text is the recursive function in `Solids`; that it exists is
proved by the least length for which it would not (`CollectExists`), that a
blank behind the text changes nothing (`SolidsAppend`) from its defining
equation, and that a text without blanks is kept as it is (`AllSolid`) from the
first position at which it would not be. `ArgumentsCorrect` draws from these
what the run checks.

### Windows directory

| Theorem | Statement |
|---|---|
| `TypeCorrect` | `[]TypeOK` |
| `DirsLive` | `[]NoZombies` |
| `WindowsShownHolds` | `[]WindowsShown` |
| `DirShowsWindowHolds` | `[]DirShowsWindow` |

For any windows, names and bounds and any of the setups, under
`WindowMirrorAssumption` and `StateAssumption` (no window or file has the state
"none"). The last three are about states in which all events are handled. As for
the desktops, the inductive invariant `MirrorInv` says of each window what in
the queue, or among the windows still to be added, will remove a difference
between server and tree, and in which order; unlike there, an id can come back,
so a destroy event may be followed by events of the next window of that id:

- `Died`: a window that is not there but is known (it has a directory or is
  about to be added) has its destroy event in the queue, and so has every create
  or map event of it, further behind (`Gone`; without reparenting);
- `Reborn`: behind every destroy event of a window that is there comes a create
  event; `Listed`: with the option it is known or its create event is in the
  queue; `Ignored`: without the option what would show a popup has a destroy
  event behind it;
- `Named`: the file has the window's name, or a property event is in the queue,
  or the directory is to be renewed; `Announced`: the followers of the events
  know the file's text;
- `MappedTold`, `ParentTold`: the last map or reparent event says what the server
  holds, and if there is none the file does.

The queue enters through three predicates (`Pending`, `Followed`, `Separated`)
with lemmas about appending an event and taking the first. `StepSeen` says that
each of the actions leaves a window alone or concerns it and nothing else; each
part of the invariant has then one lemma over the actions.

### Selection files

| Theorem | Statement |
|---|---|
| `TypeCorrect` | `[]TypeOK` |
| `KeptCorrect` | `[]KeptInv`, the invariant behind the next |
| `WrittenIsKeptHolds` | `[]WrittenIsKept` |
| `CurrentCorrect` | `[]CurrentInv`, the invariant behind the next |
| `ReadCurrentHolds` | `[]ReadCurrent` |
| `AwakeCorrect` | `[]AwakeInv`, the invariant behind the next |
| `NobodySleepsOnHolds` | `[]NobodySleepsOn`, for any number of users |

For any threads, contents and events, under `SelectionAssumption` (with finitely
many threads) and `ErrorAssumption` (an error code is no content).
`WrittenIsKept` and `ReadCurrent` are about the only user of a file; with two
they are false (section 6). `Kept` adds that xwmfs does not become owner in the
middle of a read, so the read that replaces the content is one of another
owner's. `Current` follows the conversion of a read from the request to the text
that is returned: there is at most one (`OneConversion`), which fails as soon as
a read may be interrupted, and what it carries was offered during the read
(`Carried`, `Shown`).

`NobodySleepsOn` is what `NotAllStuck` and `AbortedReaderReturns` rest on, and
it is about any number of users. When all of them sleep, no answer is there and
one is on its way, with a client or as an event; and whoever sleeps was not told
to stop. One of several readers may sleep on although its answer came (section
6), so the invariant is about all of them: who waits and finds no answer has one
coming, since the flag is only reset together with a new request (`AnswerDue`);
an answer that is there has woken somebody who has not gone back to sleep
(`AnswerSeen`); a sleeper whose abort is recorded has its broadcast due
(`AbortSeen`), the exception that `NobodySleepsOn` makes too; and a thread that
is still to register has seen nothing that would keep it awake (`Registering`).
The lemmas say which steps can matter: who falls asleep, who is woken, what sets
and resets the flag.

### Only model-checked

Liveness (`BlockedReaderAnswered`, `AbortedReaderReturns`,
`ShutdownReleasesAll`, `AbandonedIsFreed`, `NotAllStuck`, `ChangesShow`) needs
fairness, of which the prover knows nothing. The safety they rest on is proved
apart from it: `NoLostWakeup`, `NoSleepThrough`, `NothingLeaks`,
`NobodySleepsOn`, `FilesCurrent`. That a cycle of the two mutexes is the only
thing in the way is in `StandstillsCorrect`, about `BlockingCalls`. Of
`OnlyKnownDeadlocks` the first conjunct, since it uses ENABLED. And the
wraparound of ids beyond types and `ReadToTheEnd`.

## 6. What the runs show

Most of the design holds: the check-then-sleep of readers, the registry, the
reference counts with their two deleters, the order "subscribe, then query" and
the pointer map. Four runs end in a violation and show where the code does not
do what its documentation or comments say; the quotes are in `PROJECT.json`.

- `Xwmfs.cxx:673` (`blocking_calls_deadlock`): the event thread and a reader
  that is waking up, or about to block, wait for each other's mutex. Events files
  and selections are both exposed to it (`LockCycle` in `EventFile` and
  `Selection`).
- `Xwmfs.cxx:332` (`window_mirror_ignored`): the id of an ignored window stays
  ignored, so a later window with that id has a frozen `mapped`.
- `DesktopsRootDir.cxx:139` (`desktop_links_moved`): a moved window keeps its
  link on the old desktop.
- `SelectionAccessFile.cxx:89` (`selection_lost`): with two reads at once one
  may sleep on.

The models contain more of the kind. No run is kept for them; each is the
reason why a property above has a hypothesis, or an instance a restriction, and
dropping that makes TLC report it.

- `EventFile.cxx:103`: the test for lost events precedes the one for the
  wraparound. With `INVALID = 3` and 5 events `InOrder` fails.
- `xwmfs_fuse_ops_impl.cxx:209`: interrupted and non-blocking reads report
  ENODATA in place of EINTR and EAGAIN (`Answer` in `EventFile`).
- `xwmfs_fuse_ops_impl.cxx:56`: a stat through an open handle works on an entry
  that was removed (`statHandle` in `EntryTree`), where `docs/xwmfs.asciidoc:186`
  promises ENXIO for any operation attempted on it (`LinkedOrDeleted` leaves it
  out).
- `Xwmfs.cxx:650`: a signal handler that finds the pipe full waits, in a thread
  that may hold a mutex which the event thread needs to empty the pipe
  (`FullPipe`, the second standstill of `OnlyKnownDeadlocks`; the hypothesis of
  `BlockedCallWoken`).
- `WindowsRootDir.cxx:37`, `WindowDirEntry.cxx:59`: a window reparented before
  xwmfs has subscribed to it can die, or be mapped, unseen (`NoZombies`,
  `MappedUnframed` in `DirShowsWindow`). If its id comes back, the directory
  left over is taken for the new window's: its parent is stale, and without the
  option it may stay for a popup and keep the old name (`NoLeftovers`,
  `Refreshed`). The proof attempt showed this; the setups had kept reparenting
  and recycled ids apart.
- `Xwmfs.cxx:197`: without the option a window that is not managed yet when
  xwmfs starts never appears (`WindowsShown`).
- `WindowDirEntry.cxx:188`: the first value of a property is not announced: a
  program that found no file may never look again (`NamesFollowed` in
  `DirShowsWindow`; `known[h] = 0` in `FollowerKnows`).
- `DesktopsRootDir.cxx:111`: a window that start-up has linked and whose create
  event is handled after it moved gets a second link that nobody removes
  (`SettledLinksRight` is about windows that stay).
- `Xwmfs.cxx:370`: the deletion of a window's desktop property reaches its
  directory only; the link stays (`SettledLinksRight` leaves `Loose` windows
  out).
- `WinManagerDirEntry.cxx:136`: directories follow the desktop names, not the
  number of desktops (`NamesMirrored`).
- `SelectionAccessFile.cxx:103, 131`: the answer to an interrupted read is taken
  for the next one's; a read replaces what has just been written (`ReadCurrent`
  and `WrittenIsKept` are checked for one user and no aborts).
- `SelectionAccessFile.cxx:55`: the selection is announced before it is stored.
- `Xwmfs.cxx:260`: events that a worker's query has read into libX11's queue do
  not wake the event thread; the change is not shown until another event comes
  (the hypothesis `~taken` of `ChangesShow`).
- `WinManagerDirEntry.cxx:182`: `show_desktop_mode`, `name` and `class` keep
  the value from before the subscription; each change is announced and not
  shown (`Kept`; `FilesCurrent` is about `Written`).
- `WinManagerDirEntry.cxx:136`: `number_of_desktops` shows 0, `active_window`
  no window, when the property is not set, where `README.md:203` has -1
  (`Unset`); a property that is removed stays in its file (`FilesCurrent`).
- `WindowFileEntry.cxx:122`: a geometry without a line end is refused
  (`EndsInBlank`); `WindowFileEntry.cxx:53`: so is what `properties` itself
  shows, `NAME(TYPE) = VALUE`, and what `README.md:110` describes,
  `NAME<TYPE> = <VALUE>` (`ArgumentsParsed`).
- `SelectionAccessFile.cxx:101`: an abort that meets the answer stays recorded
  and hits a later read of the same thread.
- `SelectionOwnerFile.cxx:37`: the text of `owners` is rewritten under one lock
  and copied under another; a read that copies while another rewrites gets part
  of it (`OwnersWhole` is about the times without a rewrite).

## 7. Abstractions and what is left out

- Texts, time stamps, sizes, permissions and logging: no property is about
  them.
- X delivery is modelled from what Xlib documents: structure events go to those
  who selected them on the window and on its parent, in order. The client list
  holds mapped windows that are not override-redirect. Queries inside one
  handler see one state; the events that follow correct the difference.
- In `DesktopLinks` unmap events and duplicates of destroy events are left out,
  and every window that exists at the start gets its directory, as with the
  option (`WindowMirror` has both). The links are made for the windows that have a
  desktop; the code also asks for the client list, which is no further
  restriction as long as the window manager gives desktops to the windows on it.
- In `WindowMirror` a create event has the root as parent: xwmfs selects create
  events on no other window, so the second test of `isPseudoWindow` has no effect.
- In `WmFiles` the mutex of the wm directory has no variable of its own: who holds
  it waits for nothing else, so it is taken and given back within one step.
- In `Selection` and for `owners` in `WmFiles` memory-level races of the
  unlocked stringstream are taken as interleavings of whole calls, and the
  kernel serialises writes to one file.
- `readlink` of a link that is gone dereferences a null pointer; the model has
  no state for what follows. `LookupRight` says when a lookup has no result.
- In `WmFiles` requests reach the server at once (whether libxpp flushes is not
  visible here), the queries of one handler are one round trip, and the
  reads by other files are the accesses of the other modules.
- Not modelled: `exit()`, poll errors, the search for the window manager's
  window, options, logger and `main`; `PROJECT.json`
  gives the reason for each.
