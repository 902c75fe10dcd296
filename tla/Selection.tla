----------------------------- MODULE Selection -----------------------------
(***************************************************************************)
(* One file of the `selections` directory (SelectionAccessFile): a read    *)
(* asks the X client that owns the selection for its content and waits     *)
(* until the event thread reports the answer; a write makes xwmfs the      *)
(* owner, and xwmfs then answers the requests of others.  All reads of the *)
(* file share one flag for the answer, one condition variable and one      *)
(* content; the mutex of the directory guards all of them except from      *)
(* write().  As in EventFile a reader takes the mutex of the registry of   *)
(* blocked threads under it, and the event thread, to abort a call, the    *)
(* other way round.                                                        *)
(***************************************************************************)
EXTENDS Integers, Sequences, FiniteSets, SequencesExt

CONSTANTS Threads,         \* FUSE worker threads
          Contents,        \* what a selection may hold
          None,            \* no content
          Setups,          \* who uses the file and what for
          MaxOutstanding   \* bound on the conversions not yet reported

SetupType == [users    : SUBSET Threads,
              contents : SUBSET Contents,
              aborts   : BOOLEAN,  \* requests may be interrupted
              writes   : BOOLEAN,  \* the file is also written to
              changes  : Nat]      \* bound on the changes of the selection

ASSUME SelectionAssumption ==
    /\ IsFiniteSet(Threads)
    /\ Setups \subseteq SetupType
    /\ MaxOutstanding \in Nat \ {0}

Errors == {"AGAIN", "INTERRUPTED", "IO_ERROR"}

\* No error is mistaken for a content.
ASSUME ErrorAssumption == \A e \in Errors \cup {None} : e \notin Seq(Contents)

VARIABLES
    setup,            \* chosen once
    x_owner,          \* who owns the selection
    x_content,        \* what the owning client offers
    asked,            \* requests the clients have not answered
    x_property,       \* target property of the selection window
    events,           \* selection events not yet handled
    changes,          \* changes of the selection so far
    m_owner,          \* the owner the file has seen last
    m_result_arrived,
    m_result_prop,    \* the answer has brought the content
    m_abort_set,
    m_shutdown,
    ev,               \* where the event thread is
    to_abort,         \* threads it has still to abort
    abort_all,        \* it is in abortAllBlockingCalls
    content,          \* the file's own content, a piece per <<
    pc,               \* place of each worker thread
    piece,            \* what a thread is about to put into the content
    result,           \* how its last read ended
    offered,          \* what the selection has held during its read
    last_written

server  == <<x_owner, x_content, asked, x_property, changes>>
outcome == <<m_result_arrived, m_result_prop>>
eventThread == <<ev, to_abort, abort_all>>
aborts  == <<m_abort_set, m_shutdown, eventThread>>
threads == <<pc, piece, result>>
vars    == <<setup, server, events, m_owner, outcome, aborts, content, threads,
             offered, last_written>>

Owners  == {"none", "client", "xwmfs"}
Reading == {"check", "convert", "register", "wait", "woken", "unregister", "fill", "read"}
Places  == {"idle", "clear", "store"} \cup Reading
EventTypes == {"converted", "refused", "own request", "client request"}

TypeOK ==
    /\ setup \in Setups
    /\ x_owner \in Owners
    /\ x_content \in Contents
    /\ asked \in Seq(Contents)
    /\ x_property \in Seq(Contents)
    /\ events \in Seq(EventTypes)
    /\ changes \in Nat
    /\ m_owner \in Owners
    /\ {m_result_arrived, m_result_prop, m_shutdown} \subseteq BOOLEAN
    /\ m_result_prop => m_result_arrived
    /\ m_abort_set \subseteq Threads
    /\ ev \in {"idle", "abort", "notify"}
    /\ to_abort \subseteq Threads
    /\ abort_all \in BOOLEAN
    /\ content \in Seq(Contents)
    /\ pc \in [Threads -> Places]
    /\ piece \in [Threads -> Seq(Contents)]
    /\ result \in [Threads -> Errors \cup Seq(Contents) \cup {None}]
    /\ last_written \in Seq(Contents)

Selected == CASE x_owner = "none"   -> {}
              [] x_owner = "client" -> {<<x_content>>}
              [] x_owner = "xwmfs"  -> {content}

Init ==
    /\ setup \in Setups
    /\ x_owner \in {"none", "client"}
    /\ x_content \in setup.contents
    /\ asked = <<>>
    /\ x_property = <<>>
    /\ events = <<>>
    /\ changes = 0
    /\ m_owner = "none"
    /\ m_result_arrived = FALSE
    /\ m_result_prop = FALSE
    /\ m_abort_set = {}
    /\ m_shutdown = FALSE
    /\ ev = "idle"
    /\ to_abort = {}
    /\ abort_all = FALSE
    /\ content = <<>>
    /\ pc = [t \in Threads |-> "idle"]
    /\ piece = [t \in Threads |-> <<>>]
    /\ result = [t \in Threads |-> None]
    /\ offered = [t \in Threads |-> {}]
    /\ last_written = <<>>

MoveTo(t, place) == pc' = [pc EXCEPT ![t] = place]

(***************************************************************************)
(* Who keeps a mutex beyond one action: a reader the directory's, while it *)
(* asks for the registry's or replaces the content; the event thread the   *)
(* registry's, while it aborts calls.                                      *)
(***************************************************************************)
LockFree     == \A t \in Threads : pc[t] \notin {"register", "unregister", "fill"}
RegistryFree == ev = "idle"

Return(t, how) == /\ MoveTo(t, "idle")
                  /\ result' = [result EXCEPT ![t] = how]

-----------------------------------------------------------------------------
(* The other X clients.                                                    *)

Change == changes < setup.changes /\ changes' = changes + 1

Outstanding == Len(asked) + Len(events)

takeSelection(c) ==
    /\ Change
    /\ x_owner' = "client"
    /\ x_content' = c
    /\ UNCHANGED <<asked, x_property, events, m_owner, outcome, aborts, content,
                   threads, last_written>>

dropSelection ==
    /\ x_owner = "client"
    /\ Change
    /\ x_owner' = "none"
    /\ UNCHANGED <<x_content, asked, x_property, events, m_owner, outcome, aborts,
                   content, threads, last_written>>

(***************************************************************************)
(* A client answers with what it offered when it was asked or offers now,  *)
(* or refuses.  A client that never answers keeps the reader waiting.      *)
(***************************************************************************)
answerRequest(i) ==
    /\ i \in DOMAIN asked
    /\ asked' = RemoveAt(asked, i)
    /\ \/ /\ x_property' \in {<<asked[i]>>} \cup (IF x_owner = "client" THEN Selected ELSE {})
          /\ events' = Append(events, "converted")
       \/ /\ events' = Append(events, "refused")
          /\ UNCHANGED x_property
    /\ UNCHANGED <<x_owner, x_content, changes, m_owner, outcome, aborts, content,
                   threads, last_written>>

clientRequest ==
    /\ x_owner = "xwmfs"
    /\ Change
    /\ events' = Append(events, "client request")
    /\ UNCHANGED <<x_owner, x_content, asked, x_property, m_owner, outcome, aborts,
                   content, threads, last_written>>

-----------------------------------------------------------------------------
(* SelectionAccessFile::read.                                              *)

updateOwner(t) ==
    /\ pc[t] = "idle"
    /\ Outstanding + Cardinality({u \in Threads : pc[u] \in Reading}) < MaxOutstanding
    /\ MoveTo(t, "check")
    /\ m_owner' = x_owner
    /\ result' = [result EXCEPT ![t] = None]
    /\ UNCHANGED <<server, events, outcome, aborts, content, piece, last_written>>

checkOwner(t) ==
    /\ pc[t] = "check"
    /\ \/ m_owner = "none"   /\ Return(t, "AGAIN")
       \/ m_owner = "client" /\ MoveTo(t, "convert") /\ UNCHANGED result
       \/ m_owner = "xwmfs"  /\ MoveTo(t, "read") /\ UNCHANGED result
    /\ UNCHANGED <<server, events, m_owner, outcome, aborts, content, piece,
                   last_written>>

(***************************************************************************)
(* convertSelection: the server passes the request on to the owner, which  *)
(* may be xwmfs itself by now, or refuses when there is none.              *)
(***************************************************************************)
convertSelection ==
    /\ asked' = IF x_owner = "client" THEN Append(asked, x_content) ELSE asked
    /\ events' = CASE x_owner = "none"   -> Append(events, "refused")
                   [] x_owner = "xwmfs"  -> Append(events, "own request")
                   [] x_owner = "client" -> events
    /\ UNCHANGED <<x_owner, x_content, x_property, changes>>

(***************************************************************************)
(* wasAborted before each wait forgets the request it reports; otherwise   *)
(* the thread asks for the registry's mutex and keeps the directory's.     *)
(***************************************************************************)
block(t) ==
    IF t \in m_abort_set
    THEN m_abort_set' = m_abort_set \ {t} /\ Return(t, "INTERRUPTED")
    ELSE MoveTo(t, "register") /\ UNCHANGED <<m_abort_set, result>>

Reset_flagOnly == m_result_arrived' = FALSE /\ UNCHANGED m_result_prop
Reset_never    == UNCHANGED outcome

Reset == m_result_arrived' = FALSE /\ m_result_prop' = FALSE

requestConversion(t) ==
    /\ pc[t] = "convert"
    /\ LockFree
    /\ Reset
    /\ convertSelection
    /\ block(t)
    /\ UNCHANGED <<m_owner, m_shutdown, eventThread, content, piece, last_written>>

(***************************************************************************)
(* prepareBlockingCall, which fails once the shutdown flag is set, and the *)
(* wait, which gives the directory's mutex back.                           *)
(***************************************************************************)
prepareBlockingCall(t) ==
    /\ pc[t] = "register"
    /\ RegistryFree
    /\ IF m_shutdown THEN Return(t, "INTERRUPTED")
                     ELSE MoveTo(t, "wait") /\ UNCHANGED result
    /\ UNCHANGED <<server, events, m_owner, outcome, aborts, content, piece,
                   last_written>>

(***************************************************************************)
(* Back from the condition variable, with the directory's mutex again.     *)
(***************************************************************************)
relock(t) ==
    /\ pc[t] = "woken"
    /\ LockFree
    /\ MoveTo(t, "unregister")
    /\ UNCHANGED <<server, events, m_owner, outcome, aborts, content, piece, result,
                   last_written>>

finishedBlockingCall(t) == pc[t] = "unregister" /\ RegistryFree

waitAgain(t) ==
    /\ finishedBlockingCall(t)
    /\ ~m_result_arrived
    /\ block(t)
    /\ UNCHANGED <<server, events, m_owner, outcome, m_shutdown, eventThread, content,
                   piece, last_written>>

(***************************************************************************)
(* With the result there, str("") comes first and << follows.  It is an    *)
(* I/O error if the conversion failed, names another property or the       *)
(* property cannot be got.                                                 *)
(***************************************************************************)
Consumed == UNCHANGED outcome

takeResult(t) ==
    /\ finishedBlockingCall(t)
    /\ m_result_arrived
    /\ \/ Return(t, "IO_ERROR") /\ UNCHANGED <<content, piece>>
       \/ /\ m_result_prop
          /\ MoveTo(t, "fill")
          /\ piece' = [piece EXCEPT ![t] = x_property]
          /\ content' = <<>>
          /\ UNCHANGED result
    /\ Consumed
    /\ UNCHANGED <<server, events, m_owner, aborts, last_written>>

fillContent(t) ==
    /\ pc[t] = "fill"
    /\ MoveTo(t, "read")
    /\ content' = content \o piece[t]
    /\ UNCHANGED <<server, events, m_owner, outcome, aborts, piece, result,
                   last_written>>

readContent(t) ==
    /\ pc[t] = "read"
    /\ LockFree
    /\ Return(t, content)
    /\ UNCHANGED <<server, events, m_owner, outcome, aborts, content, piece,
                   last_written>>

readerStep(t) == \/ checkOwner(t)
                 \/ requestConversion(t)
                 \/ prepareBlockingCall(t)
                 \/ relock(t)
                 \/ waitAgain(t)
                 \/ takeResult(t)
                 \/ fillContent(t)
                 \/ readContent(t)

spuriousWakeup(t) ==
    /\ pc[t] = "wait"
    /\ MoveTo(t, "woken")
    /\ UNCHANGED <<server, events, m_owner, outcome, aborts, content, piece, result,
                   last_written>>

-----------------------------------------------------------------------------
(* SelectionAccessFile::write: ownership first, then the content, without  *)
(* the mutex.  The kernel lets one write to a file through at a time; one  *)
(* at an offset is refused and changes nothing.                            *)

Writing == {"clear", "store"}

makeSelectionOwner(t, c) ==
    /\ setup.writes
    /\ pc[t] = "idle"
    /\ \A u \in Threads : pc[u] \notin Writing
    /\ Change
    /\ x_owner' = "xwmfs"
    /\ MoveTo(t, "clear")
    /\ piece' = [piece EXCEPT ![t] = <<c>>]
    /\ result' = [result EXCEPT ![t] = None]
    /\ UNCHANGED <<x_content, asked, x_property, events, m_owner, outcome, aborts,
                   content, last_written>>

Cleared_kept == content

Cleared == <<>>

clearContent(t) ==
    /\ pc[t] = "clear"
    /\ MoveTo(t, "store")
    /\ content' = Cleared
    /\ UNCHANGED <<server, events, m_owner, outcome, aborts, piece, result,
                   last_written>>

storeContent(t) ==
    /\ pc[t] = "store"
    /\ MoveTo(t, "idle")
    /\ content' = content \o piece[t]
    /\ last_written' = piece[t]
    /\ UNCHANGED <<server, events, m_owner, outcome, aborts, piece, result>>

writerStep(t) == clearContent(t) \/ storeContent(t)

-----------------------------------------------------------------------------
(* The event thread.                                                       *)

NextEventIs(type) == events # <<>> /\ Head(events) = type

(***************************************************************************)
(* m_result_cond.signal() wakes one of the threads that wait, if any does. *)
(***************************************************************************)
signal_lost == UNCHANGED pc

signal == LET waiting == {t \in Threads : pc[t] = "wait"}
          IN  IF waiting = {} THEN UNCHANGED pc
                              ELSE \E t \in waiting : MoveTo(t, "woken")

Arrived(good) == m_result_arrived' = TRUE

reportConversionResult(good) ==
    /\ ev = "idle"
    /\ NextEventIs(IF good THEN "converted" ELSE "refused")
    /\ LockFree
    /\ events' = Tail(events)
    /\ Arrived(good)
    /\ m_result_prop' = good
    /\ signal
    /\ UNCHANGED <<server, m_owner, aborts, content, piece, result, last_written>>

(***************************************************************************)
(* provideConversion writes the property of the requestor, then the answer *)
(* is sent.                                                                *)
(***************************************************************************)
conversionRequest ==
    /\ ev = "idle"
    /\ LockFree
    /\ \/ /\ NextEventIs("client request")
          /\ events' = Tail(events)
          /\ UNCHANGED x_property
       \/ /\ NextEventIs("own request")
          /\ events' = Append(Tail(events), "converted")
          /\ x_property' = content
    /\ UNCHANGED <<x_owner, x_content, asked, changes, m_owner, outcome, aborts, content,
                   threads, last_written>>

eventThreadStep == \/ \E good \in BOOLEAN : reportConversionResult(good)
                   \/ conversionRequest

Registered == {t \in Threads : pc[t] \in {"wait", "woken", "unregister"}}

(***************************************************************************)
(* abortBlockingCall of one blocked thread or, at a shutdown, of all: the  *)
(* registry's mutex is kept from the lookup to the last broadcast.         *)
(***************************************************************************)
abort(S, all) ==
    /\ setup.aborts /\ ~m_shutdown
    /\ ev = "idle"
    /\ ev' = "abort"
    /\ to_abort' = S
    /\ abort_all' = all
    /\ UNCHANGED <<server, events, m_owner, outcome, m_abort_set, m_shutdown, content,
                   threads, last_written>>

abortBlockingCall(t)  == t \in Registered /\ abort({t}, FALSE)
abortAllBlockingCalls == abort(Registered, TRUE)

(***************************************************************************)
(* AbortHandler::abort for one of them, in two steps.                      *)
(***************************************************************************)
recordAbort(t) ==
    /\ ev = "abort"
    /\ t \in to_abort
    /\ LockFree
    /\ m_abort_set' = m_abort_set \cup {t}
    /\ to_abort' = to_abort \ {t}
    /\ ev' = "notify"
    /\ UNCHANGED <<server, events, m_owner, outcome, m_shutdown, abort_all, content,
                   threads, last_written>>

WakeAborted_none == UNCHANGED pc

WakeAborted == pc' = [t \in Threads |-> IF pc[t] = "wait" THEN "woken" ELSE pc[t]]

broadcast ==
    /\ ev = "notify"
    /\ WakeAborted
    /\ ev' = "abort"
    /\ UNCHANGED <<server, events, m_owner, outcome, m_abort_set, m_shutdown, to_abort,
                   abort_all, content, piece, result, last_written>>

finishAbort ==
    /\ ev = "abort"
    /\ to_abort = {}
    /\ m_shutdown' = (m_shutdown \/ abort_all)
    /\ abort_all' = FALSE
    /\ ev' = "idle"
    /\ UNCHANGED <<server, events, m_owner, outcome, m_abort_set, to_abort, content,
                   threads, last_written>>

aborting == broadcast \/ finishAbort \/ \E t \in Threads : recordAbort(t)

-----------------------------------------------------------------------------
(***************************************************************************)
(* What the selection holds between the start and the end of each read;    *)
(* the setup stays.                                                        *)
(***************************************************************************)
observe ==
    /\ UNCHANGED setup
    /\ offered' = [t \in Threads |->
                    CASE pc[t] = "idle" /\ pc'[t] = "check" -> Selected'
                      [] pc[t] \in Reading                  -> offered[t] \cup Selected'
                      [] OTHER                              -> offered[t]]

client == \/ \E c \in setup.contents : takeSelection(c)
          \/ dropSelection
          \/ clientRequest

answer == \E i \in DOMAIN asked : answerRequest(i)

Next == \/ client /\ observe
        \/ answer /\ observe
        \/ eventThreadStep /\ observe
        \/ abortAllBlockingCalls /\ observe
        \/ aborting /\ observe
        \/ \E t \in setup.users :
              \/ updateOwner(t) /\ observe
              \/ readerStep(t) /\ observe
              \/ abortBlockingCall(t) /\ observe
              \/ spuriousWakeup(t) /\ observe
              \/ \E c \in setup.contents : makeSelectionOwner(t, c) /\ observe
              \/ writerStep(t) /\ observe

Spec == Init /\ [][Next]_vars

(***************************************************************************)
(* Clients answer, the event thread works off its queue and finishes the   *)
(* aborts it began, and a thread that keeps asking for a mutex gets it if  *)
(* it is free again and again.  Nothing else wakes a thread.               *)
(***************************************************************************)
Fairness ==
    /\ WF_vars(answer /\ observe)
    /\ SF_vars(eventThreadStep /\ observe)
    /\ SF_vars(aborting /\ observe)
    /\ \A t \in Threads : SF_vars((readerStep(t) \/ writerStep(t)) /\ observe)

FairSpec == Spec /\ Fairness

-----------------------------------------------------------------------------
(* Properties.                                                             *)

OneUser == Cardinality(setup.users) = 1

(***************************************************************************)
(* The event thread has the registry's mutex and wants the directory's,    *)
(* whose owner wants the registry's: neither goes on any more              *)
(* (Xwmfs.cxx:659-693, SelectionAccessFile.cxx:103-109).                   *)
(***************************************************************************)
LockCycle ==
    /\ ev = "abort" /\ to_abort # {}
    /\ \E t \in Threads : pc[t] \in {"register", "unregister"}

(***************************************************************************)
(* The threads that share the answer do not all sleep on for ever, unless  *)
(* the program has come to its deadlock; a single user's read is always    *)
(* answered.                                                               *)
(***************************************************************************)
NotAllStuck ==
    (\A t \in setup.users : pc[t] = "wait")
        ~> (\E t \in setup.users : pc[t] = "idle") \/ LockCycle

(***************************************************************************)
(* A thread whose abort is recorded while it blocks leaves its read, with  *)
(* the same exception.                                                     *)
(***************************************************************************)
AbortedReaderReturns ==
    \A t \in Threads : t \in Registered /\ t \in m_abort_set
                          ~> pc[t] = "idle" \/ LockCycle

(***************************************************************************)
(* "Wait until the event thread reports the conversion data has arrived"   *)
(* (SelectionAccessFile.cxx:100).                                          *)
(***************************************************************************)
ReadAnswered == \A t \in Threads : pc[t] = "wait" ~> pc[t] = "idle"

(***************************************************************************)
(* "On read this returns the content of the primary selection"             *)
(* (README.md:185): what it held at some time during the read of the only  *)
(* user, if nothing is interrupted.                                        *)
(***************************************************************************)
ReadCurrent ==
    OneUser /\ ~setup.aborts =>
        \A t \in Threads : pc[t] = "idle" /\ result[t] \in Seq(Contents)
                               => result[t] \in offered[t]

(***************************************************************************)
(* "The written data will become the new content of the primary selection" *)
(* (README.md:194-195), until somebody else takes it, for one user.        *)
(***************************************************************************)
WrittenIsKept ==
    /\ OneUser
    /\ x_owner = "xwmfs"
    /\ \A t \in Threads : pc[t] \notin Writing
    => content = last_written
=============================================================================
