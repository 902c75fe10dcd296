--------------------------- MODULE SelectionProof ---------------------------
(***************************************************************************)
(* Theorems about Selection for any threads, contents and bounds: what a   *)
(* read returns and what a write leaves, both for a single user of the     *)
(* file, and that any number of users never all sleep for nothing.         *)
(***************************************************************************)
EXTENDS Selection, TLAPS, FiniteSetTheorems

-----------------------------------------------------------------------------
(* The inductive invariants, for the only user u of the file.              *)

Sole(u) == /\ setup.users = {u}
           /\ \A t \in Threads \ {u} : pc[t] = "idle"

(***************************************************************************)
(* xwmfs does not become the owner while the user reads, so a read that    *)
(* found another owner never replaces the content of xwmfs.                *)
(***************************************************************************)
Kept(u) ==
    /\ Sole(u)
    /\ x_owner = "xwmfs" =>
          /\ pc[u] \notin {"convert", "register", "wait", "woken", "unregister", "fill"}
          /\ pc[u] = "check" => m_owner = "xwmfs"
          /\ pc[u] \notin Writing => content = last_written
    /\ pc[u] = "store" => content = <<>>

KeptInv == TypeOK /\ \A u \in Threads : setup.users = {u} => Kept(u)

Conversion == {"converted", "refused", "own request"}

UnderWay(i) == i \in DOMAIN events /\ events[i] \in Conversion

Waits(u) == pc[u] \in {"register", "wait", "woken", "unregister"}

(***************************************************************************)
(* The conversion the user waits for is the only one, either with a client *)
(* or among the events, until it is reported.                              *)
(***************************************************************************)
OneConversion(u) ==
    /\ asked # <<>> \/ (\E i \in DOMAIN events : UnderWay(i))
          => Waits(u) /\ ~m_result_arrived
    /\ asked # <<>> => Len(asked) = 1 /\ \A i \in DOMAIN events : ~UnderWay(i)
    /\ \A i, j \in DOMAIN events : UnderWay(i) /\ UnderWay(j) => i = j

NeverInterrupted == m_abort_set = {} /\ m_shutdown = FALSE /\ ev = "idle"

(***************************************************************************)
(* Whatever the conversion brings the selection held during the read: the  *)
(* content in the request, in the events and in the property.              *)
(***************************************************************************)
Carried(u) ==
    /\ asked # <<>> => <<asked[1]>> \in offered[u]
    /\ \A i \in DOMAIN events : /\ events[i] = "own request" => content \in offered[u]
                                /\ events[i] = "converted" => x_property \in offered[u]
    /\ Waits(u) /\ m_result_arrived /\ m_result_prop => x_property \in offered[u]

(***************************************************************************)
(* So it did the content that is read and the content that was read.       *)
(***************************************************************************)
Shown(u) ==
    /\ pc[u] = "check" /\ m_owner = "xwmfs" => content \in offered[u]
    /\ pc[u] = "fill" => content = <<>> /\ piece[u] \in offered[u]
    /\ pc[u] = "read" => content \in offered[u]
    /\ result[u] \in Seq(Contents) => pc[u] = "idle" /\ result[u] \in offered[u]

OthersNoResult(u) == \A t \in Threads \ {u} : result[t] = None

Current(u) ==
    /\ Sole(u)
    /\ OthersNoResult(u)
    /\ NeverInterrupted
    /\ OneConversion(u)
    /\ Carried(u)
    /\ Shown(u)

CurrentInv ==
    TypeOK /\ \A u \in Threads : setup.users = {u} /\ ~setup.aborts => Current(u)

-----------------------------------------------------------------------------
(* For any number of users: nobody sleeps without a reason.                *)

ConversionDue == asked # <<>> \/ \E i \in DOMAIN events : UnderWay(i)

(***************************************************************************)
(* Whoever finds no answer has one coming; whoever is not woken by the one *)
(* that came leaves it to another user who was; an abort wakes everybody   *)
(* it concerns before it is over.                                          *)
(***************************************************************************)
AnswerDue == (\E t \in Threads : Waits(t)) /\ ~m_result_arrived => ConversionDue

AnswerSeen == m_result_arrived /\ setup.users # {} => \E t \in setup.users : pc[t] # "wait"

AbortSeen ==
    \A t \in Threads : pc[t] = "wait" =>
        /\ t \in m_abort_set => ev = "notify"
        /\ ~m_shutdown
        /\ abort_all /\ ev = "abort" => t \in to_abort

(***************************************************************************)
(* Between its last look at the flag and the wait a thread keeps the mutex *)
(* under which the flag and the aborts are recorded.                       *)
(***************************************************************************)
Registering ==
    \A t \in Threads : pc[t] = "register" => t \notin m_abort_set /\ ~m_result_arrived

OnlyUsersWait == \A t \in Threads : Waits(t) => t \in setup.users

AwakeInv == TypeOK /\ OnlyUsersWait /\ AnswerDue /\ AnswerSeen /\ Registering /\ AbortSeen

(***************************************************************************)
(* What NotAllStuck and AbortedReaderReturns rest on: when all users sleep *)
(* the answer that wakes one of them is on its way, and no sleeper has     *)
(* been told to stop, unless the broadcast that wakes him is due.          *)
(***************************************************************************)
NobodySleepsOn ==
    /\ setup.users # {} /\ (\A t \in setup.users : pc[t] = "wait")
           => ~m_result_arrived /\ ConversionDue
    /\ \A t \in Threads : pc[t] = "wait" => /\ t \in m_abort_set => ev = "notify"
                                            /\ ~m_shutdown

USE DEF server, outcome, aborts, eventThread, threads

-----------------------------------------------------------------------------
(* Types.                                                                  *)

(***************************************************************************)
(* Removing an element keeps the type of a sequence.                       *)
(***************************************************************************)
LEMMA RemoveAtType ==
    ASSUME NEW S, NEW s \in Seq(S), NEW i \in DOMAIN s
    PROVE  RemoveAt(s, i) \in Seq(S)
BY DEF RemoveAt

(***************************************************************************)
(* So does removing the first one.                                         *)
(***************************************************************************)
LEMMA TailType ==
    ASSUME NEW S, NEW s \in Seq(S), s # <<>>
    PROVE  Tail(s) \in Seq(S)
OBVIOUS

(***************************************************************************)
(* The threads and the contents of a setup are those of the constants.     *)
(***************************************************************************)
LEMMA SetupIs ==
    ASSUME TypeOK
    PROVE  /\ setup.users \subseteq Threads
           /\ setup.contents \subseteq Contents
           /\ setup.aborts \in BOOLEAN
BY SelectionAssumption DEF TypeOK, SetupType

(***************************************************************************)
(* The flags apart from the rest: no prover handles both.                  *)
(***************************************************************************)
FlagsOK ==
    /\ {m_result_arrived, m_result_prop, m_shutdown} \subseteq BOOLEAN
    /\ m_result_prop => m_result_arrived
    /\ abort_all \in BOOLEAN

RestOK ==
    /\ setup \in Setups
    /\ x_owner \in Owners
    /\ x_content \in Contents
    /\ asked \in Seq(Contents)
    /\ x_property \in Seq(Contents)
    /\ events \in Seq(EventTypes)
    /\ changes \in Nat
    /\ m_owner \in Owners
    /\ m_abort_set \subseteq Threads
    /\ ev \in {"idle", "abort", "notify"}
    /\ to_abort \subseteq Threads
    /\ content \in Seq(Contents)
    /\ pc \in [Threads -> Places]
    /\ piece \in [Threads -> Seq(Contents)]
    /\ result \in [Threads -> Errors \cup Seq(Contents) \cup {None}]
    /\ last_written \in Seq(Contents)

(***************************************************************************)
(* All variables have their types at the start.                            *)
(***************************************************************************)
LEMMA TypeInit == Init => TypeOK
<1> SUFFICES ASSUME Init PROVE TypeOK
    OBVIOUS
<1>1. FlagsOK
    BY Zenon DEF Init, FlagsOK
<1>2. RestOK
    BY SelectionAssumption DEF Init, RestOK, Places, Reading, Owners, SetupType
<1> QED
    BY <1>1, <1>2 DEF TypeOK, FlagsOK, RestOK

(***************************************************************************)
(* The types name every value the actions assign.                          *)
(***************************************************************************)
LEMMA MembersOfTypes ==
    /\ {"none", "client", "xwmfs"} \subseteq Owners
    /\ {"idle", "check", "convert", "register", "wait", "woken", "unregister", "fill", "read",
        "clear", "store"} \subseteq Places
    /\ {"AGAIN", "INTERRUPTED", "IO_ERROR"} \subseteq Errors
    /\ {"converted", "refused", "own request", "client request"} \subseteq EventTypes
BY DEF Owners, Places, Reading, Errors, EventTypes

(***************************************************************************)
(* Another change of the selection is counted with a natural number.       *)
(***************************************************************************)
LEMMA ChangeType ==
    ASSUME changes \in Nat, Change
    PROVE  changes' \in Nat
BY DEF Change

(***************************************************************************)
(* Contents put together are contents.                                     *)
(***************************************************************************)
LEMMA ContentTypes ==
    /\ <<>> \in Seq(Contents)
    /\ \A c \in Contents : <<c>> \in Seq(Contents)
    /\ \A s \in Seq(Contents), c \in Contents : Append(s, c) \in Seq(Contents)
    /\ \A r, s \in Seq(Contents) : r \o s \in Seq(Contents)
OBVIOUS

(***************************************************************************)
(* Adding an event and removing the first keep the type of the queue.      *)
(***************************************************************************)
LEMMA EventsTypes ==
    ASSUME NEW s \in Seq(EventTypes), NEW e \in EventTypes
    PROVE  /\ Append(s, e) \in Seq(EventTypes)
           /\ s # <<>> => /\ Tail(s) \in Seq(EventTypes)
                          /\ Append(Tail(s), e) \in Seq(EventTypes)
OBVIOUS

(***************************************************************************)
(* Every action keeps the types.                                           *)
(***************************************************************************)
LEMMA TypeNext == TypeOK /\ [Next]_vars => TypeOK'
<1> SUFFICES ASSUME TypeOK, [Next]_vars PROVE TypeOK'
    OBVIOUS
<1>s. /\ setup.users \subseteq Threads /\ setup.contents \subseteq Contents
      /\ RestOK /\ FlagsOK
    BY SetupIs DEF TypeOK, RestOK, FlagsOK
<1>o. observe => UNCHANGED setup
    BY DEF observe

<1>1. ASSUME NEW c \in setup.contents, takeSelection(c), observe
       PROVE  RestOK' /\ FlagsOK'
    <2>1. RestOK'
      BY <1>1, <1>s, <1>o, MembersOfTypes, ChangeType
         DEF RestOK, takeSelection
    <2>2. FlagsOK'
      BY <1>1, <1>s, Zenon DEF FlagsOK, takeSelection
    <2> QED
      BY <2>1, <2>2
<1>2. ASSUME dropSelection, observe
       PROVE  RestOK' /\ FlagsOK'
    <2>1. RestOK'
      BY <1>2, <1>s, <1>o, MembersOfTypes, ChangeType
         DEF RestOK, dropSelection
    <2>2. FlagsOK'
      BY <1>2, <1>s, Zenon DEF FlagsOK, dropSelection
    <2> QED
      BY <2>1, <2>2
<1>3. ASSUME clientRequest, observe
       PROVE  RestOK' /\ FlagsOK'
    <2>1. RestOK'
      <3>1. events' \in Seq(EventTypes)
        BY <1>3, <1>s, EventsTypes, MembersOfTypes DEF clientRequest, RestOK
      <3> QED
        BY <1>3, <3>1, <1>s, <1>o, MembersOfTypes, ChangeType
           DEF RestOK, clientRequest
    <2>2. FlagsOK'
      BY <1>3, <1>s, Zenon DEF FlagsOK, clientRequest
    <2> QED
      BY <2>1, <2>2
<1>4. ASSUME NEW i \in DOMAIN asked, answerRequest(i), observe
       PROVE  RestOK' /\ FlagsOK'
    <2>1. RestOK'
      <3>1. events' \in Seq(EventTypes)
        BY <1>4, <1>s, EventsTypes, MembersOfTypes DEF answerRequest, RestOK
      <3>2. asked[i] \in Contents
        BY <1>4, <1>s DEF RestOK
      <3>3. x_property' \in Seq(Contents)
        BY <1>4, <1>s, <3>2, ContentTypes, Zenon DEF answerRequest, Selected, RestOK
      <3>4. asked' \in Seq(Contents)
        BY <1>4, <1>s, RemoveAtType DEF answerRequest, RestOK
      <3> QED
        BY <1>4, <3>1, <3>2, <3>3, <3>4, <1>s, <1>o, MembersOfTypes, RemoveAtType
           DEF RestOK, answerRequest, Selected
    <2>2. FlagsOK'
      BY <1>4, <1>s, Zenon DEF FlagsOK, answerRequest, Selected
    <2> QED
      BY <2>1, <2>2
<1>5. ASSUME NEW good \in BOOLEAN, reportConversionResult(good), observe
       PROVE  RestOK' /\ FlagsOK'
    <2>1. RestOK'
      <3>1. events' \in Seq(EventTypes)
        BY <1>5, <1>s, TailType DEF reportConversionResult, NextEventIs, RestOK
      <3>2. pc' \in [Threads -> Places]
        BY <1>5, <1>s, MembersOfTypes DEF reportConversionResult, signal, MoveTo, RestOK
      <3> QED
        BY <1>5, <3>1, <3>2, <1>s, <1>o, MembersOfTypes
           DEF RestOK, reportConversionResult, NextEventIs, Arrived, signal, MoveTo
    <2>2. FlagsOK'
      BY <1>5, <1>s, Zenon
         DEF FlagsOK, reportConversionResult, NextEventIs, Arrived, signal, MoveTo
    <2> QED
      BY <2>1, <2>2
<1>6. ASSUME conversionRequest, observe
       PROVE  RestOK' /\ FlagsOK'
    <2>1. RestOK'
      <3>1. events' \in Seq(EventTypes)
        BY <1>6, <1>s, EventsTypes, MembersOfTypes
           DEF conversionRequest, NextEventIs, RestOK
      <3> QED
        BY <1>6, <3>1, <1>s, <1>o, MembersOfTypes
           DEF RestOK, conversionRequest, NextEventIs
    <2>2. FlagsOK'
      BY <1>6, <1>s, Zenon DEF FlagsOK, conversionRequest, NextEventIs
    <2> QED
      BY <2>1, <2>2
<1>7. ASSUME abortAllBlockingCalls, observe
       PROVE  RestOK' /\ FlagsOK'
    <2>1. RestOK'
      BY <1>7, <1>s, <1>o, MembersOfTypes
         DEF RestOK, abortAllBlockingCalls, abort, Registered
    <2>2. FlagsOK'
      BY <1>7, <1>s, Zenon
         DEF FlagsOK, abortAllBlockingCalls, abort, Registered
    <2> QED
      BY <2>1, <2>2
<1>8. ASSUME NEW t \in setup.users, updateOwner(t), observe
       PROVE  RestOK' /\ FlagsOK'
    <2>1. RestOK'
      BY <1>8, <1>s, <1>o, MembersOfTypes
         DEF RestOK, updateOwner, MoveTo
    <2>2. FlagsOK'
      BY <1>8, <1>s, Zenon DEF FlagsOK, updateOwner, MoveTo
    <2> QED
      BY <2>1, <2>2
<1>9. ASSUME NEW t \in setup.users, checkOwner(t), observe
       PROVE  RestOK' /\ FlagsOK'
    <2>1. RestOK'
      BY <1>9, <1>s, <1>o, MembersOfTypes
         DEF RestOK, checkOwner, MoveTo, Return
    <2>2. FlagsOK'
      BY <1>9, <1>s, Zenon DEF FlagsOK, checkOwner, MoveTo, Return
    <2> QED
      BY <2>1, <2>2
<1>10. ASSUME NEW t \in setup.users, requestConversion(t), observe
       PROVE  RestOK' /\ FlagsOK'
    <2>1. RestOK'
      <3>1. events' \in Seq(EventTypes)
        BY <1>10, <1>s, EventsTypes, MembersOfTypes
           DEF requestConversion, convertSelection, RestOK, Owners
      <3>2. asked' \in Seq(Contents)
        BY <1>10, <1>s, ContentTypes DEF requestConversion, convertSelection, RestOK
      <3>3. /\ m_abort_set' \subseteq Threads /\ pc' \in [Threads -> Places]
           /\ result' \in [Threads -> Errors \cup Seq(Contents) \cup {None}]
        BY <1>10, <1>s, MembersOfTypes DEF requestConversion, block, MoveTo, Return, RestOK
      <3> QED
        BY <1>10, <3>1, <3>2, <3>3, <1>s, <1>o, MembersOfTypes
           DEF RestOK, requestConversion, convertSelection, Reset, block, MoveTo, Return
    <2>2. FlagsOK'
      BY <1>10, <1>s, Zenon
         DEF FlagsOK, requestConversion, convertSelection, Reset, block, MoveTo, Return
    <2> QED
      BY <2>1, <2>2
<1>11. ASSUME NEW t \in setup.users, waitAgain(t), observe
       PROVE  RestOK' /\ FlagsOK'
    <2>1. RestOK'
      BY <1>11, <1>s, <1>o, MembersOfTypes
         DEF RestOK, waitAgain, finishedBlockingCall, block, MoveTo, Return
    <2>2. FlagsOK'
      BY <1>11, <1>s, Zenon
         DEF FlagsOK, waitAgain, finishedBlockingCall, block, MoveTo, Return
    <2> QED
      BY <2>1, <2>2
<1>12. ASSUME NEW t \in setup.users, takeResult(t), observe
       PROVE  RestOK' /\ FlagsOK'
    <2>1. RestOK'
      <3>1. content' \in Seq(Contents)
        BY <1>12, <1>s, ContentTypes DEF takeResult, finishedBlockingCall, RestOK
      <3>2. piece' \in [Threads -> Seq(Contents)]
        BY <1>12, <1>s, ContentTypes DEF takeResult, finishedBlockingCall, RestOK
      <3>3. pc' \in [Threads -> Places]
        BY <1>12, <1>s, MembersOfTypes
           DEF takeResult, finishedBlockingCall, MoveTo, Return, RestOK
      <3>4. result' \in [Threads -> Errors \cup Seq(Contents) \cup {None}]
        BY <1>12, <1>s, MembersOfTypes DEF takeResult, finishedBlockingCall, Return, RestOK
      <3> QED
        BY <1>12, <3>1, <3>2, <3>3, <3>4, <1>s, <1>o
           DEF RestOK, takeResult, finishedBlockingCall
    <2>2. FlagsOK'
      BY <1>12, <1>s, Zenon
         DEF FlagsOK, takeResult, finishedBlockingCall, MoveTo, Return, Consumed
    <2> QED
      BY <2>1, <2>2
<1>13. ASSUME NEW t \in setup.users, fillContent(t), observe
       PROVE  RestOK' /\ FlagsOK'
    <2>1. RestOK'
      <3>1. content' \in Seq(Contents)
        BY <1>13, <1>s, ContentTypes DEF fillContent, RestOK
      <3> QED
        BY <1>13, <3>1, <1>s, <1>o, MembersOfTypes
           DEF RestOK, fillContent, MoveTo
    <2>2. FlagsOK'
      BY <1>13, <1>s, Zenon DEF FlagsOK, fillContent, MoveTo
    <2> QED
      BY <2>1, <2>2
<1>14. ASSUME NEW t \in setup.users, readContent(t), observe
       PROVE  RestOK' /\ FlagsOK'
    <2>1. RestOK'
      BY <1>14, <1>s, <1>o, MembersOfTypes
         DEF RestOK, readContent, MoveTo, Return
    <2>2. FlagsOK'
      BY <1>14, <1>s, Zenon DEF FlagsOK, readContent, MoveTo, Return
    <2> QED
      BY <2>1, <2>2
<1>15. ASSUME NEW t \in setup.users, abortBlockingCall(t), observe
       PROVE  RestOK' /\ FlagsOK'
    <2>1. RestOK'
      BY <1>15, <1>s, <1>o, MembersOfTypes
         DEF RestOK, abortBlockingCall, abort, Registered
    <2>2. FlagsOK'
      BY <1>15, <1>s, Zenon DEF FlagsOK, abortBlockingCall, abort, Registered
    <2> QED
      BY <2>1, <2>2
<1>16. ASSUME NEW t \in setup.users, spuriousWakeup(t), observe
       PROVE  RestOK' /\ FlagsOK'
    <2>1. RestOK'
      BY <1>16, <1>s, <1>o, MembersOfTypes
         DEF RestOK, spuriousWakeup, MoveTo
    <2>2. FlagsOK'
      BY <1>16, <1>s, Zenon DEF FlagsOK, spuriousWakeup, MoveTo
    <2> QED
      BY <2>1, <2>2
<1>17. ASSUME NEW t \in setup.users, clearContent(t), observe
       PROVE  RestOK' /\ FlagsOK'
    <2>1. RestOK'
      <3>1. content' \in Seq(Contents)
        BY <1>17, <1>s, ContentTypes DEF clearContent, Cleared, RestOK
      <3> QED
        BY <1>17, <3>1, <1>s, <1>o, MembersOfTypes
           DEF RestOK, clearContent, MoveTo, Cleared
    <2>2. FlagsOK'
      BY <1>17, <1>s, Zenon DEF FlagsOK, clearContent, MoveTo, Cleared
    <2> QED
      BY <2>1, <2>2
<1>18. ASSUME NEW t \in setup.users, storeContent(t), observe
       PROVE  RestOK' /\ FlagsOK'
    <2>1. RestOK'
      <3>1. content' \in Seq(Contents)
        BY <1>18, <1>s, ContentTypes DEF storeContent, RestOK
      <3>2. last_written' \in Seq(Contents)
        BY <1>18, <1>s, ContentTypes DEF storeContent, RestOK
      <3> QED
        BY <1>18, <3>1, <3>2, <1>s, <1>o, MembersOfTypes
           DEF RestOK, storeContent, MoveTo
    <2>2. FlagsOK'
      BY <1>18, <1>s, Zenon DEF FlagsOK, storeContent, MoveTo
    <2> QED
      BY <2>1, <2>2
<1>19. ASSUME NEW t \in setup.users, NEW c \in setup.contents,
              makeSelectionOwner(t, c), observe
       PROVE  RestOK' /\ FlagsOK'
    <2>1. RestOK'
      <3>1. piece' \in [Threads -> Seq(Contents)]
        BY <1>19, <1>s, ContentTypes DEF makeSelectionOwner, RestOK
      <3> QED
        BY <1>19, <3>1, <1>s, <1>o, MembersOfTypes, ChangeType
           DEF RestOK, makeSelectionOwner, MoveTo
    <2>2. FlagsOK'
      BY <1>19, <1>s, Zenon DEF FlagsOK, makeSelectionOwner, MoveTo
    <2> QED
      BY <2>1, <2>2
<1>20. CASE UNCHANGED vars
    BY <1>20 DEF vars, TypeOK
<1>21. ASSUME NEW t \in setup.users, relock(t), observe
       PROVE  RestOK' /\ FlagsOK'
    <2>1. RestOK'
      BY <1>21, <1>s, <1>o, MembersOfTypes DEF RestOK, relock, MoveTo
    <2>2. FlagsOK'
      BY <1>21, <1>s, Zenon DEF FlagsOK, relock, MoveTo
    <2> QED
      BY <2>1, <2>2
<1>22. ASSUME NEW t \in setup.users, prepareBlockingCall(t), observe
       PROVE  RestOK' /\ FlagsOK'
    <2>1. RestOK'
      BY <1>22, <1>s, <1>o, MembersOfTypes DEF RestOK, prepareBlockingCall, MoveTo, Return
    <2>2. FlagsOK'
      BY <1>22, <1>s, Zenon DEF FlagsOK, prepareBlockingCall, MoveTo, Return
    <2> QED
      BY <2>1, <2>2
<1>23. ASSUME NEW t \in Threads, recordAbort(t), observe
       PROVE  RestOK' /\ FlagsOK'
    <2>1. RestOK'
      BY <1>23, <1>s, <1>o, MembersOfTypes DEF RestOK, recordAbort
    <2>2. FlagsOK'
      BY <1>23, <1>s, Zenon DEF FlagsOK, recordAbort
    <2> QED
      BY <2>1, <2>2
<1>24. ASSUME broadcast, observe
       PROVE  RestOK' /\ FlagsOK'
    <2>1. RestOK'
      BY <1>24, <1>s, <1>o, MembersOfTypes DEF RestOK, broadcast, WakeAborted
    <2>2. FlagsOK'
      BY <1>24, <1>s, Zenon DEF FlagsOK, broadcast, WakeAborted
    <2> QED
      BY <2>1, <2>2
<1>25. ASSUME finishAbort, observe
       PROVE  RestOK' /\ FlagsOK'
    <2>1. RestOK'
      BY <1>25, <1>s, <1>o, MembersOfTypes DEF RestOK, finishAbort
    <2>2. FlagsOK'
      BY <1>25, <1>s, Zenon DEF FlagsOK, finishAbort
    <2> QED
      BY <2>1, <2>2
<1>t. RestOK' /\ FlagsOK' => TypeOK'
    BY DEF RestOK, FlagsOK, TypeOK
<1> QED
    BY <1>t, <1>1, <1>2, <1>3, <1>4, <1>5, <1>6, <1>7, <1>8, <1>9, <1>10, <1>11, <1>12,
       <1>13, <1>14, <1>15, <1>16, <1>17, <1>18, <1>19, <1>20,
       <1>21, <1>22, <1>23, <1>24, <1>25
       DEF Next, client, answer, eventThreadStep, aborting, readerStep, writerStep
-----------------------------------------------------------------------------
(* The only user and what it wrote.                                        *)

(***************************************************************************)
(* Nobody but the user leaves `idle`.                                      *)
(***************************************************************************)
LEMMA SoleNext ==
    ASSUME TypeOK, [Next]_vars, NEW u \in Threads, Sole(u)
    PROVE  Sole(u)'
<1>o. observe => UNCHANGED setup
    BY DEF observe
<1>s. setup.users = {u} /\ pc \in [Threads -> Places]
    BY DEF Sole, TypeOK
<1>1. ASSUME NEW c \in setup.contents, takeSelection(c), observe
       PROVE  Sole(u)'
    BY <1>1, <1>o, <1>s DEF Sole, takeSelection
<1>2. ASSUME dropSelection, observe
       PROVE  Sole(u)'
    BY <1>2, <1>o, <1>s DEF Sole, dropSelection
<1>3. ASSUME clientRequest, observe
       PROVE  Sole(u)'
    BY <1>3, <1>o, <1>s DEF Sole, clientRequest
<1>4. ASSUME NEW i \in DOMAIN asked, answerRequest(i), observe
       PROVE  Sole(u)'
    BY <1>4, <1>o, <1>s DEF Sole, answerRequest, Selected
<1>5. ASSUME NEW good \in BOOLEAN, reportConversionResult(good), observe
       PROVE  Sole(u)'
    BY <1>5, <1>o, <1>s
       DEF Sole, reportConversionResult, NextEventIs, Arrived, signal, MoveTo
<1>6. ASSUME conversionRequest, observe
       PROVE  Sole(u)'
    BY <1>6, <1>o, <1>s DEF Sole, conversionRequest, NextEventIs
<1>7. ASSUME abortAllBlockingCalls, observe
       PROVE  Sole(u)'
    BY <1>7, <1>o, <1>s DEF Sole, abortAllBlockingCalls, abort, Registered
<1>8. ASSUME NEW t \in setup.users, updateOwner(t), observe
       PROVE  Sole(u)'
    BY <1>8, <1>o, <1>s DEF Sole, updateOwner, MoveTo
<1>9. ASSUME NEW t \in setup.users, checkOwner(t), observe
       PROVE  Sole(u)'
    BY <1>9, <1>o, <1>s DEF Sole, checkOwner, MoveTo, Return
<1>10. ASSUME NEW t \in setup.users, requestConversion(t), observe
       PROVE  Sole(u)'
    BY <1>10, <1>o, <1>s
       DEF Sole, requestConversion, convertSelection, Reset, block, MoveTo, Return
<1>11. ASSUME NEW t \in setup.users, waitAgain(t), observe
       PROVE  Sole(u)'
    BY <1>11, <1>o, <1>s DEF Sole, waitAgain, finishedBlockingCall, block, MoveTo, Return
<1>12. ASSUME NEW t \in setup.users, takeResult(t), observe
       PROVE  Sole(u)'
    BY <1>12, <1>o, <1>s
       DEF Sole, takeResult, finishedBlockingCall, MoveTo, Return, Consumed
<1>13. ASSUME NEW t \in setup.users, fillContent(t), observe
       PROVE  Sole(u)'
    BY <1>13, <1>o, <1>s DEF Sole, fillContent, MoveTo
<1>14. ASSUME NEW t \in setup.users, readContent(t), observe
       PROVE  Sole(u)'
    BY <1>14, <1>o, <1>s DEF Sole, readContent, MoveTo, Return
<1>15. ASSUME NEW t \in setup.users, abortBlockingCall(t), observe
       PROVE  Sole(u)'
    BY <1>15, <1>o, <1>s DEF Sole, abortBlockingCall, abort, Registered
<1>16. ASSUME NEW t \in setup.users, spuriousWakeup(t), observe
       PROVE  Sole(u)'
    BY <1>16, <1>o, <1>s DEF Sole, spuriousWakeup, MoveTo
<1>17. ASSUME NEW t \in setup.users, clearContent(t), observe
       PROVE  Sole(u)'
    BY <1>17, <1>o, <1>s DEF Sole, clearContent, MoveTo, Cleared
<1>18. ASSUME NEW t \in setup.users, storeContent(t), observe
       PROVE  Sole(u)'
    BY <1>18, <1>o, <1>s DEF Sole, storeContent, MoveTo
<1>19. ASSUME NEW t \in setup.users, NEW c \in setup.contents,
              makeSelectionOwner(t, c), observe
       PROVE  Sole(u)'
    BY <1>19, <1>o, <1>s DEF Sole, makeSelectionOwner, MoveTo
<1>20. CASE UNCHANGED vars
    BY <1>20 DEF vars, Sole
<1>21. ASSUME NEW t \in setup.users, relock(t), observe
       PROVE  Sole(u)'
    BY <1>21, <1>o, <1>s DEF Sole, relock, MoveTo
<1>22. ASSUME NEW t \in setup.users, prepareBlockingCall(t), observe
       PROVE  Sole(u)'
    BY <1>22, <1>o, <1>s DEF Sole, prepareBlockingCall, MoveTo, Return
<1>23. ASSUME NEW t \in Threads, recordAbort(t), observe
       PROVE  Sole(u)'
    BY <1>23, <1>o, <1>s DEF Sole, recordAbort
<1>24. ASSUME broadcast, observe
       PROVE  Sole(u)'
    BY <1>24, <1>o, <1>s DEF Sole, broadcast, WakeAborted
<1>25. ASSUME finishAbort, observe
       PROVE  Sole(u)'
    BY <1>25, <1>o, <1>s DEF Sole, finishAbort
<1> QED
    BY <1>1, <1>2, <1>3, <1>4, <1>5, <1>6, <1>7, <1>8, <1>9, <1>10, <1>11, <1>12, <1>13,
       <1>14, <1>15, <1>16, <1>17, <1>18, <1>19, <1>20,
       <1>21, <1>22, <1>23, <1>24, <1>25
       DEF Next, client, answer, eventThreadStep, aborting, readerStep, writerStep

(***************************************************************************)
(* Every action keeps the content of the owner.                            *)
(***************************************************************************)
LEMMA KeptNext ==
    ASSUME TypeOK, [Next]_vars, NEW u \in Threads, Kept(u)
    PROVE  Kept(u)'
<1>o. observe => UNCHANGED setup
    BY DEF observe
<1>s. /\ setup.users = {u} /\ pc \in [Threads -> Places] /\ Sole(u)'
      /\ content \in Seq(Contents) /\ piece \in [Threads -> Seq(Contents)]
      /\ m_owner \in Owners
    BY SoleNext DEF Kept, Sole, TypeOK
<1>1. ASSUME NEW c \in setup.contents, takeSelection(c), observe
       PROVE  Kept(u)'
    BY <1>1, <1>o, <1>s DEF Kept, Sole, Writing, Owners, takeSelection
<1>2. ASSUME dropSelection, observe
       PROVE  Kept(u)'
    BY <1>2, <1>o, <1>s DEF Kept, Sole, Writing, Owners, dropSelection
<1>3. ASSUME clientRequest, observe
       PROVE  Kept(u)'
    BY <1>3, <1>o, <1>s DEF Kept, Sole, Writing, Owners, clientRequest
<1>4. ASSUME NEW i \in DOMAIN asked, answerRequest(i), observe
       PROVE  Kept(u)'
    BY <1>4, <1>o, <1>s DEF Kept, Sole, Writing, Owners, answerRequest, Selected
<1>5. ASSUME NEW good \in BOOLEAN, reportConversionResult(good), observe
       PROVE  Kept(u)'
    BY <1>5, <1>o, <1>s
       DEF Kept, Sole, Writing, Owners, reportConversionResult, NextEventIs, Arrived,
           signal, MoveTo
<1>6. ASSUME conversionRequest, observe
       PROVE  Kept(u)'
    BY <1>6, <1>o, <1>s DEF Kept, Sole, Writing, Owners, conversionRequest, NextEventIs
<1>7. ASSUME abortAllBlockingCalls, observe
       PROVE  Kept(u)'
    BY <1>7, <1>o, <1>s
       DEF Kept, Sole, Writing, Owners, abortAllBlockingCalls, abort, Registered
<1>8. ASSUME NEW t \in setup.users, updateOwner(t), observe
       PROVE  Kept(u)'
    BY <1>8, <1>o, <1>s DEF Kept, Sole, Writing, Owners, updateOwner, MoveTo
<1>9. ASSUME NEW t \in setup.users, checkOwner(t), observe
       PROVE  Kept(u)'
    BY <1>9, <1>o, <1>s DEF Kept, Sole, Writing, Owners, checkOwner, MoveTo, Return
<1>10. ASSUME NEW t \in setup.users, requestConversion(t), observe
       PROVE  Kept(u)'
    BY <1>10, <1>o, <1>s
       DEF Kept, Sole, Writing, Owners, requestConversion, convertSelection, Reset, block,
           MoveTo, Return
<1>11. ASSUME NEW t \in setup.users, waitAgain(t), observe
       PROVE  Kept(u)'
    BY <1>11, <1>o, <1>s
       DEF Kept, Sole, Writing, Owners, waitAgain, finishedBlockingCall, block, MoveTo,
           Return
<1>12. ASSUME NEW t \in setup.users, takeResult(t), observe
       PROVE  Kept(u)'
    BY <1>12, <1>o, <1>s
       DEF Kept, Sole, Writing, Owners, takeResult, finishedBlockingCall, MoveTo, Return,
           Consumed
<1>13. ASSUME NEW t \in setup.users, fillContent(t), observe
       PROVE  Kept(u)'
    BY <1>13, <1>o, <1>s DEF Kept, Sole, Writing, Owners, fillContent, MoveTo
<1>14. ASSUME NEW t \in setup.users, readContent(t), observe
       PROVE  Kept(u)'
    BY <1>14, <1>o, <1>s DEF Kept, Sole, Writing, Owners, readContent, MoveTo, Return
<1>15. ASSUME NEW t \in setup.users, abortBlockingCall(t), observe
       PROVE  Kept(u)'
    BY <1>15, <1>o, <1>s
       DEF Kept, Sole, Writing, Owners, abortBlockingCall, abort, Registered
<1>16. ASSUME NEW t \in setup.users, spuriousWakeup(t), observe
       PROVE  Kept(u)'
    BY <1>16, <1>o, <1>s DEF Kept, Sole, Writing, Owners, spuriousWakeup, MoveTo
<1>17. ASSUME NEW t \in setup.users, clearContent(t), observe
       PROVE  Kept(u)'
    BY <1>17, <1>o, <1>s DEF Kept, Sole, Writing, Owners, clearContent, MoveTo, Cleared
<1>18. ASSUME NEW t \in setup.users, storeContent(t), observe
       PROVE  Kept(u)'
    BY <1>18, <1>o, <1>s DEF Kept, Sole, Writing, Owners, storeContent, MoveTo
<1>19. ASSUME NEW t \in setup.users, NEW c \in setup.contents,
              makeSelectionOwner(t, c), observe
       PROVE  Kept(u)'
    BY <1>19, <1>o, <1>s DEF Kept, Sole, Writing, Owners, makeSelectionOwner, MoveTo
<1>20. CASE UNCHANGED vars
    BY <1>20 DEF vars, Kept, Sole, Writing, Owners
<1>21. ASSUME NEW t \in setup.users, relock(t), observe
       PROVE  Kept(u)'
    BY <1>21, <1>o, <1>s DEF Kept, Sole, Writing, Owners, relock, MoveTo
<1>22. ASSUME NEW t \in setup.users, prepareBlockingCall(t), observe
       PROVE  Kept(u)'
    BY <1>22, <1>o, <1>s
       DEF Kept, Sole, Writing, Owners, prepareBlockingCall, MoveTo, Return
<1>23. ASSUME NEW t \in Threads, recordAbort(t), observe
       PROVE  Kept(u)'
    BY <1>23, <1>o, <1>s DEF Kept, Sole, Writing, Owners, recordAbort
<1>24. ASSUME broadcast, observe
       PROVE  Kept(u)'
    BY <1>24, <1>o, <1>s DEF Kept, Sole, Writing, Owners, broadcast, WakeAborted
<1>25. ASSUME finishAbort, observe
       PROVE  Kept(u)'
    BY <1>25, <1>o, <1>s DEF Kept, Sole, Writing, Owners, finishAbort
<1> QED
    BY <1>1, <1>2, <1>3, <1>4, <1>5, <1>6, <1>7, <1>8, <1>9, <1>10, <1>11, <1>12, <1>13,
       <1>14, <1>15, <1>16, <1>17, <1>18, <1>19, <1>20,
       <1>21, <1>22, <1>23, <1>24, <1>25
       DEF Next, client, answer, eventThreadStep, aborting, readerStep, writerStep

-----------------------------------------------------------------------------
(* The queue of events and the requests.                                   *)

(***************************************************************************)
(* A new event is the last one.                                            *)
(***************************************************************************)
LEMMA EventsAppended ==
    ASSUME events \in Seq(EventTypes), NEW e \in EventTypes, events' = Append(events, e)
    PROVE  \A i \in DOMAIN events' :
              \/ i \in DOMAIN events /\ events'[i] = events[i]
              \/ i = Len(events) + 1 /\ events'[i] = e
OBVIOUS

(***************************************************************************)
(* The others move up when the first event is handled.                     *)
(***************************************************************************)
LEMMA EventsRemoved ==
    ASSUME events \in Seq(EventTypes), events # <<>>, events' = Tail(events)
    PROVE  /\ 1 \in DOMAIN events /\ Head(events) = events[1]
           /\ \A i \in DOMAIN events' : /\ i \in Nat \ {0}
                                        /\ i + 1 \in DOMAIN events
                                        /\ events'[i] = events[i + 1]
OBVIOUS

(***************************************************************************)
(* An own request is replaced by its answer, the last event.               *)
(***************************************************************************)
LEMMA EventsReplaced ==
    ASSUME events \in Seq(EventTypes), events # <<>>, NEW e \in EventTypes,
           events' = Append(Tail(events), e)
    PROVE  /\ 1 \in DOMAIN events /\ Head(events) = events[1]
           /\ \A i \in DOMAIN events' : /\ i \in Nat \ {0}
                                        /\ \/ i + 1 \in DOMAIN events /\ events'[i] = events[i + 1]
                                           \/ i = Len(events) /\ events'[i] = e
OBVIOUS

(***************************************************************************)
(* When the only request is answered, none is left.                        *)
(***************************************************************************)
LEMMA OnlyRequestRemoved ==
    ASSUME asked \in Seq(Contents), Len(asked) = 1, NEW i \in DOMAIN asked
    PROVE  RemoveAt(asked, i) = <<>>
BY DEF RemoveAt

-----------------------------------------------------------------------------
(* The conversion of the only user.                                        *)

(***************************************************************************)
(* Nothing is interrupted in a setup without aborts.                       *)
(***************************************************************************)
LEMMA NoInterruption ==
    ASSUME TypeOK, [Next]_vars, ~setup.aborts, NeverInterrupted
    PROVE  NeverInterrupted'
<1>s. UNCHANGED setup
    BY DEF Next, vars, observe

<1>1. ASSUME NEW c \in setup.contents, takeSelection(c), observe
       PROVE  NeverInterrupted'
    BY <1>1, <1>s DEF NeverInterrupted, takeSelection
<1>2. ASSUME dropSelection, observe
       PROVE  NeverInterrupted'
    BY <1>2, <1>s DEF NeverInterrupted, dropSelection
<1>3. ASSUME clientRequest, observe
       PROVE  NeverInterrupted'
    BY <1>3, <1>s DEF NeverInterrupted, clientRequest
<1>4. ASSUME NEW i \in DOMAIN asked, answerRequest(i), observe
       PROVE  NeverInterrupted'
    BY <1>4, <1>s DEF NeverInterrupted, answerRequest, Selected
<1>5. ASSUME NEW good \in BOOLEAN, reportConversionResult(good), observe
       PROVE  NeverInterrupted'
    BY <1>5, <1>s
       DEF NeverInterrupted, reportConversionResult, NextEventIs, Arrived, signal, MoveTo
<1>6. ASSUME conversionRequest, observe
       PROVE  NeverInterrupted'
    BY <1>6, <1>s DEF NeverInterrupted, conversionRequest, NextEventIs
<1>7. ASSUME abortAllBlockingCalls, observe
       PROVE  NeverInterrupted'
    BY <1>7, <1>s
       DEF NeverInterrupted, abortAllBlockingCalls, abort, Registered
<1>8. ASSUME NEW t \in setup.users, updateOwner(t), observe
       PROVE  NeverInterrupted'
    BY <1>8, <1>s DEF NeverInterrupted, updateOwner, MoveTo
<1>9. ASSUME NEW t \in setup.users, checkOwner(t), observe
       PROVE  NeverInterrupted'
    BY <1>9, <1>s DEF NeverInterrupted, checkOwner, MoveTo, Return
<1>10. ASSUME NEW t \in setup.users, requestConversion(t), observe
       PROVE  NeverInterrupted'
    BY <1>10, <1>s
       DEF NeverInterrupted, requestConversion, convertSelection, Reset, block, MoveTo,
           Return
<1>11. ASSUME NEW t \in setup.users, waitAgain(t), observe
       PROVE  NeverInterrupted'
    BY <1>11, <1>s
       DEF NeverInterrupted, waitAgain, finishedBlockingCall, block, MoveTo, Return
<1>12. ASSUME NEW t \in setup.users, takeResult(t), observe
       PROVE  NeverInterrupted'
    BY <1>12, <1>s
       DEF NeverInterrupted, takeResult, finishedBlockingCall, MoveTo, Return, Consumed
<1>13. ASSUME NEW t \in setup.users, fillContent(t), observe
       PROVE  NeverInterrupted'
    BY <1>13, <1>s DEF NeverInterrupted, fillContent, MoveTo
<1>14. ASSUME NEW t \in setup.users, readContent(t), observe
       PROVE  NeverInterrupted'
    BY <1>14, <1>s DEF NeverInterrupted, readContent, MoveTo, Return
<1>15. ASSUME NEW t \in setup.users, abortBlockingCall(t), observe
       PROVE  NeverInterrupted'
    BY <1>15, <1>s DEF NeverInterrupted, abortBlockingCall, abort, Registered
<1>16. ASSUME NEW t \in setup.users, spuriousWakeup(t), observe
       PROVE  NeverInterrupted'
    BY <1>16, <1>s DEF NeverInterrupted, spuriousWakeup, MoveTo
<1>17. ASSUME NEW t \in setup.users, clearContent(t), observe
       PROVE  NeverInterrupted'
    BY <1>17, <1>s DEF NeverInterrupted, clearContent, MoveTo, Cleared
<1>18. ASSUME NEW t \in setup.users, storeContent(t), observe
       PROVE  NeverInterrupted'
    BY <1>18, <1>s DEF NeverInterrupted, storeContent, MoveTo
<1>19. ASSUME NEW t \in setup.users, NEW c \in setup.contents,
              makeSelectionOwner(t, c), observe
       PROVE  NeverInterrupted'
    BY <1>19, <1>s DEF NeverInterrupted, makeSelectionOwner, MoveTo
<1>20. CASE UNCHANGED vars
    BY <1>20 DEF vars, NeverInterrupted
<1>21. ASSUME NEW t \in setup.users, relock(t), observe
       PROVE  NeverInterrupted'
    BY <1>21, <1>s DEF NeverInterrupted, relock, MoveTo
<1>22. ASSUME NEW t \in setup.users, prepareBlockingCall(t), observe
       PROVE  NeverInterrupted'
    BY <1>22, <1>s DEF NeverInterrupted, prepareBlockingCall, MoveTo, Return
<1>23. ASSUME NEW t \in Threads, recordAbort(t), observe
       PROVE  NeverInterrupted'
    BY <1>23, <1>s DEF NeverInterrupted, recordAbort
<1>24. ASSUME broadcast, observe
       PROVE  NeverInterrupted'
    BY <1>24, <1>s DEF NeverInterrupted, broadcast, WakeAborted
<1>25. ASSUME finishAbort, observe
       PROVE  NeverInterrupted'
    BY <1>25, <1>s DEF NeverInterrupted, finishAbort
<1> QED
    BY <1>1, <1>2, <1>3, <1>4, <1>5, <1>6, <1>7, <1>8, <1>9, <1>10, <1>11, <1>12, <1>13,
       <1>14, <1>15, <1>16, <1>17, <1>18, <1>19, <1>20,
       <1>21, <1>22, <1>23, <1>24, <1>25
       DEF Next, client, answer, eventThreadStep, aborting, readerStep, writerStep

(***************************************************************************)
(* Threads that are not users never return anything.                       *)
(***************************************************************************)
LEMMA OthersNext ==
    ASSUME TypeOK, [Next]_vars, NEW u \in Threads, Sole(u), OthersNoResult(u)
    PROVE  OthersNoResult(u)'
<1>o. observe => UNCHANGED setup
    BY DEF observe
<1>s. setup.users = {u} /\ result \in [Threads -> Errors \cup Seq(Contents) \cup {None}]
    BY DEF Sole, TypeOK
<1>1. ASSUME NEW c \in setup.contents, takeSelection(c), observe
       PROVE  OthersNoResult(u)'
    BY <1>1, <1>o, <1>s DEF OthersNoResult, takeSelection
<1>2. ASSUME dropSelection, observe
       PROVE  OthersNoResult(u)'
    BY <1>2, <1>o, <1>s DEF OthersNoResult, dropSelection
<1>3. ASSUME clientRequest, observe
       PROVE  OthersNoResult(u)'
    BY <1>3, <1>o, <1>s DEF OthersNoResult, clientRequest
<1>4. ASSUME NEW i \in DOMAIN asked, answerRequest(i), observe
       PROVE  OthersNoResult(u)'
    BY <1>4, <1>o, <1>s DEF OthersNoResult, answerRequest, Selected
<1>5. ASSUME NEW good \in BOOLEAN, reportConversionResult(good), observe
       PROVE  OthersNoResult(u)'
    BY <1>5, <1>o, <1>s
       DEF OthersNoResult, reportConversionResult, NextEventIs, Arrived, signal, MoveTo
<1>6. ASSUME conversionRequest, observe
       PROVE  OthersNoResult(u)'
    BY <1>6, <1>o, <1>s DEF OthersNoResult, conversionRequest, NextEventIs
<1>7. ASSUME abortAllBlockingCalls, observe
       PROVE  OthersNoResult(u)'
    BY <1>7, <1>o, <1>s
       DEF OthersNoResult, abortAllBlockingCalls, abort, Registered
<1>8. ASSUME NEW t \in setup.users, updateOwner(t), observe
       PROVE  OthersNoResult(u)'
    BY <1>8, <1>o, <1>s DEF OthersNoResult, updateOwner, MoveTo
<1>9. ASSUME NEW t \in setup.users, checkOwner(t), observe
       PROVE  OthersNoResult(u)'
    BY <1>9, <1>o, <1>s DEF OthersNoResult, checkOwner, MoveTo, Return
<1>10. ASSUME NEW t \in setup.users, requestConversion(t), observe
       PROVE  OthersNoResult(u)'
    BY <1>10, <1>o, <1>s
       DEF OthersNoResult, requestConversion, convertSelection, Reset, block, MoveTo,
           Return
<1>11. ASSUME NEW t \in setup.users, waitAgain(t), observe
       PROVE  OthersNoResult(u)'
    BY <1>11, <1>o, <1>s
       DEF OthersNoResult, waitAgain, finishedBlockingCall, block, MoveTo, Return
<1>12. ASSUME NEW t \in setup.users, takeResult(t), observe
       PROVE  OthersNoResult(u)'
    BY <1>12, <1>o, <1>s
       DEF OthersNoResult, takeResult, finishedBlockingCall, MoveTo, Return, Consumed
<1>13. ASSUME NEW t \in setup.users, fillContent(t), observe
       PROVE  OthersNoResult(u)'
    BY <1>13, <1>o, <1>s DEF OthersNoResult, fillContent, MoveTo
<1>14. ASSUME NEW t \in setup.users, readContent(t), observe
       PROVE  OthersNoResult(u)'
    BY <1>14, <1>o, <1>s DEF OthersNoResult, readContent, MoveTo, Return
<1>15. ASSUME NEW t \in setup.users, abortBlockingCall(t), observe
       PROVE  OthersNoResult(u)'
    BY <1>15, <1>o, <1>s
       DEF OthersNoResult, abortBlockingCall, abort, Registered
<1>16. ASSUME NEW t \in setup.users, spuriousWakeup(t), observe
       PROVE  OthersNoResult(u)'
    BY <1>16, <1>o, <1>s DEF OthersNoResult, spuriousWakeup, MoveTo
<1>17. ASSUME NEW t \in setup.users, clearContent(t), observe
       PROVE  OthersNoResult(u)'
    BY <1>17, <1>o, <1>s DEF OthersNoResult, clearContent, MoveTo, Cleared
<1>18. ASSUME NEW t \in setup.users, storeContent(t), observe
       PROVE  OthersNoResult(u)'
    BY <1>18, <1>o, <1>s DEF OthersNoResult, storeContent, MoveTo
<1>19. ASSUME NEW t \in setup.users, NEW c \in setup.contents,
              makeSelectionOwner(t, c), observe
       PROVE  OthersNoResult(u)'
    BY <1>19, <1>o, <1>s DEF OthersNoResult, makeSelectionOwner, MoveTo
<1>20. CASE UNCHANGED vars
    BY <1>20 DEF vars, OthersNoResult
<1>21. ASSUME NEW t \in setup.users, relock(t), observe
       PROVE  OthersNoResult(u)'
    BY <1>21, <1>o, <1>s DEF OthersNoResult, relock, MoveTo
<1>22. ASSUME NEW t \in setup.users, prepareBlockingCall(t), observe
       PROVE  OthersNoResult(u)'
    BY <1>22, <1>o, <1>s DEF OthersNoResult, prepareBlockingCall, MoveTo, Return
<1>23. ASSUME NEW t \in Threads, recordAbort(t), observe
       PROVE  OthersNoResult(u)'
    BY <1>23, <1>o, <1>s DEF OthersNoResult, recordAbort
<1>24. ASSUME broadcast, observe
       PROVE  OthersNoResult(u)'
    BY <1>24, <1>o, <1>s DEF OthersNoResult, broadcast, WakeAborted
<1>25. ASSUME finishAbort, observe
       PROVE  OthersNoResult(u)'
    BY <1>25, <1>o, <1>s DEF OthersNoResult, finishAbort
<1> QED
    BY <1>1, <1>2, <1>3, <1>4, <1>5, <1>6, <1>7, <1>8, <1>9, <1>10, <1>11, <1>12, <1>13,
       <1>14, <1>15, <1>16, <1>17, <1>18, <1>19, <1>20,
       <1>21, <1>22, <1>23, <1>24, <1>25
       DEF Next, client, answer, eventThreadStep, aborting, readerStep, writerStep

(***************************************************************************)
(* No action starts a second conversion (a request resets                  *)
(* m_result_arrived, a report sets it when the only conversion is over).   *)
(***************************************************************************)
LEMMA OneConversionNext ==
    ASSUME TypeOK, [Next]_vars, ~setup.aborts, NEW u \in Threads,
           Sole(u), NeverInterrupted, OneConversion(u)
    PROVE  OneConversion(u)'
<1>o. observe => UNCHANGED setup
    BY DEF observe
<1>s. /\ setup.users = {u} /\ pc \in [Threads -> Places] /\ Sole(u)'
      /\ events \in Seq(EventTypes) /\ asked \in Seq(Contents) /\ x_owner \in Owners
    BY SoleNext DEF Sole, TypeOK
<1>1. ASSUME NEW c \in setup.contents, takeSelection(c), observe
       PROVE  OneConversion(u)'
    BY <1>1, <1>o, <1>s DEF OneConversion, UnderWay, Waits, Conversion, takeSelection
<1>2. ASSUME dropSelection, observe
       PROVE  OneConversion(u)'
    BY <1>2, <1>o, <1>s DEF OneConversion, UnderWay, Waits, Conversion, dropSelection
<1>3. ASSUME clientRequest, observe
       PROVE  OneConversion(u)'
    <2>1. events' = Append(events, "client request")
      BY <1>3 DEF clientRequest
    <2>2. \A i \in DOMAIN events' : UnderWay(i)' => i \in DOMAIN events /\ UnderWay(i)
      BY <2>1, <1>s, EventsAppended, MembersOfTypes DEF UnderWay, Conversion
    <2>3. UNCHANGED <<asked, pc, m_result_arrived>>
      BY <1>3 DEF clientRequest
    <2> QED
      BY <2>2, <2>3 DEF OneConversion, Waits
<1>4. ASSUME NEW i \in DOMAIN asked, answerRequest(i), observe
       PROVE  OneConversion(u)'
    <2>1. /\ asked # <<>> /\ Len(asked) = 1 /\ Waits(u) /\ ~m_result_arrived
          /\ \A j \in DOMAIN events : ~UnderWay(j)
      BY <1>s DEF OneConversion
    <2>2. asked' = <<>>
      BY <1>4, <2>1, <1>s, OnlyRequestRemoved DEF answerRequest
    <2>3. PICK e \in EventTypes : events' = Append(events, e)
      BY <1>4, MembersOfTypes DEF answerRequest
    <2>4. \A j \in DOMAIN events' : UnderWay(j)' => j = Len(events) + 1
      BY <2>1, <2>3, <1>s, EventsAppended DEF UnderWay
    <2>5. UNCHANGED <<pc, m_result_arrived>>
      BY <1>4 DEF answerRequest
    <2> QED
      BY <2>1, <2>2, <2>4, <2>5 DEF OneConversion, Waits
<1>5. ASSUME NEW good \in BOOLEAN, reportConversionResult(good), observe
       PROVE  OneConversion(u)'
    <2>1. events # <<>> /\ Head(events) \in Conversion /\ events' = Tail(events)
      BY <1>5 DEF reportConversionResult, NextEventIs, Conversion
    <2>2. 1 \in DOMAIN events /\ UnderWay(1)
      BY <2>1, <1>s, EventsRemoved DEF UnderWay
    <2>3. \A j \in DOMAIN events : UnderWay(j) => j = 1
      BY <2>2 DEF OneConversion
    <2>4. \A j \in DOMAIN events' : ~UnderWay(j)'
      BY <2>1, <2>3, <1>s, EventsRemoved DEF UnderWay
    <2>5. asked' = <<>>
      BY <1>5, <2>2 DEF OneConversion, reportConversionResult
    <2> QED
      BY <2>4, <2>5 DEF OneConversion
<1>6. ASSUME conversionRequest, observe
       PROVE  OneConversion(u)'
    <2>1. CASE NextEventIs("client request") /\ events' = Tail(events)
      <3>1. \A j \in DOMAIN events' : UnderWay(j)' => /\ j \in Nat \ {0}
                                                    /\ j + 1 \in DOMAIN events
                                                    /\ UnderWay(j + 1)
        BY <2>1, <1>s, EventsRemoved DEF UnderWay, NextEventIs
      <3>2. UNCHANGED <<asked, pc, m_result_arrived>>
        BY <1>6 DEF conversionRequest
      <3>3. ASSUME NEW i \in DOMAIN events', NEW j \in DOMAIN events', UnderWay(i)', UnderWay(j)'
            PROVE  i = j
        BY <3>1, <3>3 DEF OneConversion
      <3> QED
        BY <3>1, <3>2, <3>3 DEF OneConversion, Waits
    <2>2. CASE NextEventIs("own request") /\ events' = Append(Tail(events), "converted")
      <3>1. 1 \in DOMAIN events /\ UnderWay(1)
        BY <2>2, <1>s, EventsReplaced, MembersOfTypes DEF UnderWay, NextEventIs, Conversion
      <3>2. \A j \in DOMAIN events : UnderWay(j) => j = 1
        BY <3>1 DEF OneConversion
      <3>3. \A j \in DOMAIN events' : UnderWay(j)' => j = Len(events)
        <4> SUFFICES ASSUME NEW j \in DOMAIN events', UnderWay(j)', j # Len(events)
                     PROVE  FALSE
          OBVIOUS
        <4>1. j \in Nat \ {0} /\ j + 1 \in DOMAIN events /\ events'[j] = events[j + 1]
          BY <2>2, <1>s, EventsReplaced, MembersOfTypes DEF NextEventIs
        <4>2. UnderWay(j + 1)
          BY <4>1 DEF UnderWay
        <4> QED
          BY <3>2, <4>1, <4>2
      <3>4. UNCHANGED <<asked, pc, m_result_arrived>>
        BY <1>6 DEF conversionRequest
      <3> QED
        BY <3>1, <3>3, <3>4 DEF OneConversion, Waits
    <2> QED
      BY <1>6, <2>1, <2>2 DEF conversionRequest
<1>7. ASSUME abortAllBlockingCalls, observe
       PROVE  OneConversion(u)'
    BY <1>7, <1>o, <1>s
       DEF OneConversion, UnderWay, Waits, Conversion, abortAllBlockingCalls, abort,
           Registered
<1>8. ASSUME NEW t \in setup.users, updateOwner(t), observe
       PROVE  OneConversion(u)'
    BY <1>8, <1>o, <1>s DEF OneConversion, UnderWay, Waits, Conversion, updateOwner, MoveTo
<1>9. ASSUME NEW t \in setup.users, checkOwner(t), observe
       PROVE  OneConversion(u)'
    BY <1>9, <1>o, <1>s
       DEF OneConversion, UnderWay, Waits, Conversion, checkOwner, MoveTo, Return
<1>10. ASSUME NEW t \in setup.users, requestConversion(t), observe
       PROVE  OneConversion(u)'
    <2>1. /\ asked = <<>> /\ \A j \in DOMAIN events : ~UnderWay(j)
      BY <1>10, <1>s DEF requestConversion, OneConversion, Waits
    <2>2. Waits(u)' /\ ~m_result_arrived'
      BY <1>10, <1>s DEF requestConversion, block, NeverInterrupted, MoveTo, Waits, Reset
    <2>3. CASE x_owner = "client"
      <3>1. asked' = Append(asked, x_content) /\ events' = events
        BY <1>10, <2>3 DEF requestConversion, convertSelection
      <3> QED
        BY <2>1, <2>2, <3>1, <1>s DEF OneConversion, UnderWay
    <2>4. CASE x_owner # "client"
      <3>1. asked' = <<>>
        BY <1>10, <2>1, <2>4 DEF requestConversion, convertSelection
      <3>2. PICK e \in EventTypes : events' = Append(events, e)
        BY <1>10, <1>s, <2>4, MembersOfTypes DEF requestConversion, convertSelection, Owners
      <3>3. \A j \in DOMAIN events' : UnderWay(j)' => j = Len(events) + 1
        BY <2>1, <3>2, <1>s, EventsAppended DEF UnderWay
      <3> QED
        BY <2>2, <3>1, <3>3 DEF OneConversion
    <2> QED
      BY <2>3, <2>4
<1>11. ASSUME NEW t \in setup.users, waitAgain(t), observe
       PROVE  OneConversion(u)'
    <2>1. Waits(u) /\ Waits(u)'
      BY <1>11, <1>s
         DEF waitAgain, finishedBlockingCall, block, NeverInterrupted, MoveTo, Waits
    <2>2. UNCHANGED <<asked, events, m_result_arrived>>
      BY <1>11 DEF waitAgain, finishedBlockingCall
    <2> QED
      BY <2>1, <2>2 DEF OneConversion, UnderWay
<1>12. ASSUME NEW t \in setup.users, takeResult(t), observe
       PROVE  OneConversion(u)'
    BY <1>12, <1>o, <1>s
       DEF OneConversion, UnderWay, Waits, Conversion, takeResult, finishedBlockingCall,
           MoveTo, Return, Consumed
<1>13. ASSUME NEW t \in setup.users, fillContent(t), observe
       PROVE  OneConversion(u)'
    BY <1>13, <1>o, <1>s DEF OneConversion, UnderWay, Waits, Conversion, fillContent, MoveTo
<1>14. ASSUME NEW t \in setup.users, readContent(t), observe
       PROVE  OneConversion(u)'
    BY <1>14, <1>o, <1>s
       DEF OneConversion, UnderWay, Waits, Conversion, readContent, MoveTo, Return
<1>15. ASSUME NEW t \in setup.users, abortBlockingCall(t), observe
       PROVE  OneConversion(u)'
    BY <1>15, <1>o, <1>s
       DEF OneConversion, UnderWay, Waits, Conversion, abortBlockingCall, abort,
           Registered
<1>16. ASSUME NEW t \in setup.users, spuriousWakeup(t), observe
       PROVE  OneConversion(u)'
    BY <1>16, <1>o, <1>s
       DEF OneConversion, UnderWay, Waits, Conversion, spuriousWakeup, MoveTo
<1>17. ASSUME NEW t \in setup.users, clearContent(t), observe
       PROVE  OneConversion(u)'
    BY <1>17, <1>o, <1>s
       DEF OneConversion, UnderWay, Waits, Conversion, clearContent, MoveTo, Cleared
<1>18. ASSUME NEW t \in setup.users, storeContent(t), observe
       PROVE  OneConversion(u)'
    BY <1>18, <1>o, <1>s
       DEF OneConversion, UnderWay, Waits, Conversion, storeContent, MoveTo
<1>19. ASSUME NEW t \in setup.users, NEW c \in setup.contents,
              makeSelectionOwner(t, c), observe
       PROVE  OneConversion(u)'
    BY <1>19, <1>o, <1>s
       DEF OneConversion, UnderWay, Waits, Conversion, makeSelectionOwner, MoveTo
<1>20. CASE UNCHANGED vars
    BY <1>20 DEF vars, OneConversion, UnderWay, Waits, Conversion
<1>21. ASSUME NEW t \in setup.users, relock(t), observe
       PROVE  OneConversion(u)'
    BY <1>21, <1>o, <1>s
       DEF OneConversion, UnderWay, Waits, Conversion, NeverInterrupted, relock, MoveTo
<1>22. ASSUME NEW t \in setup.users, prepareBlockingCall(t), observe
       PROVE  OneConversion(u)'
    BY <1>22, <1>o, <1>s
       DEF OneConversion, UnderWay, Waits, Conversion, NeverInterrupted,
           prepareBlockingCall, MoveTo, Return
<1>23. ASSUME NEW t \in Threads, recordAbort(t), observe
       PROVE  OneConversion(u)'
    BY <1>23, <1>o, <1>s
       DEF OneConversion, UnderWay, Waits, Conversion, NeverInterrupted, recordAbort
<1>24. ASSUME broadcast, observe
       PROVE  OneConversion(u)'
    BY <1>24, <1>o, <1>s
       DEF OneConversion, UnderWay, Waits, Conversion, NeverInterrupted, broadcast,
           WakeAborted
<1>25. ASSUME finishAbort, observe
       PROVE  OneConversion(u)'
    BY <1>25, <1>o, <1>s
       DEF OneConversion, UnderWay, Waits, Conversion, NeverInterrupted, finishAbort
<1> QED
    BY <1>1, <1>2, <1>3, <1>4, <1>5, <1>6, <1>7, <1>8, <1>9, <1>10, <1>11, <1>12, <1>13,
       <1>14, <1>15, <1>16, <1>17, <1>18, <1>19, <1>20,
       <1>21, <1>22, <1>23, <1>24, <1>25
       DEF Next, client, answer, eventThreadStep, aborting, readerStep, writerStep

(***************************************************************************)
(* What observe records: a read starts with what the selection holds after *)
(* its first step and adds what it holds later.                            *)
(***************************************************************************)
LEMMA Observed ==
    ASSUME NEW u \in Threads, observe
    PROVE  /\ UNCHANGED setup
           /\ pc[u] \in Reading => offered'[u] = offered[u] \cup Selected'
           /\ pc[u] = "idle" /\ pc'[u] = "check" => offered'[u] = Selected'
           /\ ~(pc[u] = "idle" /\ pc'[u] = "check") => offered[u] \subseteq offered'[u]
BY DEF observe, Reading

(***************************************************************************)
(* No action carries a content to the user that the selection did not hold *)
(* during the read.                                                        *)
(***************************************************************************)
LEMMA CarriedNext ==
    ASSUME TypeOK, [Next]_vars, ~setup.aborts, NEW u \in Threads,
           Sole(u), NeverInterrupted, OneConversion(u), Carried(u)
    PROVE  Carried(u)'
<1>s. /\ setup.users = {u} /\ pc \in [Threads -> Places] /\ Sole(u)'
      /\ OneConversion(u) /\ OneConversion(u)'
      /\ events \in Seq(EventTypes) /\ asked \in Seq(Contents) /\ x_owner \in Owners
      /\ Waits(u) => pc[u] \in Reading
    BY SoleNext, OneConversionNext DEF Sole, TypeOK, Waits, Reading
<1>q. ~Waits(u)' => Carried(u)'
    BY <1>s DEF OneConversion, Carried, UnderWay, Conversion
<1>g. observe /\ Waits(u) => /\ offered'[u] = offered[u] \cup Selected'
                             /\ offered[u] \subseteq offered'[u]
    BY <1>s, Observed
<1>f. ASSUME observe, UNCHANGED <<asked, events, x_property, content, outcome>>,
             Waits(u)' => Waits(u)
      PROVE  Carried(u)'
    BY <1>f, <1>g, <1>q DEF Carried
<1>1. ASSUME NEW c \in setup.contents, takeSelection(c), observe
       PROVE  Carried(u)'
    BY <1>1, <1>f, <1>s DEF takeSelection, Waits
<1>2. ASSUME dropSelection, observe
       PROVE  Carried(u)'
    BY <1>2, <1>f, <1>s DEF dropSelection, Waits
<1>3. ASSUME clientRequest, observe
       PROVE  Carried(u)'
    <2>1. /\ events' = Append(events, "client request")
          /\ UNCHANGED <<asked, x_property, content, outcome>>
          /\ Waits(u)' <=> Waits(u)
      BY <1>3 DEF clientRequest, Waits
    <2>2. \A i \in DOMAIN events' : \/ i \in DOMAIN events /\ events'[i] = events[i]
                                    \/ events'[i] = "client request"
      BY <2>1, <1>s, EventsAppended, MembersOfTypes
    <2> QED
      BY <1>3, <1>q, <1>g, <2>1, <2>2 DEF Carried
<1>4. ASSUME NEW i \in DOMAIN asked, answerRequest(i), observe
       PROVE  Carried(u)'
    <2>1. /\ asked # <<>> /\ Len(asked) = 1 /\ Waits(u) /\ ~m_result_arrived
          /\ \A j \in DOMAIN events : ~UnderWay(j)
      BY <1>s DEF OneConversion
    <2>2. asked' = <<>> /\ i = 1
      BY <1>4, <2>1, <1>s, OnlyRequestRemoved DEF answerRequest
    <2>3. /\ ~m_result_arrived' /\ UNCHANGED <<x_owner, x_content, content>>
      BY <1>4, <2>1 DEF answerRequest
    <2>4. CASE events' = Append(events, "refused")
      <3>1. \A j \in DOMAIN events' : events'[j] \notin {"own request", "converted"}
        BY <2>1, <2>4, <1>s, EventsAppended, MembersOfTypes DEF UnderWay, Conversion
      <3> QED
        BY <2>2, <2>3, <3>1 DEF Carried
    <2>5. CASE /\ events' = Append(events, "converted")
               /\ x_property' \in {<<asked[i]>>} \cup
                                    (IF x_owner = "client" THEN Selected ELSE {})
      <3>1. \A j \in DOMAIN events' : events'[j] # "own request"
        BY <2>1, <2>5, <1>s, EventsAppended, MembersOfTypes DEF UnderWay, Conversion
      <3>2. <<asked[i]>> \in offered[u]
        BY <2>1, <2>2 DEF Carried
      <3>3. Selected' = Selected
        BY <2>3 DEF Selected
      <3>4. x_property' \in offered'[u]
        BY <1>4, <2>1, <2>5, <3>2, <3>3, <1>g
      <3> QED
        BY <2>2, <2>3, <3>1, <3>4 DEF Carried
    <2> QED
      BY <1>4, <2>4, <2>5 DEF answerRequest
<1>5. ASSUME NEW good \in BOOLEAN, reportConversionResult(good), observe
       PROVE  Carried(u)'
    <2>1. /\ events # <<>> /\ Head(events) \in Conversion /\ events' = Tail(events)
          /\ Head(events) = IF good THEN "converted" ELSE "refused"
          /\ m_result_prop' = good
          /\ UNCHANGED <<asked, x_property, content>>
      BY <1>5 DEF reportConversionResult, NextEventIs, Conversion
    <2>2. 1 \in DOMAIN events /\ UnderWay(1) /\ events[1] = Head(events)
      BY <2>1, <1>s, EventsRemoved DEF UnderWay
    <2>3. asked = <<>> /\ Waits(u)
      BY <2>2, <1>s DEF OneConversion
    <2>4. \A j \in DOMAIN events' : ~UnderWay(j)'
      <3>1. \A j \in DOMAIN events : UnderWay(j) => j = 1
        BY <2>2, <1>s DEF OneConversion
      <3> QED
        BY <2>1, <3>1, <1>s, EventsRemoved DEF UnderWay
    <2>5. m_result_prop' => x_property' \in offered'[u]
      BY <1>5, <2>1, <2>2, <2>3, <1>g DEF Carried
    <2> QED
      BY <2>1, <2>3, <2>4, <2>5 DEF Carried, UnderWay, Conversion
<1>6. ASSUME conversionRequest, observe
       PROVE  Carried(u)'
    <2>1. CASE NextEventIs("client request") /\ events' = Tail(events) /\ UNCHANGED x_property
      <3>1. \A j \in DOMAIN events' : j + 1 \in DOMAIN events /\ events'[j] = events[j + 1]
        BY <2>1, <1>s, EventsRemoved DEF NextEventIs
      <3>2. /\ UNCHANGED <<asked, content, outcome>>
            /\ Waits(u)' <=> Waits(u)
        BY <1>6 DEF conversionRequest, Waits
      <3> QED
        BY <1>6, <2>1, <3>1, <3>2, <1>g, <1>q DEF Carried
    <2>2. CASE /\ NextEventIs("own request") /\ events' = Append(Tail(events), "converted")
               /\ x_property' = content
      <3>1. /\ events # <<>> /\ 1 \in DOMAIN events /\ UnderWay(1)
            /\ events[1] = "own request"
        BY <2>2, <1>s, EventsReplaced, MembersOfTypes DEF UnderWay, NextEventIs, Conversion
      <3>2. /\ Waits(u) /\ ~m_result_arrived /\ asked = <<>>
            /\ \A j \in DOMAIN events : UnderWay(j) => j = 1
        BY <3>1, <1>s DEF OneConversion
      <3>3. UNCHANGED <<asked, content, outcome>> /\ OneConversion(u)'
        BY <1>6, <1>s DEF conversionRequest
      <3>4. content \in offered'[u]
        BY <1>6, <3>1, <3>2, <1>g DEF Carried
      <3> QED
        BY <2>2, <3>2, <3>3, <3>4 DEF Carried
    <2> QED
      BY <1>6, <2>1, <2>2 DEF conversionRequest
<1>7. ASSUME abortAllBlockingCalls, observe
       PROVE  Carried(u)'
    BY <1>7, <1>q, <1>s DEF abortAllBlockingCalls, abort
<1>8. ASSUME NEW t \in setup.users, updateOwner(t), observe
       PROVE  Carried(u)'
    BY <1>8, <1>q, <1>s DEF updateOwner, MoveTo, Waits
<1>9. ASSUME NEW t \in setup.users, checkOwner(t), observe
       PROVE  Carried(u)'
    BY <1>9, <1>q, <1>s DEF checkOwner, MoveTo, Return, Waits
<1>10. ASSUME NEW t \in setup.users, requestConversion(t), observe
       PROVE  Carried(u)'
    <2>1. /\ pc[u] = "convert" /\ ~m_result_arrived' /\ UNCHANGED <<x_owner, x_content, content>>
          /\ asked = <<>> /\ \A j \in DOMAIN events : ~UnderWay(j)
      BY <1>10, <1>s DEF requestConversion, convertSelection, Reset, OneConversion, Waits
    <2>2. offered'[u] = offered[u] \cup Selected' /\ Selected' = Selected
      BY <1>10, <2>1, Observed DEF Reading, Selected
    <2>3. CASE x_owner = "client"
      <3>1. /\ asked' = Append(asked, x_content) /\ events' = events
            /\ x_property' = x_property
        BY <1>10, <2>3 DEF requestConversion, convertSelection
      <3>2. asked'[1] = x_content
        BY <2>1, <3>1
      <3>3. Selected = {<<x_content>>}
        BY <2>3 DEF Selected
      <3>4. <<x_content>> \in offered'[u]
        BY <2>2, <3>3
      <3> QED
        BY <2>1, <3>1, <3>2, <3>4 DEF Carried, UnderWay, Conversion
    <2>4. CASE x_owner # "client"
      <3>1. asked' = <<>>
        BY <1>10, <2>1, <2>4 DEF requestConversion, convertSelection
      <3>2. PICK e \in EventTypes : /\ events' = Append(events, e)
                                    /\ e # "converted"
                                    /\ e = "own request" => x_owner = "xwmfs"
        BY <1>10, <1>s, <2>4, MembersOfTypes DEF requestConversion, convertSelection, Owners
      <3>3. x_owner = "xwmfs" => content \in offered'[u]
        <4>1. x_owner = "xwmfs" => Selected = {content}
          BY DEF Selected
        <4> QED
          BY <2>2, <4>1
      <3>4. \A j \in DOMAIN events' : /\ events'[j] # "converted"
                                      /\ events'[j] = "own request" => x_owner = "xwmfs"
        BY <2>1, <3>2, <1>s, EventsAppended DEF UnderWay, Conversion
      <3> QED
        BY <2>1, <3>1, <3>3, <3>4 DEF Carried
    <2> QED
      BY <2>3, <2>4
<1>11. ASSUME NEW t \in setup.users, waitAgain(t), observe
       PROVE  Carried(u)'
    <2>1. Waits(u) /\ UNCHANGED <<asked, events, x_property, content, outcome>>
      BY <1>11, <1>s DEF waitAgain, finishedBlockingCall, Waits
    <2> QED
      BY <1>11, <2>1, <1>f
<1>12. ASSUME NEW t \in setup.users, takeResult(t), observe
       PROVE  Carried(u)'
    BY <1>12, <1>q, <1>s DEF takeResult, finishedBlockingCall, MoveTo, Return, Waits
<1>13. ASSUME NEW t \in setup.users, fillContent(t), observe
       PROVE  Carried(u)'
    BY <1>13, <1>q, <1>s DEF fillContent, MoveTo, Waits
<1>14. ASSUME NEW t \in setup.users, readContent(t), observe
       PROVE  Carried(u)'
    BY <1>14, <1>q, <1>s DEF readContent, Return, MoveTo, Waits
<1>15. ASSUME NEW t \in setup.users, abortBlockingCall(t), observe
       PROVE  Carried(u)'
    BY <1>15, <1>q, <1>s DEF abortBlockingCall, abort
<1>16. ASSUME NEW t \in setup.users, spuriousWakeup(t), observe
       PROVE  Carried(u)'
    <2>1. Waits(u) /\ UNCHANGED <<asked, events, x_property, content, outcome>>
      BY <1>16, <1>s DEF spuriousWakeup, Waits
    <2> QED
      BY <1>16, <2>1, <1>f
<1>17. ASSUME NEW t \in setup.users, clearContent(t), observe
       PROVE  Carried(u)'
    BY <1>17, <1>q, <1>s DEF clearContent, MoveTo, Waits
<1>18. ASSUME NEW t \in setup.users, storeContent(t), observe
       PROVE  Carried(u)'
    BY <1>18, <1>q, <1>s DEF storeContent, MoveTo, Waits
<1>19. ASSUME NEW t \in setup.users, NEW c \in setup.contents,
              makeSelectionOwner(t, c), observe
       PROVE  Carried(u)'
    BY <1>19, <1>q, <1>s DEF makeSelectionOwner, MoveTo, Waits
<1>20. CASE UNCHANGED vars
    BY <1>20 DEF vars, Carried, Waits
<1>21. ASSUME NEW t \in setup.users, relock(t), observe
       PROVE  Carried(u)'
    <2>1. Waits(u) /\ UNCHANGED <<asked, events, x_property, content, outcome>>
      BY <1>21, <1>s DEF relock, Waits
    <2> QED
      BY <1>21, <2>1, <1>f
<1>22. ASSUME NEW t \in setup.users, prepareBlockingCall(t), observe
       PROVE  Carried(u)'
    <2>1. Waits(u) /\ UNCHANGED <<asked, events, x_property, content, outcome>>
      BY <1>22, <1>s DEF prepareBlockingCall, Waits
    <2> QED
      BY <1>22, <2>1, <1>f
<1>23. ASSUME NEW t \in Threads, recordAbort(t), observe
       PROVE  Carried(u)'
    BY <1>23 DEF recordAbort, NeverInterrupted
<1>24. ASSUME broadcast, observe
       PROVE  Carried(u)'
    BY <1>24 DEF broadcast, NeverInterrupted
<1>25. ASSUME finishAbort, observe
       PROVE  Carried(u)'
    BY <1>25 DEF finishAbort, NeverInterrupted
<1> QED
    BY <1>1, <1>2, <1>3, <1>4, <1>5, <1>6, <1>7, <1>8, <1>9, <1>10, <1>11, <1>12, <1>13,
       <1>14, <1>15, <1>16, <1>17, <1>18, <1>19, <1>20,
       <1>21, <1>22, <1>23, <1>24, <1>25
       DEF Next, client, answer, eventThreadStep, aborting, readerStep, writerStep

(***************************************************************************)
(* The content is replaced by what the conversion brought and by nothing   *)
(* else.                                                                   *)
(***************************************************************************)
LEMMA ShownNext ==
    ASSUME TypeOK, [Next]_vars, ~setup.aborts, NEW u \in Threads,
           Sole(u), NeverInterrupted, OneConversion(u), Carried(u), Shown(u)
    PROVE  Shown(u)'
<1>s. /\ setup.users = {u} /\ pc \in [Threads -> Places]
      /\ result \in [Threads -> Errors \cup Seq(Contents) \cup {None}]
      /\ piece \in [Threads -> Seq(Contents)] /\ content \in Seq(Contents)
    BY DEF Sole, TypeOK
<1>e. \A e \in Errors \cup {None} : e \notin Seq(Contents)
    BY ErrorAssumption
<1>f. ASSUME observe, UNCHANGED <<m_owner, content, piece, result>>,
             pc'[u] = pc[u] \/ (Waits(u) /\ pc'[u] \in {"wait", "woken", "unregister"})
      PROVE  Shown(u)'
    BY <1>f, Observed DEF Shown, Waits
<1>1. ASSUME NEW c \in setup.contents, takeSelection(c), observe
       PROVE  Shown(u)'
    BY <1>1, <1>f DEF takeSelection
<1>2. ASSUME dropSelection, observe
       PROVE  Shown(u)'
    BY <1>2, <1>f DEF dropSelection
<1>3. ASSUME clientRequest, observe
       PROVE  Shown(u)'
    BY <1>3, <1>f DEF clientRequest
<1>4. ASSUME NEW i \in DOMAIN asked, answerRequest(i), observe
       PROVE  Shown(u)'
    BY <1>4, <1>f DEF answerRequest
<1>6. ASSUME conversionRequest, observe
       PROVE  Shown(u)'
    BY <1>6, <1>f DEF conversionRequest
<1>5. ASSUME NEW good \in BOOLEAN, reportConversionResult(good), observe
       PROVE  Shown(u)'
    BY <1>5, <1>f, <1>s DEF reportConversionResult, signal, MoveTo, Waits
<1>7. ASSUME abortAllBlockingCalls, observe
       PROVE  Shown(u)'
    BY <1>7, <1>f, <1>s DEF abortAllBlockingCalls, abort
<1>8. ASSUME NEW t \in setup.users, updateOwner(t), observe
       PROVE  Shown(u)'
    <2>1. /\ pc'[u] = "check" /\ m_owner' = x_owner /\ result'[u] = None
          /\ UNCHANGED <<x_owner, content>> /\ offered'[u] = Selected'
      BY <1>8, <1>s, Observed DEF updateOwner, MoveTo
    <2>2. x_owner' = "xwmfs" => Selected' = {content'}
      BY DEF Selected
    <2> QED
      BY <2>1, <2>2, <1>e DEF Shown
<1>9. ASSUME NEW t \in setup.users, checkOwner(t), observe
       PROVE  Shown(u)'
    <2>1. /\ pc[u] = "check" /\ UNCHANGED <<m_owner, content, piece>>
          /\ offered[u] \subseteq offered'[u]
      BY <1>9, <1>s, Observed DEF checkOwner
    <2>2. CASE m_owner = "none" /\ Return(t, "AGAIN")
      BY <2>1, <2>2, <1>s, <1>e, MembersOfTypes DEF Return, MoveTo, Shown
    <2>3. CASE m_owner = "client" /\ MoveTo(t, "convert") /\ UNCHANGED result
      BY <2>1, <2>3, <1>s DEF MoveTo, Shown
    <2>4. CASE m_owner = "xwmfs" /\ MoveTo(t, "read") /\ UNCHANGED result
      BY <2>1, <2>4, <1>s DEF MoveTo, Shown
    <2> QED
      BY <1>9, <2>2, <2>3, <2>4 DEF checkOwner
<1>10. ASSUME NEW t \in setup.users, requestConversion(t), observe
       PROVE  Shown(u)'
    <2>1. /\ pc'[u] = "register" /\ pc[u] = "convert"
          /\ UNCHANGED <<content, result>>
      BY <1>10, <1>s DEF requestConversion, block, NeverInterrupted, MoveTo
    <2> QED
      BY <2>1 DEF Shown
<1>11. ASSUME NEW t \in setup.users, waitAgain(t), observe
       PROVE  Shown(u)'
    <2>1. pc'[u] = "register" /\ pc[u] = "unregister" /\ UNCHANGED result
      BY <1>11, <1>s DEF waitAgain, finishedBlockingCall, block, NeverInterrupted, MoveTo
    <2> QED
      BY <2>1 DEF Shown
<1>12. ASSUME NEW t \in setup.users, takeResult(t), observe
       PROVE  Shown(u)'
    <2>1. /\ pc[u] = "unregister" /\ m_result_arrived /\ UNCHANGED x_property
          /\ offered[u] \subseteq offered'[u]
      BY <1>12, <1>s, Observed DEF takeResult, finishedBlockingCall
    <2>2. CASE Return(t, "IO_ERROR")
      BY <2>2, <1>s, <1>e, MembersOfTypes DEF Return, MoveTo, Shown
    <2>3. CASE /\ m_result_prop /\ MoveTo(t, "fill") /\ content' = <<>>
               /\ piece' = [piece EXCEPT ![t] = x_property] /\ UNCHANGED result
      <3>1. x_property \in offered[u]
        BY <2>1, <2>3 DEF Carried, Waits
      <3>2. pc'[u] = "fill" /\ piece'[u] = x_property
        BY <2>3, <1>s DEF MoveTo
      <3> QED
        BY <2>1, <2>3, <3>1, <3>2 DEF Shown
    <2> QED
      BY <1>12, <2>2, <2>3 DEF takeResult, finishedBlockingCall
<1>13. ASSUME NEW t \in setup.users, fillContent(t), observe
       PROVE  Shown(u)'
    <2>1. /\ pc[u] = "fill" /\ pc'[u] = "read" /\ UNCHANGED result
          /\ content' = content \o piece[u] /\ offered[u] \subseteq offered'[u]
      BY <1>13, <1>s, Observed DEF fillContent, MoveTo
    <2>2. content' = piece[u]
      BY <2>1, <1>s DEF Shown
    <2> QED
      BY <2>1, <2>2 DEF Shown
<1>14. ASSUME NEW t \in setup.users, readContent(t), observe
       PROVE  Shown(u)'
    BY <1>14, Observed, MembersOfTypes, <1>s, <1>e DEF Shown, readContent, MoveTo, Return
<1>15. ASSUME NEW t \in setup.users, abortBlockingCall(t), observe
       PROVE  Shown(u)'
    BY <1>15, <1>s DEF abortBlockingCall, abort
<1>16. ASSUME NEW t \in setup.users, spuriousWakeup(t), observe
       PROVE  Shown(u)'
    BY <1>16, <1>f, <1>s DEF spuriousWakeup, MoveTo, Waits
<1>17. ASSUME NEW t \in setup.users, clearContent(t), observe
       PROVE  Shown(u)'
    BY <1>17, Observed, MembersOfTypes, <1>s, <1>e DEF Shown, clearContent, MoveTo
<1>18. ASSUME NEW t \in setup.users, storeContent(t), observe
       PROVE  Shown(u)'
    BY <1>18, Observed, MembersOfTypes, <1>s, <1>e DEF Shown, storeContent, MoveTo
<1>19. ASSUME NEW t \in setup.users, NEW c \in setup.contents,
              makeSelectionOwner(t, c), observe
       PROVE  Shown(u)'
    BY <1>19, Observed, MembersOfTypes, <1>s, <1>e DEF Shown, makeSelectionOwner, MoveTo
<1>20. CASE UNCHANGED vars
    BY <1>20 DEF vars, Shown
<1>21. ASSUME NEW t \in setup.users, relock(t), observe
       PROVE  Shown(u)'
    BY <1>21, <1>f, <1>s DEF relock, MoveTo, Waits
<1>22. ASSUME NEW t \in setup.users, prepareBlockingCall(t), observe
       PROVE  Shown(u)'
    BY <1>22, <1>f, <1>s DEF prepareBlockingCall, NeverInterrupted, MoveTo, Waits
<1>23. ASSUME NEW t \in Threads, recordAbort(t), observe
       PROVE  Shown(u)'
    BY <1>23 DEF recordAbort, NeverInterrupted
<1>24. ASSUME broadcast, observe
       PROVE  Shown(u)'
    BY <1>24 DEF broadcast, NeverInterrupted
<1>25. ASSUME finishAbort, observe
       PROVE  Shown(u)'
    BY <1>25 DEF finishAbort, NeverInterrupted
<1> QED
    BY <1>1, <1>2, <1>3, <1>4, <1>5, <1>6, <1>7, <1>8, <1>9, <1>10, <1>11, <1>12, <1>13,
       <1>14, <1>15, <1>16, <1>17, <1>18, <1>19, <1>20,
       <1>21, <1>22, <1>23, <1>24, <1>25
       DEF Next, client, answer, eventThreadStep, aborting, readerStep, writerStep

-----------------------------------------------------------------------------
(* Any number of users: the answer and the aborts.                         *)

(***************************************************************************)
(* The setup is never changed.                                             *)
(***************************************************************************)
LEMMA SetupStays == [Next]_vars => UNCHANGED setup
BY DEF Next, vars, observe

(***************************************************************************)
(* A thread falls asleep only when it has registered.                      *)
(***************************************************************************)
LEMMA FallsAsleep ==
    ASSUME TypeOK, [Next]_vars, NEW t \in Threads, pc[t] # "wait", pc'[t] = "wait"
    PROVE  t \in setup.users /\ prepareBlockingCall(t) /\ ~m_shutdown
<1>s. pc \in [Threads -> Places] /\ setup.users \subseteq Threads
    BY SetupIs DEF TypeOK
<1>1. \A u \in setup.users : prepareBlockingCall(u) => u = t /\ ~m_shutdown
    BY <1>s DEF prepareBlockingCall, Return, MoveTo
<1>2. \A u \in setup.users : /\ ~requestConversion(u) /\ ~waitAgain(u)
                             /\ ~takeResult(u) /\ ~relock(u)
    BY <1>s DEF requestConversion, waitAgain, block, takeResult, relock, Return, MoveTo
<1>3. ~client /\ ~answer /\ ~conversionRequest
    BY DEF client, answer, takeSelection, dropSelection, clientRequest, answerRequest,
           conversionRequest
<1>4. \A good \in BOOLEAN : ~reportConversionResult(good)
    BY <1>s DEF reportConversionResult, signal, MoveTo
<1>5. /\ ~abortAllBlockingCalls /\ \A u \in setup.users : ~abortBlockingCall(u)
      /\ ~aborting
    BY <1>s DEF abortAllBlockingCalls, abortBlockingCall, abort, aborting, recordAbort,
                broadcast, finishAbort, WakeAborted
<1>6. \A u \in setup.users : /\ ~updateOwner(u) /\ ~checkOwner(u)
                             /\ ~fillContent(u) /\ ~readContent(u)
    BY <1>s DEF updateOwner, checkOwner, fillContent, readContent, Return, MoveTo
<1>7. \A u \in setup.users : /\ ~spuriousWakeup(u) /\ ~clearContent(u) /\ ~storeContent(u)
                             /\ \A c \in setup.contents : ~makeSelectionOwner(u, c)
    BY <1>s DEF spuriousWakeup, clearContent, storeContent, makeSelectionOwner, MoveTo
<1>8. ~UNCHANGED vars
    BY DEF vars
<1> QED
    BY <1>1, <1>2, <1>3, <1>4, <1>5, <1>6, <1>7, <1>8
       DEF Next, eventThreadStep, readerStep, writerStep

(***************************************************************************)
(* A thread registers only after a request or a wakeup without an answer,  *)
(* and then it has not been told to stop.                                  *)
(***************************************************************************)
LEMMA AsksForRegistry ==
    ASSUME TypeOK, [Next]_vars, NEW t \in Threads, pc[t] # "register", pc'[t] = "register"
    PROVE  /\ t \in setup.users
           /\ pc[t] = "unregister" \/ requestConversion(t)
           /\ ~m_result_arrived'
           /\ t \notin m_abort_set'
<1>s. pc \in [Threads -> Places] /\ setup.users \subseteq Threads
    BY SetupIs DEF TypeOK
<1>1. ASSUME NEW u \in setup.users, requestConversion(u) \/ waitAgain(u)
      PROVE  /\ u = t
             /\ pc[t] = "unregister" \/ requestConversion(t)
             /\ ~m_result_arrived'
             /\ t \notin m_abort_set'
    BY <1>1, <1>s DEF requestConversion, waitAgain, finishedBlockingCall, block, Return,
                      MoveTo, Reset
<1>2. \A u \in setup.users : ~prepareBlockingCall(u) /\ ~takeResult(u) /\ ~relock(u)
    BY <1>s DEF prepareBlockingCall, takeResult, relock, Return, MoveTo
<1>3. ~client /\ ~answer /\ ~conversionRequest
    BY DEF client, answer, takeSelection, dropSelection, clientRequest, answerRequest,
           conversionRequest
<1>4. \A good \in BOOLEAN : ~reportConversionResult(good)
    BY <1>s DEF reportConversionResult, signal, MoveTo
<1>5. /\ ~abortAllBlockingCalls /\ \A u \in setup.users : ~abortBlockingCall(u)
      /\ ~aborting
    BY <1>s DEF abortAllBlockingCalls, abortBlockingCall, abort, aborting, recordAbort,
                broadcast, finishAbort, WakeAborted
<1>6. \A u \in setup.users : /\ ~updateOwner(u) /\ ~checkOwner(u)
                             /\ ~fillContent(u) /\ ~readContent(u)
    BY <1>s DEF updateOwner, checkOwner, fillContent, readContent, Return, MoveTo
<1>7. \A u \in setup.users : /\ ~spuriousWakeup(u) /\ ~clearContent(u) /\ ~storeContent(u)
                             /\ \A c \in setup.contents : ~makeSelectionOwner(u, c)
    BY <1>s DEF spuriousWakeup, clearContent, storeContent, makeSelectionOwner, MoveTo
<1>8. ~UNCHANGED vars
    BY DEF vars
<1> QED
    BY <1>1, <1>2, <1>3, <1>4, <1>5, <1>6, <1>7, <1>8
       DEF Next, eventThreadStep, readerStep, writerStep

(***************************************************************************)
(* Only a thread that sleeps is woken, only a woken one goes on.           *)
(***************************************************************************)
LEMMA Woken ==
    ASSUME TypeOK, [Next]_vars, NEW t \in Threads, pc'[t] \in {"woken", "unregister"}
    PROVE  Waits(t)
<1>s. pc \in [Threads -> Places] /\ setup.users \subseteq Threads
    BY SetupIs DEF TypeOK
<1>1. client \/ answer \/ conversionRequest \/ UNCHANGED vars => Waits(t)
    BY DEF vars, client, answer, takeSelection, dropSelection, clientRequest, answerRequest,
           conversionRequest, Waits
<1>2. \A good \in BOOLEAN : reportConversionResult(good) => Waits(t)
    BY <1>s DEF reportConversionResult, signal, MoveTo, Waits
<1>3. abortAllBlockingCalls \/ (\E u \in setup.users : abortBlockingCall(u)) => Waits(t)
    BY <1>s DEF abortAllBlockingCalls, abortBlockingCall, abort, Waits
<1>4. aborting => Waits(t)
    BY <1>s DEF aborting, recordAbort, broadcast, finishAbort, WakeAborted, Waits
<1>5. \A u \in setup.users : readerStep(u) => Waits(t)
    BY <1>s
       DEF readerStep, checkOwner, requestConversion, prepareBlockingCall, relock,
           waitAgain, block, takeResult, fillContent, readContent, Return, MoveTo, Waits
<1>6. \A u \in setup.users : updateOwner(u) \/ spuriousWakeup(u) \/ writerStep(u) => Waits(t)
    BY <1>s DEF updateOwner, spuriousWakeup, writerStep, clearContent, storeContent, MoveTo,
                Waits
<1>7. \A u \in setup.users, c \in setup.contents : makeSelectionOwner(u, c) => Waits(t)
    BY <1>s DEF makeSelectionOwner, MoveTo, Waits
<1> QED
    BY <1>1, <1>2, <1>3, <1>4, <1>5, <1>6, <1>7 DEF Next, eventThreadStep

(***************************************************************************)
(* A thread waits only after it asked for a conversion.                    *)
(***************************************************************************)
LEMMA WaitsForRequest ==
    ASSUME TypeOK, [Next]_vars, NEW t \in Threads, Waits(t)'
    PROVE  Waits(t) \/ (t \in setup.users /\ requestConversion(t))
<1>1. CASE pc'[t] = "wait"
    BY <1>1, FallsAsleep DEF Waits, prepareBlockingCall
<1>2. CASE pc'[t] = "register"
    BY <1>2, AsksForRegistry DEF Waits
<1>3. CASE pc'[t] \in {"woken", "unregister"}
    BY <1>3, Woken
<1> QED
    BY <1>1, <1>2, <1>3 DEF Waits

(***************************************************************************)
(* Only a report sets the flag, and it wakes one of those that wait.       *)
(***************************************************************************)
LEMMA FlagSet ==
    ASSUME [Next]_vars, ~m_result_arrived, m_result_arrived'
    PROVE  \E good \in BOOLEAN : reportConversionResult(good)
BY
   DEF Next, vars, client, answer, eventThreadStep, readerStep, writerStep,
       takeSelection, dropSelection, clientRequest, answerRequest, conversionRequest,
       abortAllBlockingCalls, abortBlockingCall, abort, updateOwner, checkOwner,
       requestConversion, Reset, waitAgain, takeResult, Consumed, fillContent,
       readContent, spuriousWakeup, clearContent, storeContent, makeSelectionOwner,
       aborting, recordAbort, broadcast, finishAbort, prepareBlockingCall, relock

(***************************************************************************)
(* Only the event thread tells a thread to stop, and not while another has *)
(* the mutex.                                                              *)
(***************************************************************************)
LEMMA AbortRecorded ==
    ASSUME TypeOK, [Next]_vars, NEW t \in Threads, t \notin m_abort_set, t \in m_abort_set'
    PROVE  LockFree /\ ev' = "notify"
BY DEF Next, vars, client, answer, eventThreadStep, readerStep, writerStep, takeSelection,
       dropSelection, clientRequest, answerRequest, reportConversionResult,
       conversionRequest, abortAllBlockingCalls, abortBlockingCall, abort, aborting,
       recordAbort, broadcast, finishAbort, updateOwner, checkOwner, requestConversion,
       prepareBlockingCall, relock, waitAgain, block, takeResult, fillContent, readContent,
       spuriousWakeup, clearContent, storeContent, makeSelectionOwner

(***************************************************************************)
(* The steps of the event thread between two events.                       *)
(***************************************************************************)
LEMMA AbortSteps ==
    ASSUME [Next]_vars
    PROVE  \/ UNCHANGED <<m_shutdown, ev, to_abort, abort_all>>
           \/ abortAllBlockingCalls
           \/ \E t \in setup.users : abortBlockingCall(t)
           \/ aborting
<1> DEFINE Untouched == UNCHANGED <<m_shutdown, ev, to_abort, abort_all>>
<1>1. client \/ answer \/ eventThreadStep => Untouched
  BY DEF client, answer, eventThreadStep, takeSelection, dropSelection, clientRequest,
         answerRequest, reportConversionResult, conversionRequest
<1>2. ASSUME NEW t \in setup.users, readerStep(t)
      PROVE  Untouched
  BY <1>2 DEF readerStep, checkOwner, requestConversion, prepareBlockingCall, relock,
              waitAgain, takeResult, fillContent, readContent
<1>3. ASSUME NEW t \in setup.users,
             \/ updateOwner(t) \/ spuriousWakeup(t) \/ writerStep(t)
             \/ \E c \in setup.contents : makeSelectionOwner(t, c)
      PROVE  Untouched
  BY <1>3 DEF updateOwner, spuriousWakeup, writerStep, clearContent, storeContent,
              makeSelectionOwner
<1>4. UNCHANGED vars => Untouched
  BY DEF vars
<1> QED
  BY <1>1, <1>2, <1>3, <1>4 DEF Next

(***************************************************************************)
(* Nobody but the users waits.                                             *)
(***************************************************************************)
LEMMA OnlyUsersNext ==
    ASSUME TypeOK, [Next]_vars, OnlyUsersWait
    PROVE  OnlyUsersWait'
<1>1. \A t \in Threads : Waits(t)' => Waits(t) \/ t \in setup.users
    BY WaitsForRequest
<1> QED
    BY <1>1, SetupStays DEF OnlyUsersWait

(***************************************************************************)
(* Neither a report nor an abort comes between the last look at the flag   *)
(* and the wait.                                                           *)
(***************************************************************************)
LEMMA RegisteringNext ==
    ASSUME TypeOK, [Next]_vars, Registering
    PROVE  Registering'
<1> SUFFICES ASSUME NEW t \in Threads, pc'[t] = "register"
             PROVE  t \notin m_abort_set' /\ ~m_result_arrived'
    BY DEF Registering
<1>1. CASE pc[t] # "register"
    BY <1>1, AsksForRegistry
<1>2. CASE pc[t] = "register"
  <2>1. ~LockFree
    BY <1>2 DEF LockFree
  <2>2. t \notin m_abort_set'
    BY <1>2, <2>1, AbortRecorded DEF Registering
  <2>3. ~m_result_arrived'
    BY <1>2, <2>1, FlagSet DEF Registering, reportConversionResult
  <2> QED
    BY <2>2, <2>3
<1> QED
    BY <1>1, <1>2

(***************************************************************************)
(* No sleeper has been told to stop, or he is about to be woken.           *)
(***************************************************************************)
LEMMA AbortSeenNext ==
    ASSUME TypeOK, [Next]_vars, Registering, AbortSeen
    PROVE  AbortSeen'
<1> SUFFICES ASSUME NEW t \in Threads, pc'[t] = "wait"
             PROVE  /\ t \in m_abort_set' => ev' = "notify"
                    /\ ~m_shutdown'
                    /\ abort_all' /\ ev' = "abort" => t \in to_abort'
    BY DEF AbortSeen
<1>s. pc \in [Threads -> Places]
    BY DEF TypeOK
<1>1. CASE pc[t] # "wait"
  <2>1. /\ prepareBlockingCall(t) /\ ~m_shutdown
    BY <1>1, FallsAsleep
  <2>2. pc[t] = "register" /\ ev' = "idle" /\ UNCHANGED <<m_abort_set, m_shutdown>>
    BY <2>1 DEF prepareBlockingCall, RegistryFree
  <2> QED
    BY <2>1, <2>2 DEF Registering
<1>2. CASE pc[t] = "wait"
  <2>1. ~broadcast
    BY <1>2, <1>s DEF broadcast, WakeAborted
  <2>2. t \in m_abort_set' => ev' = "notify"
    <3>1. CASE t \notin m_abort_set
      BY <3>1, AbortRecorded
    <3>2. CASE t \in m_abort_set
      <4>1. ev = "notify"
        BY <1>2, <3>2 DEF AbortSeen
      <4> QED
        BY <2>1, <4>1, AbortSteps
           DEF abortAllBlockingCalls, abortBlockingCall, abort, aborting, recordAbort,
               finishAbort
    <3> QED
      BY <3>1, <3>2
  <2>3. CASE UNCHANGED <<m_shutdown, ev, to_abort, abort_all>>
    BY <1>2, <2>2, <2>3 DEF AbortSeen
  <2>4. CASE abortAllBlockingCalls \/ \E v \in setup.users : abortBlockingCall(v)
    BY <1>2, <2>2, <2>4
       DEF AbortSeen, abortAllBlockingCalls, abortBlockingCall, abort, Registered
  <2>5. CASE \E v \in Threads : recordAbort(v)
    BY <1>2, <2>2, <2>5 DEF AbortSeen, recordAbort
  <2>6. CASE finishAbort
    <3>1. ~abort_all
      BY <1>2, <2>6 DEF AbortSeen, finishAbort
    <3> QED
      BY <1>2, <2>2, <2>6, <3>1 DEF AbortSeen, finishAbort
  <2> QED
    BY <2>1, <2>3, <2>4, <2>5, <2>6, AbortSteps DEF aborting
<1> QED
    BY <1>1, <1>2

(***************************************************************************)
(* The users do not all sleep while an answer is there.                    *)
(***************************************************************************)
LEMMA AnswerSeenNext ==
    ASSUME TypeOK, [Next]_vars, OnlyUsersWait, Registering, AnswerSeen
    PROVE  AnswerSeen'
<1> SUFFICES ASSUME m_result_arrived', setup'.users # {}
             PROVE  \E t \in setup'.users : pc'[t] # "wait"
    BY DEF AnswerSeen
<1>s. /\ UNCHANGED setup /\ setup.users \subseteq Threads
      /\ pc \in [Threads -> Places]
    BY SetupStays, SetupIs DEF TypeOK
<1>1. \A t \in Threads : pc[t] # "wait" => pc'[t] # "wait"
    BY FallsAsleep DEF Registering, prepareBlockingCall
<1>2. CASE \E t \in setup.users : pc[t] # "wait"
    BY <1>s, <1>1, <1>2
<1>3. CASE \A t \in setup.users : pc[t] = "wait"
  <2>1. ~m_result_arrived
    BY <1>s, <1>3 DEF AnswerSeen
  <2>2. PICK good \in BOOLEAN : reportConversionResult(good)
    BY <2>1, FlagSet
  <2>3. PICK t \in Threads : pc[t] = "wait" /\ pc'[t] = "woken"
    BY <2>2, <1>s, <1>3 DEF reportConversionResult, signal, MoveTo
  <2> QED
    BY <1>s, <2>3 DEF OnlyUsersWait, Waits
<1> QED
    BY <1>2, <1>3

(***************************************************************************)
(* What is added to a queue is its last element.                           *)
(***************************************************************************)
LEMMA QueueElements ==
    ASSUME NEW S, NEW s \in Seq(S), NEW e \in S
    PROVE  Len(s) + 1 \in DOMAIN Append(s, e) /\ Append(s, e)[Len(s) + 1] = e
OBVIOUS

(***************************************************************************)
(* The others move up when the first is removed.                           *)
(***************************************************************************)
LEMMA QueueMovesUp ==
    ASSUME NEW S, NEW s \in Seq(S), NEW i \in DOMAIN s, i # 1
    PROVE  i - 1 \in DOMAIN Tail(s) /\ Tail(s)[i - 1] = s[i]
OBVIOUS

(***************************************************************************)
(* A request has its answer from a client or as an event.                  *)
(***************************************************************************)
LEMMA RequestIsDue ==
    ASSUME TypeOK, NEW t \in Threads, requestConversion(t)
    PROVE  ConversionDue'
<1>s. /\ events \in Seq(EventTypes) /\ asked \in Seq(Contents) /\ x_owner \in Owners
      /\ x_content \in Contents
    BY DEF TypeOK
<1>1. CASE x_owner = "client"
  <2>1. asked' = Append(asked, x_content)
    BY <1>1 DEF requestConversion, convertSelection
  <2> QED
    BY <2>1, <1>s DEF ConversionDue
<1>2. CASE x_owner # "client"
  <2>1. PICK e \in EventTypes : e \in Conversion /\ events' = Append(events, e)
    BY <1>2, <1>s, MembersOfTypes
       DEF requestConversion, convertSelection, Conversion, Owners
  <2>2. Len(events) + 1 \in DOMAIN events' /\ events'[Len(events) + 1] = e
    BY <2>1, <1>s, QueueElements
  <2> QED
    BY <2>1, <2>2 DEF ConversionDue, UnderWay
<1> QED
    BY <1>1, <1>2

(***************************************************************************)
(* Only a request resets the flag.                                         *)
(***************************************************************************)
LEMMA FlagReset ==
    ASSUME [Next]_vars, m_result_arrived, ~m_result_arrived'
    PROVE  \E t \in setup.users : requestConversion(t)
BY
   DEF Next, vars, client, answer, eventThreadStep, readerStep, writerStep,
       takeSelection, dropSelection, clientRequest, answerRequest,
       reportConversionResult, Arrived, conversionRequest, abortAllBlockingCalls,
       abortBlockingCall, abort, updateOwner, checkOwner, waitAgain, takeResult,
       Consumed, fillContent, readContent, spuriousWakeup, clearContent, storeContent,
       makeSelectionOwner, aborting, recordAbort, broadcast, finishAbort,
       prepareBlockingCall, relock

(***************************************************************************)
(* A conversion stays due until it is reported.                            *)
(***************************************************************************)
LEMMA DueStays ==
    ASSUME TypeOK, [Next]_vars, ConversionDue, ~m_result_arrived'
    PROVE  ConversionDue'
<1>s. /\ events \in Seq(EventTypes) /\ asked \in Seq(Contents) /\ x_owner \in Owners
      /\ x_content \in Contents
    BY DEF TypeOK
<1>a. ASSUME asked # <<>> => asked' # <<>>, NEW e \in EventTypes, events' = Append(events, e)
      PROVE  ConversionDue'
  <2>1. \A i \in DOMAIN events : i \in DOMAIN events' /\ events'[i] = events[i]
    BY <1>a, <1>s
  <2> QED
    BY <1>a, <2>1 DEF ConversionDue, UnderWay
<1>1. ASSUME NEW i \in DOMAIN asked, answerRequest(i)
      PROVE  ConversionDue'
  <2>1. PICK e \in EventTypes : e \in Conversion /\ events' = Append(events, e)
    BY <1>1, MembersOfTypes DEF answerRequest, Conversion
  <2>2. Len(events) + 1 \in DOMAIN events' /\ events'[Len(events) + 1] = e
    BY <2>1, <1>s, QueueElements
  <2> QED
    BY <2>1, <2>2 DEF ConversionDue, UnderWay
<1>2. ASSUME conversionRequest
      PROVE  ConversionDue'
  <2>1. CASE NextEventIs("client request") /\ events' = Tail(events)
    <3>1. UNCHANGED asked
      BY <1>2 DEF conversionRequest
    <3>2. ASSUME NEW i \in DOMAIN events, UnderWay(i)
          PROVE  UnderWay(i - 1)'
      <4>1. i # 1
        BY <2>1, <3>2, <1>s, EventsRemoved DEF NextEventIs, UnderWay, Conversion
      <4>2. i - 1 \in DOMAIN events' /\ events'[i - 1] = events[i]
        BY <2>1, <3>2, <4>1, <1>s, QueueMovesUp
      <4> QED
        BY <3>2, <4>2 DEF UnderWay
    <3> QED
      BY <3>1, <3>2 DEF ConversionDue, UnderWay
  <2>2. CASE NextEventIs("own request") /\ events' = Append(Tail(events), "converted")
    <3>1. events # <<>>
      BY <2>2, Zenon DEF NextEventIs
    <3>2. PICK e \in EventTypes : e = "converted" /\ events' = Append(Tail(events), e)
      BY <2>2, MembersOfTypes, Zenon
    <3>3. \E i \in DOMAIN events' : events'[i] = e
      BY <3>1, <3>2, <1>s, TailType, QueueElements
    <3> QED
      BY <3>2, <3>3 DEF ConversionDue, UnderWay, Conversion
  <2> QED
    BY <1>2, <2>1, <2>2 DEF conversionRequest
<1>3. ASSUME NEW t \in setup.users, requestConversion(t)
      PROVE  ConversionDue'
    BY <1>3, RequestIsDue, SetupIs
<1>4. clientRequest => ConversionDue'
    BY <1>a, MembersOfTypes DEF clientRequest
<1>5. \A good \in BOOLEAN : ~reportConversionResult(good)
    BY DEF reportConversionResult, Arrived
<1>6. UNCHANGED <<asked, events>> => ConversionDue'
    BY DEF ConversionDue, UnderWay
<1> QED
    BY <1>1, <1>2, <1>3, <1>4, <1>5, <1>6
       DEF Next, vars, client, answer, eventThreadStep, readerStep, writerStep,
           takeSelection, dropSelection, abortAllBlockingCalls, abortBlockingCall, abort,
           updateOwner, checkOwner, waitAgain, takeResult, fillContent, readContent,
           spuriousWakeup, clearContent, storeContent, makeSelectionOwner, aborting,
           recordAbort, broadcast, finishAbort, prepareBlockingCall, relock

(***************************************************************************)
(* Whoever waits without an answer has one coming: each request asks for   *)
(* its own.                                                                *)
(***************************************************************************)
LEMMA AnswerDueNext ==
    ASSUME TypeOK, [Next]_vars, AnswerDue
    PROVE  AnswerDue'
<1> SUFFICES ASSUME NEW t \in Threads, Waits(t)', ~m_result_arrived'
             PROVE  ConversionDue'
    BY DEF AnswerDue
<1>1. CASE requestConversion(t)
    BY <1>1, RequestIsDue
<1>2. CASE Waits(t) /\ ~m_result_arrived
    BY <1>2, DueStays DEF AnswerDue
<1>3. CASE m_result_arrived
    BY <1>3, FlagReset, RequestIsDue, SetupIs
<1>4. Waits(t) \/ requestConversion(t)
    BY WaitsForRequest
<1> QED
    BY <1>1, <1>2, <1>3, <1>4

-----------------------------------------------------------------------------
(* The theorems.                                                           *)

(***************************************************************************)
(* Nothing is written at the start.                                        *)
(***************************************************************************)
LEMMA KeptInit ==
    ASSUME Init, NEW u \in Threads, setup.users = {u}
    PROVE  Kept(u)
BY DEF Init, Kept, Sole

(***************************************************************************)
(* Nothing is read at the start.                                           *)
(***************************************************************************)
LEMMA CurrentInit ==
    ASSUME Init, NEW u \in Threads, setup.users = {u}
    PROVE  Current(u)
<1>1. None \notin Seq(Contents)
    BY ErrorAssumption
<1> QED
    BY <1>1
       DEF Init, Current, Sole, OthersNoResult, NeverInterrupted, OneConversion, Carried,
                Shown, UnderWay

(***************************************************************************)
(* A set of users with cardinality one has one user.                       *)
(***************************************************************************)
LEMMA SoleUser ==
    ASSUME TypeOK, OneUser
    PROVE  \E u \in Threads : setup.users = {u}
<1>1. setup.users \subseteq Threads /\ IsFiniteSet(setup.users)
    BY SetupIs, SelectionAssumption, FS_Subset
<1> QED
    BY <1>1, FS_Singleton DEF OneUser

(***************************************************************************)
(* Every variable has its type for any threads and contents.               *)
(***************************************************************************)
THEOREM TypeCorrect == Spec => []TypeOK
BY TypeInit, TypeNext, PTL DEF Spec

(***************************************************************************)
(* The inductive invariant behind WrittenIsKept.                           *)
(***************************************************************************)
THEOREM KeptCorrect == Spec => []KeptInv
<1>1. Init => KeptInv
    BY TypeInit, KeptInit DEF KeptInv
<1>2. KeptInv /\ [Next]_vars => KeptInv'
    BY TypeNext, KeptNext, SetupStays DEF KeptInv
<1> QED
    BY <1>1, <1>2, PTL DEF Spec

(***************************************************************************)
(* What the only user wrote (SelectionAccessFile::write) stays the content *)
(* as long as xwmfs owns the selection: none of its own reads, interrupted *)
(* or not, replaces it.                                                    *)
(***************************************************************************)
THEOREM WrittenIsKeptHolds == Spec => []WrittenIsKept
<1>1. KeptInv => WrittenIsKept
  <2> SUFFICES ASSUME KeptInv, OneUser, x_owner = "xwmfs",
                      \A t \in Threads : pc[t] \notin Writing
               PROVE  content = last_written
    BY DEF WrittenIsKept
  <2>1. PICK u \in Threads : setup.users = {u}
    BY SoleUser DEF KeptInv
  <2> QED
    BY <2>1 DEF KeptInv, Kept
<1> QED
    BY <1>1, KeptCorrect, PTL

(***************************************************************************)
(* The inductive invariant behind ReadCurrent.                             *)
(***************************************************************************)
THEOREM CurrentCorrect == Spec => []CurrentInv
<1>1. Init => CurrentInv
    BY TypeInit, CurrentInit DEF CurrentInv
<1>2. CurrentInv /\ [Next]_vars => CurrentInv'
  <2> SUFFICES ASSUME CurrentInv, [Next]_vars
               PROVE  CurrentInv'
    OBVIOUS
  <2>1. TypeOK /\ TypeOK' /\ UNCHANGED setup
    BY TypeNext, SetupStays DEF CurrentInv
  <2>2. ASSUME NEW u \in Threads, setup'.users = {u}, ~setup'.aborts
        PROVE  Current(u)'
    <3>1. Current(u) /\ ~setup.aborts
      BY <2>1, <2>2 DEF CurrentInv
    <3> QED
      BY <2>1, <3>1, SoleNext, NoInterruption, OthersNext, OneConversionNext, CarriedNext,
         ShownNext DEF Current
  <2> QED
    BY <2>1, <2>2 DEF CurrentInv
<1> QED
    BY <1>1, <1>2, PTL DEF Spec

(***************************************************************************)
(* What a read of the only user returns (SelectionAccessFile::read) the    *)
(* selection held at some time during the read, however many changes of    *)
(* the owner, spurious wakeups and late answers there are.                 *)
(***************************************************************************)
THEOREM ReadCurrentHolds == Spec => []ReadCurrent
<1>1. CurrentInv => ReadCurrent
  <2> SUFFICES ASSUME CurrentInv, OneUser, ~setup.aborts, NEW t \in Threads,
                      result[t] \in Seq(Contents)
               PROVE  result[t] \in offered[t]
    BY DEF ReadCurrent
  <2>1. PICK u \in Threads : setup.users = {u}
    BY SoleUser DEF CurrentInv
  <2>2. Current(u)
    BY <2>1 DEF CurrentInv
  <2>3. t = u
    BY <2>2, ErrorAssumption DEF Current, OthersNoResult
  <2> QED
    BY <2>2, <2>3 DEF Current, Shown
<1> QED
    BY <1>1, CurrentCorrect, PTL

(***************************************************************************)
(* The inductive invariant behind NobodySleepsOn.                          *)
(***************************************************************************)
THEOREM AwakeCorrect == Spec => []AwakeInv
<1>1. Init => AwakeInv
    BY TypeInit
       DEF Init, AwakeInv, OnlyUsersWait, AnswerDue, AnswerSeen, Registering, AbortSeen,
           Waits
<1>2. AwakeInv /\ [Next]_vars => AwakeInv'
    BY TypeNext, OnlyUsersNext, AnswerDueNext, AnswerSeenNext, RegisteringNext,
       AbortSeenNext
       DEF AwakeInv
<1> QED
    BY <1>1, <1>2, PTL DEF Spec

(***************************************************************************)
(* The condition variable of SelectionAccessFile never leaves all users    *)
(* asleep with the answer already there or none to come, for any number of *)
(* them, however requests, resets, spurious wakeups and aborts interleave. *)
(***************************************************************************)
THEOREM NobodySleepsOnHolds == Spec => []NobodySleepsOn
<1>1. AwakeInv => NobodySleepsOn
  <2> SUFFICES ASSUME AwakeInv
               PROVE  NobodySleepsOn
    OBVIOUS
  <2>1. ASSUME setup.users # {}, \A t \in setup.users : pc[t] = "wait"
        PROVE  ~m_result_arrived /\ ConversionDue
    <3>1. ~m_result_arrived
      BY <2>1 DEF AwakeInv, AnswerSeen
    <3>2. \E t \in Threads : Waits(t)
      BY <2>1, SetupIs DEF AwakeInv, Waits
    <3> QED
      BY <3>1, <3>2 DEF AwakeInv, AnswerDue
  <2> QED
    BY <2>1 DEF AwakeInv, AbortSeen, NobodySleepsOn
<1> QED
    BY <1>1, AwakeCorrect, PTL

=============================================================================
