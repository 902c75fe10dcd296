-------------------------- MODULE DesktopLinksProof -------------------------
(***************************************************************************)
(* Theorems about DesktopLinks for any windows, any number of desktops and *)
(* any length of the event queue.                                          *)
(***************************************************************************)
EXTENDS DesktopLinks, TLAPS

-----------------------------------------------------------------------------
(* The event queue.                                                        *)

Pending(e, q) == \E i \in DOMAIN q : q[i] = e

WindowEvent(type, w) == [type |-> type, win |-> w]

(***************************************************************************)
(* The window is created before it is destroyed.                           *)
(***************************************************************************)
CreatedFirst(w, q) ==
    \E i \in DOMAIN q : /\ q[i] = WindowEvent("create", w)
                        /\ \A j \in 1 .. i - 1 : q[j] # WindowEvent("destroy", w)

(***************************************************************************)
(* A new event is the last one.                                            *)
(***************************************************************************)
LEMMA AppendEvent ==
    ASSUME NEW S, NEW q \in Seq(S), NEW e \in S
    PROVE  /\ q \o <<e>> \in Seq(S)
           /\ DOMAIN (q \o <<e>>) = 1 .. Len(q) + 1
           /\ \A i \in 1 .. Len(q) : (q \o <<e>>)[i] = q[i]
           /\ (q \o <<e>>)[Len(q) + 1] = e
OBVIOUS

(***************************************************************************)
(* The others are still waiting.                                           *)
(***************************************************************************)
LEMMA PendingAppend ==
    ASSUME NEW S, NEW q \in Seq(S), NEW e \in S, NEW f
    PROVE  Pending(f, q \o <<e>>) <=> Pending(f, q) \/ f = e
<1>1. DOMAIN q = 1 .. Len(q) /\ Len(q) \in Nat
  OBVIOUS
<1>2. DOMAIN (q \o <<e>>) = 1 .. Len(q) + 1
  BY AppendEvent
<1>3. \A i \in 1 .. Len(q) : (q \o <<e>>)[i] = q[i]
  BY AppendEvent
<1>4. (q \o <<e>>)[Len(q) + 1] = e
  BY AppendEvent
<1> DEFINE r == q \o <<e>>
<1> HIDE DEF r
<1>5. ASSUME Pending(f, r) PROVE Pending(f, q) \/ f = e
  <2>1. PICK i \in 1 .. Len(q) + 1 : r[i] = f
    BY <1>2, <1>5 DEF Pending, r
  <2>2. i \in 1 .. Len(q) \/ i = Len(q) + 1
    BY <1>1, <2>1
  <2> QED
    BY <1>1, <1>3, <1>4, <2>1, <2>2 DEF Pending, r
<1>6. ASSUME Pending(f, q) PROVE Pending(f, r)
  <2>1. PICK i \in 1 .. Len(q) : q[i] = f
    BY <1>1, <1>6 DEF Pending
  <2>2. i \in DOMAIN r /\ r[i] = f
    BY <1>1, <1>2, <1>3, <2>1 DEF r
  <2> QED
    BY <2>2 DEF Pending
<1>7. ASSUME f = e PROVE Pending(f, r)
  <2>1. Len(q) + 1 \in DOMAIN r /\ r[Len(q) + 1] = f
    BY <1>1, <1>2, <1>4, <1>7 DEF r
  <2> QED
    BY <2>1 DEF Pending
<1> QED
  BY <1>5, <1>6, <1>7 DEF r

(***************************************************************************)
(* Reading an event takes away the first one only.                         *)
(***************************************************************************)
LEMMA TailEvents ==
    ASSUME NEW S, NEW q \in Seq(S), q # <<>>
    PROVE  /\ Tail(q) \in Seq(S)
           /\ Head(q) \in S
           /\ Head(q) = q[1]
           /\ DOMAIN q = 1 .. Len(q)
           /\ Len(q) \in Nat \ {0}
           /\ DOMAIN Tail(q) = 1 .. Len(q) - 1
           /\ \A i \in 1 .. Len(q) - 1 : Tail(q)[i] = q[i + 1]
OBVIOUS

(***************************************************************************)
(* What is pending behind the head of the queue is pending in the queue.   *)
(***************************************************************************)
LEMMA PendingTail ==
    ASSUME NEW S, NEW q \in Seq(S), q # <<>>, NEW f
    PROVE  /\ Pending(f, q) => f = Head(q) \/ Pending(f, Tail(q))
           /\ Pending(f, Tail(q)) => Pending(f, q)
           /\ Pending(Head(q), q)
<1> DEFINE r == Tail(q)
<1>1. DOMAIN q = 1 .. Len(q) /\ Len(q) \in Nat \ {0} /\ DOMAIN r = 1 .. Len(q) - 1
  BY TailEvents
<1>2. \A i \in 1 .. Len(q) - 1 : r[i] = q[i + 1]
  BY TailEvents
<1>3. Head(q) = q[1]
  BY TailEvents
<1> HIDE DEF r
<1>4. ASSUME Pending(f, q), f # Head(q) PROVE Pending(f, r)
  <2>1. PICK i \in 1 .. Len(q) : q[i] = f
    BY <1>1, <1>4 DEF Pending
  <2>2. i - 1 \in 1 .. Len(q) - 1 /\ (i - 1) + 1 = i
    BY <1>1, <1>3, <1>4, <2>1
  <2> QED
    BY <1>1, <1>2, <2>1, <2>2 DEF Pending
<1>5. ASSUME Pending(f, r) PROVE Pending(f, q)
  <2>1. PICK i \in 1 .. Len(q) - 1 : r[i] = f
    BY <1>1, <1>5 DEF Pending
  <2>2. i + 1 \in 1 .. Len(q) /\ q[i + 1] = f
    BY <1>1, <1>2, <2>1
  <2> QED
    BY <1>1, <2>2 DEF Pending
<1>6. Pending(Head(q), q)
  BY <1>1, <1>3 DEF Pending
<1> QED
  BY <1>4, <1>5, <1>6 DEF r

(***************************************************************************)
(* What comes later does not change the order of what is there.            *)
(***************************************************************************)
LEMMA CreatedFirstAppend ==
    ASSUME NEW S, NEW q \in Seq(S), NEW e \in S, NEW w
    PROVE  /\ CreatedFirst(w, q) => CreatedFirst(w, q \o <<e>>)
           /\ e = WindowEvent("create", w) /\ ~Pending(WindowEvent("destroy", w), q)
                => CreatedFirst(w, q \o <<e>>)
<1> DEFINE r == q \o <<e>>
<1>1. DOMAIN q = 1 .. Len(q) /\ Len(q) \in Nat
  OBVIOUS
<1>2. DOMAIN r = 1 .. Len(q) + 1 /\ r[Len(q) + 1] = e
  BY AppendEvent
<1>3. \A i \in 1 .. Len(q) : r[i] = q[i]
  BY AppendEvent
<1> HIDE DEF r
<1>4. ASSUME CreatedFirst(w, q) PROVE CreatedFirst(w, r)
  <2>1. PICK i \in 1 .. Len(q) : /\ q[i] = WindowEvent("create", w)
                                 /\ \A j \in 1 .. i - 1 : q[j] # WindowEvent("destroy", w)
    BY <1>1, <1>4 DEF CreatedFirst
  <2>2. i \in DOMAIN r /\ r[i] = WindowEvent("create", w)
    BY <1>1, <1>2, <1>3, <2>1
  <2>3. \A j \in 1 .. i - 1 : j \in 1 .. Len(q)
    BY <1>1, <2>1
  <2>4. \A j \in 1 .. i - 1 : r[j] # WindowEvent("destroy", w)
    BY <1>3, <2>1, <2>3
  <2> QED
    BY <2>2, <2>4 DEF CreatedFirst
<1>5. ASSUME e = WindowEvent("create", w), ~Pending(WindowEvent("destroy", w), q)
      PROVE  CreatedFirst(w, r)
  <2>1. \A j \in 1 .. (Len(q) + 1) - 1 : r[j] # WindowEvent("destroy", w)
    BY <1>1, <1>3, <1>5 DEF Pending
  <2>2. Len(q) + 1 \in DOMAIN r
    BY <1>1, <1>2
  <2> QED
    BY <1>2, <1>5, <2>1, <2>2 DEF CreatedFirst
<1> QED
  BY <1>4, <1>5 DEF r

(***************************************************************************)
(* A queue that announces each window before it tells of it keeps doing so *)
(* when its head is taken.                                                 *)
(***************************************************************************)
LEMMA CreatedFirstTail ==
    ASSUME NEW S, NEW q \in Seq(S), q # <<>>, NEW w, CreatedFirst(w, q)
    PROVE  /\ Head(q) # WindowEvent("destroy", w)
           /\ Head(q) = WindowEvent("create", w) \/ CreatedFirst(w, Tail(q))
<1> DEFINE r == Tail(q)
<1>1. DOMAIN q = 1 .. Len(q) /\ Len(q) \in Nat \ {0} /\ DOMAIN r = 1 .. Len(q) - 1
  BY TailEvents
<1>2. \A i \in 1 .. Len(q) - 1 : r[i] = q[i + 1]
  BY TailEvents
<1>3. Head(q) = q[1]
  BY TailEvents
<1> HIDE DEF r
<1>4. PICK i \in 1 .. Len(q) : /\ q[i] = WindowEvent("create", w)
                               /\ \A j \in 1 .. i - 1 : q[j] # WindowEvent("destroy", w)
  BY <1>1 DEF CreatedFirst
<1>5. WindowEvent("create", w) # WindowEvent("destroy", w)
  <2>1. WindowEvent("create", w).type = "create" /\ WindowEvent("destroy", w).type = "destroy"
    BY DEF WindowEvent
  <2> QED
    BY <2>1
<1>6. Head(q) # WindowEvent("destroy", w)
  <2>1. CASE i = 1
    BY <1>3, <1>4, <1>5, <2>1
  <2>2. CASE i # 1
    <3>1. 1 \in 1 .. i - 1
      BY <1>1, <1>4, <2>2
    <3> QED
      BY <1>3, <1>4, <3>1
  <2> QED
    BY <2>1, <2>2
<1>7. ASSUME i # 1 PROVE CreatedFirst(w, r)
  <2>1. i - 1 \in 1 .. Len(q) - 1 /\ (i - 1) + 1 = i
    BY <1>1, <1>4, <1>7
  <2>2. r[i - 1] = WindowEvent("create", w)
    BY <1>2, <1>4, <2>1
  <2>3. \A j \in 1 .. (i - 1) - 1 : j + 1 \in 1 .. i - 1 /\ j \in 1 .. Len(q) - 1
    BY <1>1, <1>4
  <2>4. \A j \in 1 .. (i - 1) - 1 : r[j] # WindowEvent("destroy", w)
    BY <1>2, <1>4, <2>3
  <2> QED
    BY <1>1, <2>1, <2>2, <2>4 DEF CreatedFirst
<1> QED
  BY <1>3, <1>4, <1>6, <1>7 DEF r

-----------------------------------------------------------------------------
(* The inductive invariant.                                                *)

(***************************************************************************)
(* Windows that keep what they were assigned first.                        *)
(***************************************************************************)
Settled == Windows \ Roaming

NamesEvent == [type |-> "names"]

EventTypes == {"create", "destroy", "desktop", "no desktop"}

(***************************************************************************)
(* The server: what does not exist has no desktop, events are about        *)
(* windows that were created, and a settled window that was destroyed does *)
(* not come back.                                                          *)
(***************************************************************************)
ServerSound ==
    /\ \A w \in Windows \ x_exist : x_desktop[w] = None
    /\ \A w \in Windows, type \in EventTypes :
          Pending(WindowEvent(type, w), queue) => w \in used
    /\ \A w \in Settled :
          Pending(WindowEvent("destroy", w), queue) => w \notin x_exist

(***************************************************************************)
(* The names: a list that is not the server's is about to be fetched.      *)
(***************************************************************************)
NamesFetched ==
    /\ started >= 1 => m_names = x_names \/ Pending(NamesEvent, queue)
    /\ started = 3 => dirs = m_names
    /\ started < 3 => \A w \in Windows : ~Known(w)

(***************************************************************************)
(* Windows: one that xwmfs has not subscribed to, or has no directory for, *)
(* is about to be created here, before it is destroyed.                    *)
(***************************************************************************)
WindowsListed ==
    started >= 2 =>
        /\ \A w \in x_exist \ selected : Pending(WindowEvent("create", w), queue)
        /\ \A w \in Settled :
              w \in x_exist \/ Known(w) => w \in windows \/ CreatedFirst(w, queue)

(***************************************************************************)
(* The link of a settled window is the one in the map, is right while the  *)
(* window exists and goes with its destroy event; the link that is missing *)
(* is made by an event.                                                    *)
(***************************************************************************)
LinksSettled ==
    \A w \in Settled :
        /\ \A d \in Desktops : w \in links[d] => m_window_desktop_dir_map[w] = d
        /\ w \in x_exist /\ Known(w) => x_desktop[w] = m_window_desktop_dir_map[w]
        /\ Known(w) /\ w \notin x_exist => Pending(WindowEvent("destroy", w), queue)
        /\ started = 3 /\ w \in x_exist /\ x_desktop[w] \in 0 .. dirs - 1 =>
              \/ Known(w)
              \/ Pending(WindowEvent("create", w), queue)
              \/ Pending(WindowEvent("desktop", w), queue)

Inv == /\ TypeOK
       /\ MapSound
       /\ ServerSound
       /\ NamesFetched
       /\ WindowsListed
       /\ LinksSettled

-----------------------------------------------------------------------------
(* Types and the map.                                                      *)

(***************************************************************************)
(* The types of the constants.                                             *)
(***************************************************************************)
LEMMA ConstantTypes ==
    /\ MaxDesktops \in Nat \ {0}
    /\ Loose \subseteq Roaming /\ Roaming \subseteq Windows
    /\ None \notin Desktops /\ None # EveryDesktop /\ None \notin Windows
BY DesktopLinksAssumption DEF Desktops, EveryDesktop

(***************************************************************************)
(* The events that steps of the server send.                               *)
(***************************************************************************)
LEMMA EventsTyped ==
    /\ \A type \in EventTypes, w \in Windows : WindowEvent(type, w) \in Events
    /\ NamesEvent \in Events
BY DEF Events, EventTypes, WindowEvent, NamesEvent

(***************************************************************************)
(* What a step of the server does to the queue.                            *)
(***************************************************************************)
LEMMA ChangeQueue ==
    ASSUME TypeOK, NEW events, Change(events),
           events = <<>> \/ \E e \in Events : events = <<e>>
    PROVE  /\ queue' \in Seq(Events)
           /\ \A f : Pending(f, queue) => Pending(f, queue')
           /\ \A f : Pending(f, queue') => Pending(f, queue) \/ events = <<f>>
           /\ \A f : events = <<f>> => Pending(f, queue')
           /\ \A w : CreatedFirst(w, queue) => CreatedFirst(w, queue')
           /\ \A w : events = <<WindowEvent("create", w)>>
                       /\ ~Pending(WindowEvent("destroy", w), queue)
                     => CreatedFirst(w, queue')
           /\ changes' \in Nat
<1>1. queue \in Seq(Events) /\ queue' = queue \o events /\ changes' \in Nat
  BY DEF TypeOK, Change
<1>2. CASE events = <<>>
  <2>1. queue' = queue
    BY <1>1, <1>2
  <2>2. \A f : <<>> # <<f>>
    OBVIOUS
  <2> QED
    BY <1>1, <1>2, <2>1, <2>2
<1>3. ASSUME NEW e \in Events, events = <<e>>
      PROVE  /\ queue' \in Seq(Events)
             /\ \A f : Pending(f, queue) => Pending(f, queue')
             /\ \A f : Pending(f, queue') => Pending(f, queue) \/ events = <<f>>
             /\ \A f : events = <<f>> => Pending(f, queue')
             /\ \A w : CreatedFirst(w, queue) => CreatedFirst(w, queue')
             /\ \A w : events = <<WindowEvent("create", w)>>
                         /\ ~Pending(WindowEvent("destroy", w), queue)
                       => CreatedFirst(w, queue')
  <2>1. queue' = queue \o <<e>>
    BY <1>1, <1>3
  <2>2. \A f : events = <<f>> <=> f = e
    BY <1>3
  <2>3. queue' \in Seq(Events)
    BY <1>1, <2>1, AppendEvent
  <2>4. \A f : Pending(f, queue') <=> Pending(f, queue) \/ f = e
    BY <1>1, <2>1, PendingAppend
  <2>5. \A w : /\ CreatedFirst(w, queue) => CreatedFirst(w, queue')
               /\ e = WindowEvent("create", w) /\ ~Pending(WindowEvent("destroy", w), queue)
                    => CreatedFirst(w, queue')
    BY <1>1, <2>1, CreatedFirstAppend
  <2> QED
    BY <2>2, <2>3, <2>4, <2>5
<1> QED
  BY <1>1, <1>2, <1>3

(***************************************************************************)
(* What a step of the event thread does to it.                             *)
(***************************************************************************)
LEMMA HeadHandled ==
    ASSUME TypeOK, NEW type, NextEventIs(type)
    PROVE  /\ queue' \in Seq(Events)
           /\ \A f : Pending(f, queue') => Pending(f, queue)
           /\ \A f : Pending(f, queue) => Pending(f, queue') \/ f = Head(queue)
           /\ Pending(Head(queue), queue)
           /\ \A w : CreatedFirst(w, queue) =>
                        \/ CreatedFirst(w, queue')
                        \/ Head(queue) = WindowEvent("create", w)
           /\ \A w : CreatedFirst(w, queue) => Head(queue) # WindowEvent("destroy", w)
           /\ Head(queue) \in Events
           /\ Head(queue).type = type
<1>1. queue \in Seq(Events) /\ queue # <<>> /\ queue' = Tail(queue) /\ Head(queue).type = type
  BY DEF TypeOK, NextEventIs
<1>2. queue' \in Seq(Events) /\ Head(queue) \in Events
  BY <1>1, TailEvents
<1>3. \A f : /\ Pending(f, queue) => f = Head(queue) \/ Pending(f, queue')
             /\ Pending(f, queue') => Pending(f, queue)
             /\ Pending(Head(queue), queue)
  BY <1>1, PendingTail
<1>4. \A w : CreatedFirst(w, queue) =>
               /\ Head(queue) # WindowEvent("destroy", w)
               /\ Head(queue) = WindowEvent("create", w) \/ CreatedFirst(w, queue')
  BY <1>1, CreatedFirstTail
<1> QED
  BY <1>1, <1>2, <1>3, <1>4

(***************************************************************************)
(* The event that is handled names its window.                             *)
(***************************************************************************)
LEMMA HeadWindow ==
    ASSUME NEW e \in Events, NEW type \in EventTypes, e.type = type
    PROVE  e.win \in Windows /\ e = WindowEvent(type, e.win)
<1>1. e \notin [type : {"names"}]
  BY DEF EventTypes
<1>2. e \in [type : EventTypes, win : Windows]
  BY <1>1 DEF Events, EventTypes
<1> QED
  BY <1>2 DEF WindowEvent

(***************************************************************************)
(* The head of the queue, as the handlers see it.                          *)
(***************************************************************************)
LEMMA HeadNames ==
    ASSUME NEW e \in Events, e.type = "names"
    PROVE  e = NamesEvent
BY DEF Events, NamesEvent

(***************************************************************************)
(* Events of different kinds, or about different windows, are different.   *)
(***************************************************************************)
LEMMA EventsDiffer ==
    /\ \A type1, type2, w1, w2 :
          WindowEvent(type1, w1) = WindowEvent(type2, w2) => type1 = type2 /\ w1 = w2
    /\ \A type1, w1 : type1 # "names" => WindowEvent(type1, w1) # NamesEvent
<1>1. \A type1, w1 : WindowEvent(type1, w1).type = type1 /\ WindowEvent(type1, w1).win = w1
  BY DEF WindowEvent
<1>2. NamesEvent.type = "names"
  BY DEF NamesEvent
<1> QED
  BY <1>1, <1>2

-----------------------------------------------------------------------------
(* The steps of the server.                                                *)

(***************************************************************************)
(* They leave what xwmfs has made as it is, and with it the map.           *)
(***************************************************************************)
LEMMA ServerLeavesDesktops ==
    ASSUME Inv, NEW events, Change(events)
    PROVE  MapSound' /\ \A w \in Windows : Known(w)' = Known(w)
BY DEF Inv, MapSound, Known, Change, desktops

(***************************************************************************)
(* An event about an existing window keeps the queue in order.             *)
(***************************************************************************)
LEMMA PendingAfter ==
    ASSUME ServerSound, NEW w \in Windows, NEW type \in EventTypes,
           used \subseteq used', w \in used',
           \A f : Pending(f, queue') => Pending(f, queue) \/ f = WindowEvent(type, w)
    PROVE  /\ \A x \in Windows, t \in EventTypes :
                 Pending(WindowEvent(t, x), queue') => x \in used'
           /\ \A x : Pending(WindowEvent("destroy", x), queue') =>
                        \/ Pending(WindowEvent("destroy", x), queue)
                        \/ type = "destroy" /\ x = w
<1>1. ASSUME NEW x \in Windows, NEW t \in EventTypes, Pending(WindowEvent(t, x), queue')
      PROVE  x \in used'
  <2>1. CASE Pending(WindowEvent(t, x), queue)
    BY <1>1, <2>1 DEF ServerSound
  <2>2. CASE WindowEvent(t, x) = WindowEvent(type, w)
    BY <2>2, EventsDiffer
  <2> QED
    BY <1>1, <2>1, <2>2
<1>2. ASSUME NEW x, Pending(WindowEvent("destroy", x), queue')
      PROVE  \/ Pending(WindowEvent("destroy", x), queue)
             \/ type = "destroy" /\ x = w
  BY <1>2, EventsDiffer
<1> QED
  BY <1>1, <1>2

(***************************************************************************)
(* The X server: a window is created, and announced.                       *)
(***************************************************************************)
LEMMA CreateWindowStep ==
    ASSUME Inv, NEW w \in Windows, createWindow(w)
    PROVE  Inv'
<1> DEFINE e == WindowEvent("create", w)
<1>1. Change(<<e>>) /\ e \in Events
  BY EventsTyped DEF createWindow, WindowEvent, EventTypes
<1> DEFINE queued == /\ queue' \in Seq(Events)
                     /\ \A f : Pending(f, queue) => Pending(f, queue')
                     /\ \A f : Pending(f, queue') => Pending(f, queue) \/ f = e
                     /\ Pending(e, queue')
                     /\ \A x : CreatedFirst(x, queue) => CreatedFirst(x, queue')
                     /\ ~Pending(WindowEvent("destroy", w), queue) => CreatedFirst(w, queue')
                     /\ changes' \in Nat
<1>2. queued
  <2>1. TypeOK
    BY DEF Inv
  <2>2. \A f : <<e>> = <<f>> <=> f = e
    OBVIOUS
  <2> HIDE DEF e
  <2>3. ASSUME e = WindowEvent("create", w)
        PROVE  queued
    BY <1>1, <2>1, <2>2, <2>3, ChangeQueue
  <2> QED
    BY <2>3 DEF e
<1>3. UNCHANGED <<started, m_names, windows, dirs, links, m_window_desktop_dir_map,
                  x_desktop, x_names, x_count, selected>>
  BY <1>1 DEF createWindow, Change, desktops
<1>4. x_exist' = x_exist \cup {w} /\ used' = used \cup {w} /\ w \notin x_exist
      /\ (w \in Settled => w \notin used)
  BY DEF createWindow, Settled
<1>5. \A x \in Windows : Known(x)' = Known(x)
  BY <1>1, ServerLeavesDesktops
<1> HIDE DEF e
<1>6. e = WindowEvent("create", w)
  BY DEF e
<1>7. TypeOK'
  BY <1>2, <1>3, <1>4 DEF Inv, TypeOK
<1>8. MapSound'
  BY <1>1, ServerLeavesDesktops
<1>9. ServerSound'
  <2>1. ServerSound /\ "create" \in EventTypes
    BY DEF Inv, EventTypes
  <2>2. /\ \A x \in Windows, t \in EventTypes :
              Pending(WindowEvent(t, x), queue') => x \in used'
        /\ \A x : Pending(WindowEvent("destroy", x), queue') =>
                     Pending(WindowEvent("destroy", x), queue)
    BY <1>2, <1>4, <1>6, <2>1, PendingAfter
  <2>3. w \in Settled => ~Pending(WindowEvent("destroy", w), queue)
    BY <1>4 DEF Inv, ServerSound, EventTypes
  <2> QED
    BY <1>3, <1>4, <2>1, <2>2, <2>3 DEF ServerSound, Settled
<1>10. NamesFetched'
  BY <1>2, <1>3, <1>5 DEF Inv, NamesFetched
<1>11. WindowsListed'
  <2>1. w \in Settled => ~Pending(WindowEvent("destroy", w), queue)
    BY <1>4 DEF Inv, ServerSound, EventTypes
  <2> QED
    BY <1>2, <1>3, <1>4, <1>5, <1>6, <2>1 DEF Inv, WindowsListed, Settled
<1>12. LinksSettled'
  <2>1. x_desktop[w] = None
    BY <1>4 DEF Inv, ServerSound
  <2>2. x_desktop[w] \notin 0 .. dirs - 1
    BY <2>1, ConstantTypes DEF Inv, TypeOK, Desktops
  <2>3. w \in Settled => ~Known(w)
    <3>1. w \in Settled => ~Pending(WindowEvent("destroy", w), queue)
      BY <1>4 DEF Inv, ServerSound, EventTypes
    <3> QED
      BY <1>4, <3>1 DEF Inv, LinksSettled
  <2> QED
    BY <1>2, <1>3, <1>4, <1>5, <2>2, <2>3 DEF Inv, LinksSettled, Settled
<1> QED
  BY <1>7, <1>8, <1>9, <1>10, <1>11, <1>12 DEF Inv

(***************************************************************************)
(* The X server: a window goes, and is announced as gone.                  *)
(***************************************************************************)
LEMMA DestroyWindowStep ==
    ASSUME Inv, NEW w \in Windows, destroyWindow(w)
    PROVE  Inv'
<1> DEFINE e == WindowEvent("destroy", w)
<1>1. Change(<<e>>) /\ e \in Events
  BY EventsTyped DEF destroyWindow, WindowEvent, EventTypes
<1> DEFINE queued == /\ queue' \in Seq(Events)
                     /\ \A f : Pending(f, queue) => Pending(f, queue')
                     /\ \A f : Pending(f, queue') => Pending(f, queue) \/ f = e
                     /\ Pending(e, queue')
                     /\ \A x : CreatedFirst(x, queue) => CreatedFirst(x, queue')
                     /\ changes' \in Nat
<1>2. queued
  <2>1. TypeOK
    BY DEF Inv
  <2>2. \A f : <<e>> = <<f>> <=> f = e
    OBVIOUS
  <2> HIDE DEF e
  <2> QED
    BY <1>1, <2>1, <2>2, ChangeQueue
<1>3. UNCHANGED <<started, m_names, windows, dirs, links, m_window_desktop_dir_map,
                  used, x_names, x_count>>
  BY <1>1 DEF destroyWindow, Change, desktops
<1>4. /\ x_exist' = x_exist \ {w} /\ selected' = selected \ {w} /\ w \in x_exist
      /\ x_desktop' = [x_desktop EXCEPT ![w] = None]
  BY DEF destroyWindow
<1>5. \A x \in Windows : Known(x)' = Known(x)
  BY <1>1, ServerLeavesDesktops
<1> HIDE DEF e
<1>6. e = WindowEvent("destroy", w)
  BY DEF e
<1>7. TypeOK'
  BY <1>2, <1>3, <1>4 DEF Inv, TypeOK
<1>8. MapSound'
  BY <1>1, ServerLeavesDesktops
<1>9. ServerSound'
  <2>1. ServerSound /\ "destroy" \in EventTypes /\ w \in used'
    BY <1>3, <1>4 DEF Inv, TypeOK, EventTypes
  <2>2. /\ \A x \in Windows, t \in EventTypes :
              Pending(WindowEvent(t, x), queue') => x \in used'
        /\ \A x : Pending(WindowEvent("destroy", x), queue') =>
                     Pending(WindowEvent("destroy", x), queue) \/ x = w
    BY <1>2, <1>3, <1>6, <2>1, PendingAfter
  <2> QED
    BY <1>3, <1>4, <2>1, <2>2 DEF Inv, TypeOK, ServerSound, Settled
<1>10. NamesFetched'
  BY <1>2, <1>3, <1>5 DEF Inv, NamesFetched
<1>11. WindowsListed'
  BY <1>2, <1>3, <1>4, <1>5 DEF Inv, WindowsListed, Settled
<1>12. LinksSettled'
  BY <1>2, <1>3, <1>4, <1>5, <1>6 DEF Inv, TypeOK, LinksSettled, Settled
<1> QED
  BY <1>7, <1>8, <1>9, <1>10, <1>11, <1>12 DEF Inv

(***************************************************************************)
(* The X server: a window gets a desktop.                                  *)
(***************************************************************************)
LEMMA AssignDesktopStep ==
    ASSUME Inv, NEW w \in Windows, NEW d \in Desktops \cup {EveryDesktop}, assignDesktop(w, d)
    PROVE  Inv'
<1> DEFINE e == WindowEvent("desktop", w)
           events == IF w \in selected THEN <<e>> ELSE <<>>
<1>1. Change(events) /\ e \in Events
  BY EventsTyped DEF assignDesktop, WindowEvent, EventTypes
<1> DEFINE queued == /\ queue' \in Seq(Events)
                     /\ \A f : Pending(f, queue) => Pending(f, queue')
                     /\ \A f : Pending(f, queue') => Pending(f, queue) \/ f = e
                     /\ w \in selected => Pending(e, queue')
                     /\ \A x : CreatedFirst(x, queue) => CreatedFirst(x, queue')
                     /\ changes' \in Nat
<1>2. queued
  <2>1. TypeOK
    BY DEF Inv
  <2>2. /\ \A f : events = <<f>> => f = e
        /\ w \in selected => events = <<e>>
        /\ events = <<>> \/ events = <<e>>
    OBVIOUS
  <2> HIDE DEF e, events
  <2> QED
    BY <1>1, <2>1, <2>2, ChangeQueue
<1>3. UNCHANGED <<started, m_names, windows, dirs, links, m_window_desktop_dir_map,
                  x_exist, used, x_names, x_count, selected>>
  BY <1>1 DEF assignDesktop, Change, desktops
<1>4. /\ w \in x_exist
      /\ x_desktop' = [x_desktop EXCEPT ![w] = d]
      /\ w \in Settled => x_desktop[w] = None
  BY ConstantTypes DEF assignDesktop, Settled
<1>5. \A x \in Windows : Known(x)' = Known(x)
  BY <1>1, ServerLeavesDesktops
<1> HIDE DEF e, events
<1>6. e = WindowEvent("desktop", w)
  BY DEF e
<1>7. TypeOK'
  BY <1>2, <1>3, <1>4 DEF Inv, TypeOK
<1>8. MapSound'
  BY <1>1, ServerLeavesDesktops
<1>9. ServerSound'
  <2>1. ServerSound /\ "desktop" \in EventTypes /\ w \in used'
    BY <1>3, <1>4 DEF Inv, TypeOK, EventTypes
  <2>2. /\ \A x \in Windows, t \in EventTypes :
              Pending(WindowEvent(t, x), queue') => x \in used'
        /\ \A x : Pending(WindowEvent("destroy", x), queue') =>
                     Pending(WindowEvent("destroy", x), queue)
    BY <1>2, <1>3, <1>6, <2>1, PendingAfter
  <2> QED
    BY <1>3, <1>4, <2>1, <2>2 DEF Inv, TypeOK, ServerSound, Settled
<1>10. NamesFetched'
  BY <1>2, <1>3, <1>5 DEF Inv, NamesFetched
<1>11. WindowsListed'
  BY <1>2, <1>3, <1>4, <1>5 DEF Inv, WindowsListed, Settled
<1>12. LinksSettled'
  <2>1. w \in Settled => ~Known(w)
    BY <1>4 DEF Inv, LinksSettled, Known
  <2>2. started >= 2 => w \in selected \/ Pending(WindowEvent("create", w), queue)
    BY <1>4 DEF Inv, WindowsListed
  <2>3. started = 3 => Pending(WindowEvent("desktop", w), queue')
                       \/ Pending(WindowEvent("create", w), queue')
    BY <1>2, <1>6, <2>2
  <2> QED
    BY <1>2, <1>3, <1>4, <1>5, <2>1, <2>3 DEF Inv, TypeOK, LinksSettled, Settled
<1> QED
  BY <1>7, <1>8, <1>9, <1>10, <1>11, <1>12 DEF Inv

(***************************************************************************)
(* The X server: a window's desktop property is deleted.                   *)
(***************************************************************************)
LEMMA DeleteDesktopStep ==
    ASSUME Inv, NEW w \in Windows, deleteDesktop(w)
    PROVE  Inv'
<1> DEFINE e == WindowEvent("no desktop", w)
           events == IF w \in selected THEN <<e>> ELSE <<>>
<1>1. Change(events) /\ e \in Events
  BY EventsTyped DEF deleteDesktop, WindowEvent, EventTypes
<1> DEFINE queued == /\ queue' \in Seq(Events)
                     /\ \A f : Pending(f, queue) => Pending(f, queue')
                     /\ \A f : Pending(f, queue') => Pending(f, queue) \/ f = e
                     /\ \A x : CreatedFirst(x, queue) => CreatedFirst(x, queue')
                     /\ changes' \in Nat
<1>2. queued
  <2>1. TypeOK
    BY DEF Inv
  <2>2. /\ \A f : events = <<f>> => f = e
        /\ events = <<>> \/ events = <<e>>
    OBVIOUS
  <2> HIDE DEF e, events
  <2> QED
    BY <1>1, <2>1, <2>2, ChangeQueue
<1>3. UNCHANGED <<started, m_names, windows, dirs, links, m_window_desktop_dir_map,
                  x_exist, used, x_names, x_count, selected>>
  BY <1>1 DEF deleteDesktop, Change, desktops
<1>4. /\ w \in x_exist
      /\ x_desktop' = [x_desktop EXCEPT ![w] = None]
      /\ w \notin Settled
  BY ConstantTypes DEF deleteDesktop, Settled
<1>5. \A x \in Windows : Known(x)' = Known(x)
  BY <1>1, ServerLeavesDesktops
<1> HIDE DEF e, events
<1>6. e = WindowEvent("no desktop", w)
  BY DEF e
<1>7. TypeOK'
  BY <1>2, <1>3, <1>4 DEF Inv, TypeOK
<1>8. MapSound'
  BY <1>1, ServerLeavesDesktops
<1>9. ServerSound'
  <2>1. ServerSound /\ "no desktop" \in EventTypes /\ w \in used'
    BY <1>3, <1>4 DEF Inv, TypeOK, EventTypes
  <2>2. /\ \A x \in Windows, t \in EventTypes :
              Pending(WindowEvent(t, x), queue') => x \in used'
        /\ \A x : Pending(WindowEvent("destroy", x), queue') =>
                     Pending(WindowEvent("destroy", x), queue)
    BY <1>2, <1>3, <1>6, <2>1, PendingAfter
  <2> QED
    BY <1>3, <1>4, <2>1, <2>2 DEF Inv, TypeOK, ServerSound, Settled
<1>10. NamesFetched'
  BY <1>2, <1>3, <1>5 DEF Inv, NamesFetched
<1>11. WindowsListed'
  BY <1>2, <1>3, <1>4, <1>5 DEF Inv, WindowsListed, Settled
<1>12. LinksSettled'
  BY <1>2, <1>3, <1>4, <1>5 DEF Inv, TypeOK, LinksSettled, Settled
<1> QED
  BY <1>7, <1>8, <1>9, <1>10, <1>11, <1>12 DEF Inv

(***************************************************************************)
(* The window manager changes the desktops and their names.                *)
(***************************************************************************)
LEMMA ChangeCountStep ==
    ASSUME Inv, NEW n \in 1 .. MaxDesktops, changeCount(n) \/ changeNames(n)
    PROVE  Inv'
<1> DEFINE events == IF changeNames(n) THEN <<NamesEvent>> ELSE <<>>
<1>1. Change(events) /\ NamesEvent \in Events
  BY EventsTyped DEF changeCount, changeNames, NamesEvent
<1> DEFINE queued == /\ queue' \in Seq(Events)
                     /\ \A f : Pending(f, queue) => Pending(f, queue')
                     /\ \A f : Pending(f, queue') => Pending(f, queue) \/ f = NamesEvent
                     /\ changeNames(n) => Pending(NamesEvent, queue')
                     /\ \A x : CreatedFirst(x, queue) => CreatedFirst(x, queue')
                     /\ changes' \in Nat
<1>2. queued
  <2>1. TypeOK
    BY DEF Inv
  <2>2. /\ \A f : events = <<f>> => f = NamesEvent
        /\ events = <<>> \/ events = <<NamesEvent>>
        /\ changeNames(n) => events = <<NamesEvent>>
    OBVIOUS
  <2> HIDE DEF events
  <2> QED
    BY <1>1, <2>1, <2>2, ChangeQueue
<1>3. UNCHANGED <<started, m_names, windows, dirs, links, m_window_desktop_dir_map,
                  x_exist, used, x_desktop, selected>>
  BY <1>1 DEF changeCount, changeNames, Change, desktops
<1>4. /\ x_names' \in 1 .. MaxDesktops /\ x_count' \in 1 .. MaxDesktops
      /\ changeNames(n) \/ x_names' = x_names
  BY DEF changeCount, changeNames, Inv, TypeOK
<1>5. \A x \in Windows : Known(x)' = Known(x)
  BY <1>1, ServerLeavesDesktops
<1> HIDE DEF events
<1>7. TypeOK'
  BY <1>2, <1>3, <1>4 DEF Inv, TypeOK
<1>8. MapSound'
  BY <1>1, ServerLeavesDesktops
<1>9. ServerSound'
  <2>1. \A x : \A type \in EventTypes : WindowEvent(type, x) # NamesEvent
    BY EventsDiffer DEF EventTypes
  <2>2. "destroy" \in EventTypes
    BY DEF EventTypes
  <2>3. ASSUME NEW x, NEW type \in EventTypes, Pending(WindowEvent(type, x), queue')
        PROVE  Pending(WindowEvent(type, x), queue)
    BY <1>2, <2>1, <2>3
  <2> QED
    BY <1>3, <2>2, <2>3 DEF Inv, ServerSound
<1>10. NamesFetched'
  BY <1>2, <1>3, <1>4, <1>5 DEF Inv, NamesFetched
<1>11. WindowsListed'
  BY <1>2, <1>3, <1>5 DEF Inv, WindowsListed, Settled
<1>12. LinksSettled'
  BY <1>2, <1>3, <1>5 DEF Inv, TypeOK, LinksSettled, Settled
<1> QED
  BY <1>7, <1>8, <1>9, <1>10, <1>11, <1>12 DEF Inv

-----------------------------------------------------------------------------
(* The steps of xwmfs.                                                     *)

(***************************************************************************)
(* The rebuild: the links and the map say the same of every window.        *)
(***************************************************************************)
LEMMA Rebuilt ==
    ASSUME TypeOK, NEW n \in 0 .. MaxDesktops, handleDesktopsChanged(n)
    PROVE  /\ dirs' = n
           /\ links' \in [Desktops -> SUBSET Windows]
           /\ m_window_desktop_dir_map' \in [Windows -> Desktops \cup {None}]
           /\ \A d \in Desktops : d >= n => links'[d] = {}
           /\ MapSound'
           /\ \A w \in Windows : Known(w)' <=> OnDesktop(w, n)
           /\ \A w \in Windows : Known(w)' => m_window_desktop_dir_map'[w] = x_desktop[w]
           /\ \A w \in Windows, d \in Desktops :
                 w \in links'[d] => m_window_desktop_dir_map'[w] = d
<1>1. \A w \in Windows : OnDesktop(w, n) =>
        x_desktop[w] \in Desktops /\ x_desktop[w] < n /\ x_desktop[w] # None
  BY ConstantTypes DEF OnDesktop, TypeOK, Desktops, EveryDesktop
<1>2. m_window_desktop_dir_map' =
        [w \in Windows |-> IF OnDesktop(w, n) THEN x_desktop[w] ELSE None]
  BY DEF handleDesktopsChanged, ClearedMap
<1>3. /\ dirs' = n
      /\ links' = [d \in Desktops |->
                     IF d < n THEN {w \in Windows : OnDesktop(w, n) /\ x_desktop[w] = d}
                              ELSE {}]
  BY DEF handleDesktopsChanged
<1>4. /\ links' \in [Desktops -> SUBSET Windows]
      /\ m_window_desktop_dir_map' \in [Windows -> Desktops \cup {None}]
  BY <1>1, <1>2, <1>3
<1>5. \A d \in Desktops : d >= n => links'[d] = {}
  BY <1>3 DEF Desktops
<1>6. \A w \in Windows : /\ Known(w)' <=> OnDesktop(w, n)
                         /\ Known(w)' => m_window_desktop_dir_map'[w] = x_desktop[w]
  BY <1>1, <1>2 DEF Known
<1>7. \A w \in Windows, d \in Desktops :
        w \in links'[d] => m_window_desktop_dir_map'[w] = d
  BY <1>2, <1>3
<1>8. MapSound'
  <2>1. \A w \in Windows : Known(w)' => w \in links'[m_window_desktop_dir_map'[w]]
    BY <1>1, <1>3, <1>6
  <2> QED
    BY <1>1, <1>3, <1>6, <2>1 DEF MapSound
<1> QED
  BY <1>3, <1>4, <1>5, <1>6, <1>7, <1>8

(***************************************************************************)
(* One link added, if there is a place for it.                             *)
(***************************************************************************)
LEMMA LinkAdded ==
    ASSUME Inv, NEW w \in Windows, handleWindowCreated(w)
    PROVE  /\ dirs' = dirs
           /\ links' \in [Desktops -> SUBSET Windows]
           /\ m_window_desktop_dir_map' \in [Windows -> Desktops \cup {None}]
           /\ \A d \in Desktops : d >= dirs => links'[d] = {}
           /\ MapSound'
           /\ \A x \in Windows : Known(x) \/ x # w =>
                 m_window_desktop_dir_map'[x] = m_window_desktop_dir_map[x]
           /\ \A x \in Windows, d \in Desktops : x # w /\ x \in links'[d] => x \in links[d]
           /\ ~Known(w) /\ Known(w)' =>
                 w \in x_exist /\ m_window_desktop_dir_map'[w] = x_desktop[w]
           /\ w \in Settled =>
                 /\ \A d \in Desktops : w \in links'[d] => m_window_desktop_dir_map'[w] = d
                 /\ w \in x_exist /\ x_desktop[w] \in 0 .. dirs - 1 => Known(w)'
<1> DEFINE d0 == x_desktop[w]
           placed == Assigned(w) /\ d0 \in 0 .. dirs - 1
<1>0. /\ TypeOK /\ MapSound
      /\ links \in [Desktops -> SUBSET Windows]
      /\ m_window_desktop_dir_map \in [Windows -> Desktops \cup {None}]
      /\ dirs \in 0 .. MaxDesktops
      /\ \A d \in Desktops : d >= dirs => links[d] = {}
  BY DEF Inv, TypeOK
<1>1. d0 \in 0 .. dirs - 1 => d0 \in Desktops /\ d0 < dirs /\ d0 # None
  BY <1>0, ConstantTypes DEF Desktops
<1>2. w \in Settled => \A d \in Desktops : w \in links[d] => m_window_desktop_dir_map[w] = d
  BY DEF Inv, LinksSettled
<1>3. CASE ~placed
  <2>1. UNCHANGED desktops
    BY <1>3 DEF handleWindowCreated
  <2>2. w \in x_exist => d0 \notin 0 .. dirs - 1
    BY <1>1, <1>3 DEF Assigned
  <2> QED
    BY <1>0, <1>2, <2>1, <2>2 DEF desktops, MapSound, Known
<1>4. CASE placed /\ w \in links[d0]
  <2>1. UNCHANGED desktops
    BY <1>4 DEF handleWindowCreated, addWindowToDesktop
  <2>2. w \in Settled => Known(w)
    BY <1>1, <1>2, <1>4 DEF Known
  <2> QED
    BY <1>0, <1>2, <2>1, <2>2 DEF desktops, MapSound, Known
<1>5. CASE placed /\ w \notin links[d0]
  <2>1. /\ links' = [links EXCEPT ![d0] = @ \cup {w}]
        /\ m_window_desktop_dir_map' =
                IF Known(w) THEN m_window_desktop_dir_map
                            ELSE [m_window_desktop_dir_map EXCEPT ![w] = d0]
        /\ UNCHANGED dirs
    BY <1>5 DEF handleWindowCreated, addWindowToDesktop
  <2>2. d0 \in Desktops /\ d0 < dirs /\ d0 # None /\ w \in x_exist
    BY <1>1, <1>5 DEF Assigned
  <2>3. /\ links' \in [Desktops -> SUBSET Windows]
        /\ m_window_desktop_dir_map' \in [Windows -> Desktops \cup {None}]
    BY <1>0, <2>1, <2>2
  <2>4. \A d \in Desktops : d >= dirs => links'[d] = {}
    BY <1>0, <2>1, <2>2 DEF Desktops
  <2>5. \A x \in Windows : Known(x) \/ x # w =>
                 m_window_desktop_dir_map'[x] = m_window_desktop_dir_map[x]
    BY <1>0, <2>1
  <2>6. \A x \in Windows, d \in Desktops : x # w /\ x \in links'[d] => x \in links[d]
    BY <1>0, <2>1, <2>2
  <2>7. Known(w)' /\ (~Known(w) => m_window_desktop_dir_map'[w] = d0)
    BY <1>0, <2>1, <2>2 DEF Known
  <2>8. MapSound'
    <3>1. \A d \in Desktops : links[d] \subseteq links'[d]
      BY <1>0, <2>1
    <3>2. w \in links'[d0]
      BY <1>0, <2>1, <2>2
    <3>3. ASSUME NEW x \in Windows, Known(x)'
          PROVE  m_window_desktop_dir_map'[x] < dirs /\ x \in links'[m_window_desktop_dir_map'[x]]
      <4>1. CASE Known(x)
        <5>1. /\ m_window_desktop_dir_map'[x] = m_window_desktop_dir_map[x]
              /\ m_window_desktop_dir_map[x] \in Desktops
              /\ m_window_desktop_dir_map[x] < dirs
              /\ x \in links[m_window_desktop_dir_map[x]]
          BY <1>0, <2>5, <4>1 DEF MapSound, Known
        <5> QED
          BY <3>1, <5>1
      <4>2. CASE ~Known(x)
        <5>1. x = w
          BY <2>5, <3>3, <4>2 DEF Known
        <5> QED
          BY <2>2, <2>7, <3>2, <4>2, <5>1
      <4> QED
        BY <4>1, <4>2
    <3> QED
      BY <2>1, <3>3 DEF MapSound
  <2>9. w \in Settled => \A d \in Desktops : w \in links'[d] => m_window_desktop_dir_map'[w] = d
    <3>1. SUFFICES ASSUME w \in Settled, NEW d \in Desktops, w \in links'[d]
                   PROVE  m_window_desktop_dir_map'[w] = d
      OBVIOUS
    <3>2. CASE Known(w)
      <4>1. d0 = m_window_desktop_dir_map[w]
        BY <2>2, <3>1, <3>2 DEF Inv, LinksSettled
      <4>2. w \in links[d0]
        BY <1>0, <3>2, <4>1 DEF MapSound
      <4> QED
        BY <1>5, <4>2
    <3>3. CASE ~Known(w)
      <4>1. w \notin links[d]
        BY <1>0, <1>2, <3>1, <3>3, ConstantTypes DEF Known
      <4>2. d = d0
        BY <1>0, <2>1, <3>1, <4>1
      <4> QED
        BY <2>7, <3>3, <4>2
    <3> QED
      BY <3>2, <3>3
  <2> QED
    BY <2>1, <2>2, <2>3, <2>4, <2>5, <2>6, <2>7, <2>8, <2>9
<1> QED
  BY <1>3, <1>4, <1>5

(***************************************************************************)
(* The initial state.                                                      *)
(***************************************************************************)
LEMMA InvInit == Init => Inv
<1> SUFFICES ASSUME Init PROVE Inv
  OBVIOUS
<1>1. \A f : ~Pending(f, queue)
  BY DEF Init, Pending
<1>2. \A w \in Windows : ~Known(w)
  BY DEF Init, Known
<1>3. x_desktop \in [Windows -> Desktops \cup {EveryDesktop, None}]
  BY ConstantTypes DEF Init, Desktops
<1>4. TypeOK
  BY <1>3, ConstantTypes DEF Init, TypeOK
<1>5. MapSound
  BY <1>2 DEF MapSound
<1>6. ServerSound
  BY <1>1 DEF Init, ServerSound, EventTypes
<1>7. NamesFetched
  BY <1>2 DEF Init, NamesFetched
<1>8. WindowsListed
  BY DEF Init, WindowsListed
<1>9. LinksSettled
  <2>1. started # 3 /\ \A d \in Desktops : links[d] = {}
    BY DEF Init
  <2> QED
    BY <1>2, <2>1 DEF LinksSettled, Settled
<1> QED
  BY <1>4, <1>5, <1>6, <1>7, <1>8, <1>9 DEF Inv

(***************************************************************************)
(* createFS.                                                               *)
(***************************************************************************)
LEMMA FetchDesktopNamesStep ==
    ASSUME Inv, fetchDesktopNames
    PROVE  Inv'
<1>1. UNCHANGED <<x_exist, used, x_desktop, x_names, x_count, changes, selected, queue,
                  windows, dirs, links, m_window_desktop_dir_map>>
  BY DEF fetchDesktopNames, server, desktops
<1>2. started = 0 /\ started' = 1 /\ m_names' = x_names
  BY DEF fetchDesktopNames
<1>3. \A w \in Windows : Known(w)' = Known(w)
  BY <1>1 DEF Known
<1>4. TypeOK'
  BY <1>1, <1>2, ConstantTypes DEF Inv, TypeOK
<1>5. MapSound' /\ ServerSound'
  BY <1>1, <1>3 DEF Inv, MapSound, ServerSound
<1>6. NamesFetched'
  BY <1>1, <1>2, <1>3 DEF Inv, NamesFetched
<1>7. WindowsListed'
  BY <1>2 DEF WindowsListed
<1>8. LinksSettled'
  BY <1>1, <1>2, <1>3 DEF Inv, LinksSettled, Settled
<1> QED
  BY <1>4, <1>5, <1>6, <1>7, <1>8 DEF Inv

(***************************************************************************)
(* Start-up: the windows that exist are listed.                            *)
(***************************************************************************)
LEMMA AddWindowsStep ==
    ASSUME Inv, addWindows
    PROVE  Inv'
<1>1. UNCHANGED <<x_exist, used, x_desktop, x_names, x_count, changes, queue, m_names,
                  dirs, links, m_window_desktop_dir_map>>
  BY DEF addWindows, server, desktops
<1>2. started = 1 /\ started' = 2 /\ windows' = x_exist /\ selected' = x_exist
  BY DEF addWindows
<1>3. \A w \in Windows : Known(w)' = Known(w)
  BY <1>1 DEF Known
<1>4. TypeOK'
  BY <1>1, <1>2 DEF Inv, TypeOK
<1>5. MapSound' /\ ServerSound'
  BY <1>1, <1>3 DEF Inv, MapSound, ServerSound
<1>6. NamesFetched'
  BY <1>1, <1>2, <1>3 DEF Inv, NamesFetched
<1>7. WindowsListed'
  BY <1>1, <1>2, <1>3 DEF Inv, NamesFetched, WindowsListed, Settled
<1>8. LinksSettled'
  BY <1>1, <1>2, <1>3 DEF Inv, LinksSettled, Settled
<1> QED
  BY <1>4, <1>5, <1>6, <1>7, <1>8 DEF Inv

(***************************************************************************)
(* A rebuild makes the links of all windows right.                         *)
(***************************************************************************)
LEMMA RebuiltLinks ==
    ASSUME Inv, NEW n \in 0 .. MaxDesktops, handleDesktopsChanged(n),
           UNCHANGED <<x_exist, x_desktop>>
    PROVE  /\ LinksSettled'
           /\ \A w \in Windows : Known(w)' => w \in x_exist
<1>1. TypeOK
  BY DEF Inv
<1>2. /\ dirs' = n
      /\ \A w \in Windows : Known(w)' <=> OnDesktop(w, n)
      /\ \A w \in Windows : Known(w)' => m_window_desktop_dir_map'[w] = x_desktop[w]
      /\ \A w \in Windows, d \in Desktops :
            w \in links'[d] => m_window_desktop_dir_map'[w] = d
  BY <1>1, Rebuilt
<1>3. \A w \in Windows : Known(w)' => w \in x_exist
  BY <1>2 DEF OnDesktop, Assigned
<1>4. \A w \in Windows : w \in x_exist /\ x_desktop[w] \in 0 .. n - 1 => Known(w)'
  BY <1>1, <1>2, ConstantTypes DEF OnDesktop, Assigned, TypeOK, Desktops
<1> QED
  BY <1>2, <1>3, <1>4 DEF LinksSettled, Settled

(***************************************************************************)
(* Start-up: the desktop directories are built from the names fetched.     *)
(***************************************************************************)
LEMMA AddDesktopsStep ==
    ASSUME Inv, addDesktops
    PROVE  Inv'
<1>1. UNCHANGED <<x_exist, used, x_desktop, x_names, x_count, changes, selected, queue,
                  m_names, windows>>
  BY DEF addDesktops, server
<1>2. started = 2 /\ started' = 3 /\ handleDesktopsChanged(m_names)
      /\ m_names \in 0 .. MaxDesktops /\ TypeOK
  BY DEF addDesktops, Inv, TypeOK
<1>3. /\ dirs' = m_names
      /\ links' \in [Desktops -> SUBSET Windows]
      /\ m_window_desktop_dir_map' \in [Windows -> Desktops \cup {None}]
      /\ \A d \in Desktops : d >= m_names => links'[d] = {}
      /\ MapSound'
  BY <1>2, Rebuilt
<1>4. LinksSettled' /\ \A w \in Windows : Known(w)' => w \in x_exist
  BY <1>1, <1>2, RebuiltLinks
<1>5. TypeOK'
  BY <1>1, <1>2, <1>3 DEF TypeOK
<1>6. ServerSound'
  BY <1>1 DEF Inv, ServerSound
<1>7. NamesFetched'
  BY <1>1, <1>2, <1>3 DEF Inv, NamesFetched
<1>8. WindowsListed'
  BY <1>1, <1>2, <1>4 DEF Inv, WindowsListed, Settled
<1> QED
  BY <1>3, <1>4, <1>5, <1>6, <1>7, <1>8 DEF Inv

(***************************************************************************)
(* The event thread: what holds whatever the event is.                     *)
(***************************************************************************)
LEMMA AnyEvent ==
    ASSUME Inv, NEW type, NextEventIs(type)
    PROVE  /\ ServerSound'
           /\ UNCHANGED <<x_exist, used, x_desktop, x_names, x_count, changes, started>>
           /\ started = 3
<1>1. UNCHANGED <<x_exist, used, x_desktop, x_names, x_count, changes, started>> /\ started = 3
  BY DEF NextEventIs, server
<1>2. TypeOK
  BY DEF Inv
<1>3. \A f : Pending(f, queue') => Pending(f, queue)
  BY <1>2, HeadHandled
<1> QED
  BY <1>1, <1>3 DEF Inv, ServerSound

(***************************************************************************)
(* A create event: the window is listed and linked, or was known already.  *)
(***************************************************************************)
LEMMA HandleCreateEventStep ==
    ASSUME Inv, handleCreateEvent
    PROVE  Inv'
<1>0. TypeOK /\ "create" \in EventTypes
  BY DEF Inv, EventTypes
<1>1. /\ queue' \in Seq(Events)
      /\ \A f : Pending(f, queue) => Pending(f, queue') \/ f = Head(queue)
      /\ \A x : CreatedFirst(x, queue) =>
                   CreatedFirst(x, queue') \/ Head(queue) = WindowEvent("create", x)
      /\ Head(queue) \in Events /\ Head(queue).type = "create"
  BY <1>0, HeadHandled DEF handleCreateEvent
<1>2. PICK w \in Windows : w = Head(queue).win /\ Head(queue) = WindowEvent("create", w)
  BY <1>0, <1>1, HeadWindow
<1>3. /\ ServerSound' /\ started = 3
      /\ UNCHANGED <<x_exist, used, x_desktop, x_names, x_count, changes, started, m_names>>
  BY AnyEvent DEF handleCreateEvent
<1>4. /\ windows' = windows \cup {w}
      /\ selected' = selected \cup ({w} \cap x_exist)
      /\ handleWindowCreated(w)
  BY <1>2 DEF handleCreateEvent
<1>5. /\ dirs' = dirs
      /\ links' \in [Desktops -> SUBSET Windows]
      /\ m_window_desktop_dir_map' \in [Windows -> Desktops \cup {None}]
      /\ \A d \in Desktops : d >= dirs => links'[d] = {}
      /\ MapSound'
  BY <1>2, <1>4, LinkAdded
<1>6. /\ \A x \in Windows : Known(x) \/ x # w =>
            m_window_desktop_dir_map'[x] = m_window_desktop_dir_map[x]
      /\ \A x \in Windows, d \in Desktops : x # w /\ x \in links'[d] => x \in links[d]
      /\ ~Known(w) /\ Known(w)' =>
            w \in x_exist /\ m_window_desktop_dir_map'[w] = x_desktop[w]
      /\ w \in Settled =>
            /\ \A d \in Desktops : w \in links'[d] => m_window_desktop_dir_map'[w] = d
            /\ w \in x_exist /\ x_desktop[w] \in 0 .. dirs - 1 => Known(w)'
  BY <1>2, <1>4, LinkAdded
<1>7. \A type, x : type # "create" \/ x # w =>
         (Pending(WindowEvent(type, x), queue) => Pending(WindowEvent(type, x), queue'))
  BY <1>1, <1>2, EventsDiffer
<1>8. Pending(NamesEvent, queue) => Pending(NamesEvent, queue')
  BY <1>1, <1>2, EventsDiffer
<1>9. \A x : CreatedFirst(x, queue) => CreatedFirst(x, queue') \/ x = w
  BY <1>1, <1>2, EventsDiffer
<1>10. TypeOK'
  BY <1>0, <1>1, <1>2, <1>3, <1>4, <1>5 DEF TypeOK
<1>11. NamesFetched'
  BY <1>3, <1>5, <1>8 DEF Inv, NamesFetched
<1>12. WindowsListed'
  <2>1. \A x \in x_exist \ selected' : Pending(WindowEvent("create", x), queue')
    BY <1>3, <1>4, <1>7 DEF Inv, WindowsListed
  <2>2. ASSUME NEW x \in Settled, x # w, x \in x_exist \/ Known(x)'
        PROVE  x \in windows' \/ CreatedFirst(x, queue')
    <3>1. x \in Windows
      BY DEF Settled
    <3>2. x \in x_exist \/ Known(x)
      BY <1>6, <2>2, <3>1 DEF Known
    <3> QED
      BY <1>3, <1>4, <1>9, <2>2, <3>2 DEF Inv, WindowsListed
  <2> QED
    BY <1>3, <1>4, <2>1, <2>2 DEF WindowsListed, Settled
<1>13. LinksSettled'
  <2>1. SUFFICES ASSUME NEW x \in Settled
        PROVE  /\ \A d \in Desktops : x \in links'[d] => m_window_desktop_dir_map'[x] = d
               /\ x \in x_exist /\ Known(x)' => x_desktop[x] = m_window_desktop_dir_map'[x]
               /\ Known(x)' /\ x \notin x_exist => Pending(WindowEvent("destroy", x), queue')
               /\ x \in x_exist /\ x_desktop[x] \in 0 .. dirs - 1 =>
                     \/ Known(x)'
                     \/ Pending(WindowEvent("create", x), queue')
                     \/ Pending(WindowEvent("desktop", x), queue')
    BY <1>3, <1>5 DEF LinksSettled, Settled
  <2>2. x \in Windows /\ started = 3
    BY <1>3 DEF Settled
  <2>3. LinksSettled
    BY DEF Inv
  <2>4. CASE x # w
    <3>1. Known(x)' = Known(x) /\ m_window_desktop_dir_map'[x] = m_window_desktop_dir_map[x]
      BY <1>6, <2>2, <2>4 DEF Known
    <3>2. Pending(WindowEvent("create", x), queue) => Pending(WindowEvent("create", x), queue')
      BY <1>7, <2>4
    <3>3. /\ Pending(WindowEvent("desktop", x), queue) => Pending(WindowEvent("desktop", x), queue')
          /\ Pending(WindowEvent("destroy", x), queue) => Pending(WindowEvent("destroy", x), queue')
      BY <1>7
    <3> QED
      BY <1>6, <2>2, <2>3, <2>4, <3>1, <3>2, <3>3 DEF LinksSettled
  <2>5. CASE x = w
    <3>1. Pending(WindowEvent("destroy", x), queue) => Pending(WindowEvent("destroy", x), queue')
      BY <1>7
    <3>2. Known(x) => Known(x)' /\ m_window_desktop_dir_map'[x] = m_window_desktop_dir_map[x]
      BY <1>6, <2>2 DEF Known
    <3> QED
      BY <1>6, <2>2, <2>3, <2>5, <3>1, <3>2 DEF LinksSettled
  <2> QED
    BY <2>4, <2>5
<1> QED
  BY <1>3, <1>5, <1>10, <1>11, <1>12, <1>13 DEF Inv

(***************************************************************************)
(* A link removed with its window.                                         *)
(***************************************************************************)
LEMMA LinkRemoved ==
    ASSUME TypeOK, MapSound, NEW w \in Windows, removeWindow(w)
    PROVE  /\ dirs' = dirs
           /\ links' \in [Desktops -> SUBSET Windows]
           /\ m_window_desktop_dir_map' \in [Windows -> Desktops \cup {None}]
           /\ \A d \in Desktops : d >= dirs => links'[d] = {}
           /\ MapSound'
           /\ ~Known(w)'
           /\ \A x \in Windows : x # w =>
                 m_window_desktop_dir_map'[x] = m_window_desktop_dir_map[x]
           /\ \A x \in Windows, d \in Desktops : x \in links'[d] =>
                 x \in links[d] /\ (x = w => d # m_window_desktop_dir_map[w])
<1>1. CASE ~Known(w)
  <2>1. UNCHANGED desktops
    BY <1>1 DEF removeWindow
  <2> QED
    BY <1>1, <2>1, ConstantTypes DEF desktops, TypeOK, MapSound, Known
<1>2. CASE Known(w)
  <2> DEFINE d0 == m_window_desktop_dir_map[w]
  <2>1. /\ links' = [links EXCEPT ![d0] = @ \ {w}]
        /\ m_window_desktop_dir_map' = [m_window_desktop_dir_map EXCEPT ![w] = None]
        /\ dirs' = dirs
    BY <1>2 DEF removeWindow
  <2>2. d0 \in Desktops
    BY <1>2 DEF TypeOK, Known
  <2>3. /\ links \in [Desktops -> SUBSET Windows]
        /\ m_window_desktop_dir_map \in [Windows -> Desktops \cup {None}]
        /\ \A d \in Desktops : d >= dirs => links[d] = {}
    BY DEF TypeOK
  <2>4. /\ links' \in [Desktops -> SUBSET Windows]
        /\ m_window_desktop_dir_map' \in [Windows -> Desktops \cup {None}]
        /\ \A d \in Desktops : d >= dirs => links'[d] = {}
    BY <2>1, <2>2, <2>3
  <2>5. /\ m_window_desktop_dir_map'[w] = None
        /\ \A x \in Windows : x # w =>
              m_window_desktop_dir_map'[x] = m_window_desktop_dir_map[x]
    BY <2>1, <2>3
  <2>6. \A x \in Windows, d \in Desktops :
          /\ x \in links'[d] => x \in links[d] /\ (x = w => d # d0)
          /\ x \in links[d] /\ x # w => x \in links'[d]
    BY <2>1, <2>2, <2>3
  <2>7. ~Known(w)'
    BY <2>5 DEF Known
  <2>8. MapSound'
    <3>1. ASSUME NEW x \in Windows, Known(x)'
          PROVE  m_window_desktop_dir_map'[x] < dirs /\ x \in links'[m_window_desktop_dir_map'[x]]
      <4>1. x # w
        BY <2>7, <3>1 DEF Known
      <4>2. m_window_desktop_dir_map'[x] = m_window_desktop_dir_map[x]
            /\ m_window_desktop_dir_map[x] \in Desktops /\ Known(x)
        BY <2>3, <2>5, <3>1, <4>1 DEF Known
      <4> QED
        BY <2>6, <4>1, <4>2 DEF MapSound
    <3> QED
      BY <2>1, <3>1 DEF MapSound
  <2> QED
    BY <2>1, <2>4, <2>5, <2>6, <2>7, <2>8
<1> QED
  BY <1>1, <1>2

(***************************************************************************)
(* A destroy event: the window and its link go.                            *)
(***************************************************************************)
LEMMA HandleDestroyEventStep ==
    ASSUME Inv, handleDestroyEvent
    PROVE  Inv'
<1>0. TypeOK /\ MapSound /\ "destroy" \in EventTypes
  BY DEF Inv, EventTypes
<1>1. /\ queue' \in Seq(Events)
      /\ \A f : Pending(f, queue) => Pending(f, queue') \/ f = Head(queue)
      /\ Pending(Head(queue), queue)
      /\ \A x : CreatedFirst(x, queue) =>
                   CreatedFirst(x, queue') \/ Head(queue) = WindowEvent("create", x)
      /\ \A x : CreatedFirst(x, queue) => Head(queue) # WindowEvent("destroy", x)
      /\ Head(queue) \in Events /\ Head(queue).type = "destroy"
  BY <1>0, HeadHandled DEF handleDestroyEvent
<1>2. PICK w \in Windows : w = Head(queue).win /\ Head(queue) = WindowEvent("destroy", w)
  BY <1>0, <1>1, HeadWindow
<1>3. /\ ServerSound' /\ started = 3
      /\ UNCHANGED <<x_exist, used, x_desktop, x_names, x_count, changes, started, selected,
                     m_names>>
  BY AnyEvent DEF handleDestroyEvent
<1>4. /\ windows' = windows \ {w}
      /\ IF w \in windows THEN removeWindow(w) ELSE UNCHANGED desktops
  BY <1>2 DEF handleDestroyEvent
<1>5. \A x \in Windows : CreatedFirst(x, queue) => CreatedFirst(x, queue') /\ x # w
  BY <1>1, <1>2, EventsDiffer
<1>6. w \in Settled => w \notin x_exist /\ (w \in windows \/ ~Known(w))
  <2>1. SUFFICES ASSUME w \in Settled
                 PROVE  w \notin x_exist /\ (w \in windows \/ ~Known(w))
    OBVIOUS
  <2>2. w \notin x_exist
    BY <1>1, <1>2, <2>1 DEF Inv, ServerSound
  <2>3. ~CreatedFirst(w, queue)
    BY <1>5
  <2> QED
    BY <1>3, <2>1, <2>2, <2>3 DEF Inv, WindowsListed
<1>7. /\ dirs' = dirs
      /\ links' \in [Desktops -> SUBSET Windows]
      /\ m_window_desktop_dir_map' \in [Windows -> Desktops \cup {None}]
      /\ \A d \in Desktops : d >= dirs => links'[d] = {}
      /\ MapSound'
      /\ \A x \in Windows : x # w =>
            m_window_desktop_dir_map'[x] = m_window_desktop_dir_map[x]
      /\ w \in windows \/ ~Known(w) => ~Known(w)'
      /\ \A x \in Windows, d \in Desktops : x \in links'[d] =>
            x \in links[d] /\ (x = w /\ w \in windows => d # m_window_desktop_dir_map[w])
  <2>1. CASE w \in windows
    BY <1>0, <1>4, <2>1, LinkRemoved
  <2>2. CASE w \notin windows
    <3>1. UNCHANGED desktops
      BY <1>4, <2>2
    <3> QED
      BY <1>0, <2>2, <3>1 DEF desktops, TypeOK, MapSound, Known
  <2> QED
    BY <2>1, <2>2
<1>8. \A type, x : type # "destroy" \/ x # w =>
         (Pending(WindowEvent(type, x), queue) => Pending(WindowEvent(type, x), queue'))
  BY <1>1, <1>2, EventsDiffer
<1>9. Pending(NamesEvent, queue) => Pending(NamesEvent, queue')
  BY <1>1, <1>2, EventsDiffer
<1>10. TypeOK'
  BY <1>0, <1>1, <1>3, <1>4, <1>7 DEF TypeOK
<1>11. NamesFetched'
  BY <1>3, <1>7, <1>9 DEF Inv, NamesFetched
<1>12. WindowsListed'
  <2>1. \A x \in x_exist \ selected' : Pending(WindowEvent("create", x), queue')
    BY <1>3, <1>8 DEF Inv, WindowsListed
  <2>2. ASSUME NEW x \in Settled, x \in x_exist \/ Known(x)'
        PROVE  x \in windows' \/ CreatedFirst(x, queue')
    <3>1. x \in Windows
      BY DEF Settled
    <3>2. x # w
      BY <1>6, <1>7, <2>2
    <3>3. x \in x_exist \/ Known(x)
      BY <1>7, <2>2, <3>1, <3>2 DEF Known
    <3> QED
      BY <1>3, <1>4, <1>5, <3>1, <3>2, <3>3 DEF Inv, WindowsListed
  <2> QED
    BY <1>3, <2>1, <2>2 DEF WindowsListed, Settled
<1>13. LinksSettled'
  <2>1. SUFFICES ASSUME NEW x \in Settled
        PROVE  /\ \A d \in Desktops : x \in links'[d] => m_window_desktop_dir_map'[x] = d
               /\ x \in x_exist /\ Known(x)' => x_desktop[x] = m_window_desktop_dir_map'[x]
               /\ Known(x)' /\ x \notin x_exist => Pending(WindowEvent("destroy", x), queue')
               /\ x \in x_exist /\ x_desktop[x] \in 0 .. dirs - 1 =>
                     \/ Known(x)'
                     \/ Pending(WindowEvent("create", x), queue')
                     \/ Pending(WindowEvent("desktop", x), queue')
    BY <1>3, <1>7 DEF LinksSettled, Settled
  <2>2. x \in Windows /\ started = 3 /\ LinksSettled
    BY <1>3 DEF Settled, Inv
  <2>3. CASE x # w
    <3>1. Known(x)' = Known(x) /\ m_window_desktop_dir_map'[x] = m_window_desktop_dir_map[x]
      BY <1>7, <2>2, <2>3 DEF Known
    <3>2. \A type : Pending(WindowEvent(type, x), queue) => Pending(WindowEvent(type, x), queue')
      BY <1>8, <2>3
    <3> QED
      BY <1>7, <2>2, <3>1, <3>2 DEF LinksSettled
  <2>4. CASE x = w
    <3>1. ~Known(x)' /\ x \notin x_exist
      BY <1>6, <1>7, <2>4
    <3>2. \A d \in Desktops : x \notin links'[d]
      <4>1. SUFFICES ASSUME NEW d \in Desktops, x \in links'[d] PROVE FALSE
        OBVIOUS
      <4>2. m_window_desktop_dir_map[x] = d
        BY <1>7, <2>2, <4>1 DEF LinksSettled
      <4>3. Known(x)
        BY <4>2, ConstantTypes DEF Known
      <4> QED
        BY <1>6, <1>7, <2>4, <4>1, <4>2, <4>3
    <3> QED
      BY <3>1, <3>2
  <2> QED
    BY <2>3, <2>4
<1> QED
  BY <1>3, <1>7, <1>10, <1>11, <1>12, <1>13 DEF Inv

(***************************************************************************)
(* A new desktop value: the link moves.                                    *)
(***************************************************************************)
LEMMA DesktopPropertyStep ==
    ASSUME Inv, desktopProperty
    PROVE  Inv'
<1>0. TypeOK /\ "desktop" \in EventTypes
  BY DEF Inv, EventTypes
<1>1. /\ queue' \in Seq(Events)
      /\ \A f : Pending(f, queue) => Pending(f, queue') \/ f = Head(queue)
      /\ \A x : CreatedFirst(x, queue) =>
                   CreatedFirst(x, queue') \/ Head(queue) = WindowEvent("create", x)
      /\ Head(queue) \in Events /\ Head(queue).type = "desktop"
  BY <1>0, HeadHandled DEF desktopProperty
<1>2. PICK w \in Windows : w = Head(queue).win /\ Head(queue) = WindowEvent("desktop", w)
  BY <1>0, <1>1, HeadWindow
<1>3. /\ ServerSound' /\ started = 3
      /\ UNCHANGED <<x_exist, used, x_desktop, x_names, x_count, changes, started, selected,
                     m_names, windows>>
  BY AnyEvent DEF desktopProperty
<1>4. IF Known(w) THEN UNCHANGED desktops ELSE handleWindowCreated(w)
  BY <1>2 DEF desktopProperty, handleWindowDesktopChanged, firstAssignment
<1>5. /\ dirs' = dirs
      /\ links' \in [Desktops -> SUBSET Windows]
      /\ m_window_desktop_dir_map' \in [Windows -> Desktops \cup {None}]
      /\ \A d \in Desktops : d >= dirs => links'[d] = {}
      /\ MapSound'
      /\ \A x \in Windows : Known(x) \/ x # w =>
            m_window_desktop_dir_map'[x] = m_window_desktop_dir_map[x]
      /\ \A x \in Windows, d \in Desktops : x # w /\ x \in links'[d] => x \in links[d]
      /\ ~Known(w) /\ Known(w)' =>
            w \in x_exist /\ m_window_desktop_dir_map'[w] = x_desktop[w]
      /\ w \in Settled =>
            /\ \A d \in Desktops : w \in links'[d] => m_window_desktop_dir_map'[w] = d
            /\ w \in x_exist /\ x_desktop[w] \in 0 .. dirs - 1 => Known(w)'
  <2>1. CASE Known(w)
    <3>1. UNCHANGED desktops
      BY <1>4, <2>1
    <3> QED
      BY <1>0, <2>1, <3>1 DEF desktops, Inv, TypeOK, MapSound, Known, LinksSettled
  <2>2. CASE ~Known(w)
    BY <1>4, <2>2, LinkAdded
  <2> QED
    BY <2>1, <2>2
<1>6. \A type, x : type # "desktop" \/ x # w =>
         (Pending(WindowEvent(type, x), queue) => Pending(WindowEvent(type, x), queue'))
  BY <1>1, <1>2, EventsDiffer
<1>7. Pending(NamesEvent, queue) => Pending(NamesEvent, queue')
  BY <1>1, <1>2, EventsDiffer
<1>8. \A x : CreatedFirst(x, queue) => CreatedFirst(x, queue')
  BY <1>1, <1>2, EventsDiffer
<1>10. TypeOK'
  BY <1>0, <1>1, <1>3, <1>5 DEF TypeOK
<1>11. NamesFetched'
  BY <1>3, <1>5, <1>7 DEF Inv, NamesFetched
<1>12. WindowsListed'
  <2>1. \A x \in x_exist \ selected : Pending(WindowEvent("create", x), queue')
    BY <1>3, <1>6 DEF Inv, WindowsListed
  <2>2. ASSUME NEW x \in Settled, x \in x_exist \/ Known(x)'
        PROVE  x \in windows \/ CreatedFirst(x, queue')
    <3>1. x \in Windows
      BY DEF Settled
    <3>2. x \in x_exist \/ Known(x)
      BY <1>5, <2>2, <3>1 DEF Known
    <3> QED
      BY <1>3, <1>8, <3>2 DEF Inv, WindowsListed
  <2> QED
    BY <1>3, <2>1, <2>2 DEF WindowsListed, Settled
<1>13. LinksSettled'
  <2>1. SUFFICES ASSUME NEW x \in Settled
        PROVE  /\ \A d \in Desktops : x \in links'[d] => m_window_desktop_dir_map'[x] = d
               /\ x \in x_exist /\ Known(x)' => x_desktop[x] = m_window_desktop_dir_map'[x]
               /\ Known(x)' /\ x \notin x_exist => Pending(WindowEvent("destroy", x), queue')
               /\ x \in x_exist /\ x_desktop[x] \in 0 .. dirs - 1 =>
                     \/ Known(x)'
                     \/ Pending(WindowEvent("create", x), queue')
                     \/ Pending(WindowEvent("desktop", x), queue')
    BY <1>3, <1>5 DEF LinksSettled, Settled
  <2>2. x \in Windows /\ started = 3 /\ LinksSettled
    BY <1>3 DEF Settled, Inv
  <2>3. /\ Pending(WindowEvent("destroy", x), queue) => Pending(WindowEvent("destroy", x), queue')
        /\ Pending(WindowEvent("create", x), queue) => Pending(WindowEvent("create", x), queue')
    BY <1>6
  <2>4. Known(x) => Known(x)' /\ m_window_desktop_dir_map'[x] = m_window_desktop_dir_map[x]
    BY <1>5, <2>2 DEF Known
  <2>5. CASE x # w
    <3>1. Known(x)' = Known(x) /\ m_window_desktop_dir_map'[x] = m_window_desktop_dir_map[x]
      BY <1>5, <2>2, <2>5 DEF Known
    <3>2. Pending(WindowEvent("desktop", x), queue) => Pending(WindowEvent("desktop", x), queue')
      BY <1>6, <2>5
    <3> QED
      BY <1>5, <2>2, <2>3, <2>5, <3>1, <3>2 DEF LinksSettled
  <2>6. CASE x = w
    BY <1>5, <2>2, <2>3, <2>4, <2>6 DEF LinksSettled
  <2> QED
    BY <2>5, <2>6
<1> QED
  BY <1>3, <1>5, <1>10, <1>11, <1>12, <1>13 DEF Inv

(***************************************************************************)
(* A deleted property: nothing is relinked.                                *)
(***************************************************************************)
LEMMA DeletePropertyStep ==
    ASSUME Inv, deleteProperty
    PROVE  Inv'
<1>0. TypeOK /\ "no desktop" \in EventTypes
  BY DEF Inv, EventTypes
<1>1. /\ queue' \in Seq(Events)
      /\ \A f : Pending(f, queue) => Pending(f, queue') \/ f = Head(queue)
      /\ \A x : CreatedFirst(x, queue) =>
                   CreatedFirst(x, queue') \/ Head(queue) = WindowEvent("create", x)
      /\ Head(queue) \in Events /\ Head(queue).type = "no desktop"
  BY <1>0, HeadHandled DEF deleteProperty
<1>2. PICK w \in Windows : Head(queue) = WindowEvent("no desktop", w)
  BY <1>0, <1>1, HeadWindow
<1>3. /\ ServerSound' /\ started = 3
      /\ UNCHANGED <<x_exist, used, x_desktop, x_names, x_count, changes, started, selected,
                     m_names, windows, dirs, links, m_window_desktop_dir_map>>
  BY AnyEvent DEF deleteProperty, desktops
<1>4. \A type, x : type # "no desktop" =>
         (Pending(WindowEvent(type, x), queue) => Pending(WindowEvent(type, x), queue'))
  <2>1. \A type, x : type # "no desktop" => WindowEvent(type, x) # Head(queue)
    BY <1>2, EventsDiffer
  <2> QED
    BY <1>1, <2>1
<1>5. Pending(NamesEvent, queue) => Pending(NamesEvent, queue')
  <2>1. Head(queue) # NamesEvent
    BY <1>2, EventsDiffer
  <2> QED
    BY <1>1, <2>1
<1>6. \A x : CreatedFirst(x, queue) => CreatedFirst(x, queue')
  <2>1. \A x : WindowEvent("create", x) # Head(queue)
    BY <1>2, EventsDiffer
  <2> QED
    BY <1>1, <2>1
<1>7. \A x \in Windows : Known(x)' = Known(x)
  BY <1>3 DEF Known
<1>8. /\ \A x : Pending(WindowEvent("create", x), queue) => Pending(WindowEvent("create", x), queue')
      /\ \A x : Pending(WindowEvent("desktop", x), queue) => Pending(WindowEvent("desktop", x), queue')
      /\ \A x : Pending(WindowEvent("destroy", x), queue) => Pending(WindowEvent("destroy", x), queue')
  BY <1>4
<1>10. TypeOK'
  BY <1>0, <1>1, <1>3 DEF TypeOK
<1>11. MapSound' /\ NamesFetched'
  BY <1>3, <1>5, <1>7 DEF Inv, MapSound, NamesFetched
<1>12. WindowsListed'
  BY <1>3, <1>6, <1>7, <1>8 DEF Inv, WindowsListed, Settled
<1>13. LinksSettled'
  BY <1>3, <1>7, <1>8 DEF Inv, LinksSettled, Settled
<1> QED
  BY <1>3, <1>10, <1>11, <1>12, <1>13 DEF Inv

(***************************************************************************)
(* New desktops: all directories are built anew, with the links.           *)
(***************************************************************************)
LEMMA UpdateDesktopNamesStep ==
    ASSUME Inv, updateDesktopNames
    PROVE  Inv'
<1>0. TypeOK
  BY DEF Inv
<1>1. /\ queue' \in Seq(Events)
      /\ \A f : Pending(f, queue) => Pending(f, queue') \/ f = Head(queue)
      /\ \A x : CreatedFirst(x, queue) =>
                   CreatedFirst(x, queue') \/ Head(queue) = WindowEvent("create", x)
      /\ Head(queue) = NamesEvent
  BY <1>0, HeadHandled, HeadNames DEF updateDesktopNames
<1>2. /\ ServerSound' /\ started = 3
      /\ UNCHANGED <<x_exist, used, x_desktop, x_names, x_count, changes, started, selected,
                     windows>>
  BY AnyEvent DEF updateDesktopNames
<1>3. m_names' = x_names /\ handleDesktopsChanged(x_names) /\ x_names \in 0 .. MaxDesktops
  BY <1>0 DEF updateDesktopNames, TypeOK
<1>4. /\ dirs' = x_names
      /\ links' \in [Desktops -> SUBSET Windows]
      /\ m_window_desktop_dir_map' \in [Windows -> Desktops \cup {None}]
      /\ \A d \in Desktops : d >= x_names => links'[d] = {}
      /\ MapSound'
  BY <1>0, <1>3, Rebuilt
<1>5. LinksSettled' /\ \A w \in Windows : Known(w)' => w \in x_exist
  BY <1>2, <1>3, RebuiltLinks
<1>6. TypeOK'
  BY <1>0, <1>1, <1>2, <1>3, <1>4 DEF TypeOK
<1>7. NamesFetched'
  BY <1>2, <1>3, <1>4 DEF NamesFetched
<1>8. WindowsListed'
  <2>1. \A x : Pending(WindowEvent("create", x), queue) => Pending(WindowEvent("create", x),
       queue')
    BY <1>1, EventsDiffer
  <2>2. \A x : CreatedFirst(x, queue) => CreatedFirst(x, queue')
    BY <1>1, EventsDiffer
  <2> QED
    BY <1>2, <1>5, <2>1, <2>2 DEF Inv, WindowsListed, Settled
<1> QED
  BY <1>2, <1>4, <1>5, <1>6, <1>7, <1>8 DEF Inv

-----------------------------------------------------------------------------
(* The theorems.                                                           *)

(***************************************************************************)
(* Every step keeps the invariant.                                         *)
(***************************************************************************)
LEMMA InvNext == Inv /\ [Next]_vars => Inv'
<1> SUFFICES ASSUME Inv, [Next]_vars PROVE Inv'
  OBVIOUS
<1>1. CASE xServer
  BY <1>1, CreateWindowStep, DestroyWindowStep, AssignDesktopStep, DeleteDesktopStep,
     ChangeCountStep DEF xServer
<1>2. CASE createFS
  BY <1>2, FetchDesktopNamesStep, AddWindowsStep, AddDesktopsStep DEF createFS
<1>3. CASE handleEvent
  BY <1>3, HandleCreateEventStep, HandleDestroyEventStep, DesktopPropertyStep,
     DeletePropertyStep, UpdateDesktopNamesStep DEF handleEvent
<1>4. CASE UNCHANGED vars
  BY <1>4 DEF vars, server, desktops, Inv, TypeOK, MapSound, Known, ServerSound, NamesFetched,
              WindowsListed, LinksSettled
<1> QED
  BY <1>1, <1>2, <1>3, <1>4 DEF Next

(***************************************************************************)
(* The inductive invariant holds in every state.                           *)
(***************************************************************************)
THEOREM InvHolds == Spec => []Inv
<1> QED
  BY InvInit, InvNext, PTL DEF Spec

(***************************************************************************)
(* Every variable has its type for any windows and any number of desktops. *)
(***************************************************************************)
THEOREM TypeCorrect == Spec => []TypeOK
<1>1. Inv => TypeOK
  BY DEF Inv
<1> QED
  BY <1>1, InvHolds, PTL

(***************************************************************************)
(* The pointers in the map of the desktops directory (DesktopsRootDir) are *)
(* never those of directories that were deleted, and lead to the link.     *)
(***************************************************************************)
THEOREM MapCorrect == Spec => []MapSound
<1>1. Inv => MapSound
  BY DEF Inv
<1> QED
  BY <1>1, InvHolds, PTL

(***************************************************************************)
(* When all events are handled the desktop directories are those of the    *)
(* names, with links to the windows that have always been where they are.  *)
(***************************************************************************)
THEOREM DesktopsCorrect == Spec => []DesktopsShown
<1>1. Inv => DesktopsShown
  <2> SUFFICES ASSUME Inv, Quiet PROVE DesktopsShown
    BY DEF DesktopsShown, NamesMirrored, SettledLinksRight, LinksRightFor
  <2>1. started = 3 /\ \A f : ~Pending(f, queue)
    BY DEF Quiet, Pending
  <2>2. NamesMirrored
    BY <2>1 DEF Inv, NamesFetched, NamesMirrored
  <2>3. ASSUME NEW d \in 0 .. dirs - 1, NEW w \in Settled
        PROVE  w \in links[d] <=> w \in x_exist /\ x_desktop[w] = d
    <3>1. d \in Desktops /\ w \in Windows
      BY ConstantTypes DEF Inv, TypeOK, Desktops, Settled
    <3>2. w \in links[d] => m_window_desktop_dir_map[w] = d /\ Known(w)
      BY <3>1, ConstantTypes DEF Inv, LinksSettled, Known
    <3>3. Known(w) => w \in x_exist /\ x_desktop[w] = m_window_desktop_dir_map[w]
                      /\ w \in links[m_window_desktop_dir_map[w]]
      BY <2>1, <3>1 DEF Inv, LinksSettled, MapSound
    <3>4. w \in x_exist /\ x_desktop[w] = d => Known(w)
      BY <2>1 DEF Inv, LinksSettled
    <3> QED
      BY <3>2, <3>3, <3>4
  <2>4. SettledLinksRight
    <3>1. ASSUME NEW d \in 0 .. dirs - 1
          PROVE  links[d] \cap Settled = {w \in Settled \cap x_exist : x_desktop[w] = d}
      BY <2>3
    <3> QED
      BY <3>1 DEF SettledLinksRight, LinksRightFor, Settled
  <2> QED
    BY <2>2, <2>4 DEF DesktopsShown
<1> QED
  BY <1>1, InvHolds, PTL
=============================================================================
