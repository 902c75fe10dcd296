-------------------------- MODULE WindowMirrorProof -------------------------
(***************************************************************************)
(* Theorems about WindowMirror for any windows, names, setups and bounds:  *)
(* once all events are read, the directories are those of the living       *)
(* windows, and their files show them.                                     *)
(***************************************************************************)
EXTENDS WindowMirror, TLAPS, SequenceTheorems

-----------------------------------------------------------------------------
(* The event queue.                                                        *)

Pending(S, q) == \E i \in DOMAIN q : q[i] \in S

(***************************************************************************)
(* Every event of S has one of T behind it.                                *)
(***************************************************************************)
Followed(S, T, q) ==
    \A i \in DOMAIN q : q[i] \in S => \E j \in DOMAIN q : i < j /\ q[j] \in T

(***************************************************************************)
(* The queue q has become r: some copies of e came in, maybe none; at least*)
(* one.                                                                    *)
(***************************************************************************)
Sent(q, r, e) ==
    /\ DOMAIN q \subseteq DOMAIN r /\ DOMAIN r \subseteq Int
    /\ \A i \in DOMAIN q : r[i] = q[i]
    /\ \A i \in DOMAIN r \ DOMAIN q : r[i] = e /\ \A j \in DOMAIN q : j < i

Told(q, r, e) ==
    /\ DOMAIN r \subseteq Int
    /\ \E i \in DOMAIN r : r[i] = e /\ \A j \in DOMAIN r : j = i \/ j < i

(***************************************************************************)
(* What the server appends for one change is copies of one event, at least *)
(* one if xwmfs subscribed to the window or to its parent.                 *)
(***************************************************************************)
LEMMA CopiesSent ==
    ASSUME NEW S, NEW q \in Seq(S), NEW e \in S, NEW w, NEW b \in BOOLEAN
    PROVE  /\ q \o Copies(e, w, b) \in Seq(S)
           /\ Sent(q, q \o Copies(e, w, b), e)
           /\ w \in x_selected \/ (x_root /\ b) => Told(q, q \o Copies(e, w, b), e)
           /\ ~(w \in x_selected \/ (x_root /\ b)) => q \o Copies(e, w, b) = q
<1> DEFINE c == Copies(e, w, b)
<1>1. c \in {<<>>, <<e>>, <<e>> \o <<e>>}
  <2>1. <<>> \o <<>> = <<>> /\ <<e>> \o <<>> = <<e>>
    OBVIOUS
  <2>2. <<>> \o <<e>> = <<e>>
    OBVIOUS
  <2>4. CASE w \in x_selected /\ (x_root /\ b)
    BY <2>4 DEF Copies
  <2>5. CASE w \in x_selected /\ ~(x_root /\ b)
    BY <2>1, <2>5 DEF Copies
  <2>6. CASE w \notin x_selected /\ (x_root /\ b)
    BY <2>2, <2>6 DEF Copies
  <2>7. CASE w \notin x_selected /\ ~(x_root /\ b)
    BY <2>1, <2>7 DEF Copies
  <2> QED
    BY <2>4, <2>5, <2>6, <2>7
<1>n. <<e>> # <<>> /\ <<e>> \o <<e>> # <<>>
  OBVIOUS
<1>2. w \in x_selected \/ (x_root /\ b) => c # <<>>
  BY DEF Copies
<1>3. ~(w \in x_selected \/ (x_root /\ b)) => c = <<>>
  <2>1. <<>> \o <<>> = <<>>
    OBVIOUS
  <2> QED
    BY <2>1 DEF Copies
<1>d. c \in Seq(S) /\ \A i \in 1 .. Len(c) : c[i] = e
  <2>1. CASE c = <<>>
    BY <2>1
  <2>2. CASE c = <<e>>
    BY <2>2
  <2>3. CASE c = <<e>> \o <<e>>
    <3>1. <<e>> \in Seq(S) /\ Len(<<e>>) = 1
      OBVIOUS
    <3>2. c \in Seq(S) /\ Len(c) = 2 /\ c[1] = e /\ c[2] = e
      BY <2>3, <3>1
    <3> QED
      BY <3>2
  <2> QED
    BY <1>1, <2>1, <2>2, <2>3
<1> HIDE DEF c
<1> DEFINE r == q \o c
<1>4. /\ r \in Seq(S) /\ Len(r) = Len(q) + Len(c)
      /\ \A i \in 1 .. Len(r) : r[i] = IF i <= Len(q) THEN q[i] ELSE c[i - Len(q)]
  BY <1>d, ConcatProperties
<1>5. /\ DOMAIN q = 1 .. Len(q) /\ DOMAIN r = 1 .. Len(r)
      /\ Len(q) \in Nat /\ Len(c) \in Nat
      /\ c # <<>> => Len(c) > 0
  <2>1. c # <<>> => Len(c) > 0
    BY <1>d
  <2>2. DOMAIN r = 1 .. Len(r)
    BY <1>4
  <2> QED
    BY <1>d, <2>1, <2>2
<1> HIDE DEF r
<1>6. Sent(q, r, e)
  <2>1. DOMAIN q \subseteq DOMAIN r /\ DOMAIN r \subseteq Int
    BY <1>4, <1>5
  <2>2. \A i \in DOMAIN q : r[i] = q[i]
    BY <1>4, <1>5
  <2>3. ASSUME NEW i \in DOMAIN r \ DOMAIN q
        PROVE  r[i] = e /\ \A j \in DOMAIN q : j < i
    <3>0. i \in 1 .. Len(q) + Len(c) /\ i \notin 1 .. Len(q)
      BY <1>4, <1>5
    <3>1. i > Len(q) /\ i - Len(q) \in 1 .. Len(c)
      BY <3>0, <1>5
    <3>2. i \in 1 .. Len(r) /\ ~(i <= Len(q))
      BY <1>4, <1>5, <3>1
    <3>3. r[i] = c[i - Len(q)]
      BY <1>4, <3>2
    <3>4. \A j \in DOMAIN q : j < i
      BY <1>5, <3>1
    <3> QED
      BY <1>d, <3>1, <3>3, <3>4
  <2> QED
    BY <2>1, <2>2, <2>3 DEF Sent
<1>7. ASSUME c # <<>> PROVE Told(q, r, e)
  <2>1. Len(r) \in DOMAIN r /\ Len(r) - Len(q) \in 1 .. Len(c) /\ Len(r) > Len(q)
    BY <1>4, <1>5, <1>7
  <2>2. r[Len(r)] = e
    BY <1>d, <1>4, <1>5, <2>1
  <2> QED
    BY <1>5, <2>1, <2>2 DEF Told
<1>8. c = <<>> => r = q
  BY <1>d DEF r
<1> QED
  BY <1>2, <1>3, <1>4, <1>6, <1>7, <1>8 DEF c, r

(***************************************************************************)
(* An event that comes in leaves what is pending, and adds nothing but     *)
(* itself.                                                                 *)
(***************************************************************************)
LEMMA SentPending ==
    ASSUME NEW q, NEW r, NEW e, NEW S, Sent(q, r, e)
    PROVE  /\ Pending(S, q) => Pending(S, r)
           /\ Pending(S, r) => Pending(S, q) \/ e \in S
BY DEF Sent, Pending

(***************************************************************************)
(* An event that was told is pending.                                      *)
(***************************************************************************)
LEMMA ToldPending ==
    ASSUME NEW q, NEW r, NEW e, NEW S, Told(q, r, e), e \in S
    PROVE  Pending(S, r)
BY DEF Told, Pending

(***************************************************************************)
(* Only an event of S can break that S is followed by T, only one of T can *)
(* bring it about.                                                         *)
(***************************************************************************)
LEMMA SentFollowed ==
    ASSUME NEW q, NEW r, NEW e, NEW S, NEW T, Sent(q, r, e)
    PROVE  /\ e \notin S /\ Followed(S, T, q) => Followed(S, T, r)
           /\ e \notin T /\ Followed(S, T, r) => Followed(S, T, q)
<1>1. ASSUME e \notin S, Followed(S, T, q) PROVE Followed(S, T, r)
  <2> SUFFICES ASSUME NEW i \in DOMAIN r, r[i] \in S
               PROVE  \E j \in DOMAIN r : i < j /\ r[j] \in T
    BY DEF Followed
  <2>1. i \in DOMAIN q /\ q[i] \in S
    BY <1>1 DEF Sent
  <2>2. PICK j \in DOMAIN q : i < j /\ q[j] \in T
    BY <1>1, <2>1 DEF Followed
  <2> QED
    BY <2>2 DEF Sent
<1>2. ASSUME e \notin T, Followed(S, T, r) PROVE Followed(S, T, q)
  <2> SUFFICES ASSUME NEW i \in DOMAIN q, q[i] \in S
               PROVE  \E j \in DOMAIN q : i < j /\ q[j] \in T
    BY DEF Followed
  <2>1. i \in DOMAIN r /\ r[i] \in S
    BY DEF Sent
  <2>2. PICK j \in DOMAIN r : i < j /\ r[j] \in T
    BY <1>2, <2>1 DEF Followed
  <2> QED
    BY <1>2, <2>2 DEF Sent
<1> QED
  BY <1>1, <1>2

(***************************************************************************)
(* The event told is the last: it follows all others, and nothing follows  *)
(* it.                                                                     *)
(***************************************************************************)
LEMMA ToldFollowed ==
    ASSUME NEW q, NEW r, NEW e, NEW S, NEW T, Told(q, r, e)
    PROVE  /\ e \notin S /\ e \in T => Followed(S, T, r)
           /\ e \in S => ~Followed(S, T, r)
<1>1. PICK i \in DOMAIN r : r[i] = e /\ \A j \in DOMAIN r : j = i \/ j < i
  BY DEF Told
<1>2. i \in Int /\ \A j \in DOMAIN r : j \in Int
  BY DEF Told
<1>3. ASSUME e \notin S, e \in T PROVE Followed(S, T, r)
  BY <1>1, <1>2, <1>3 DEF Followed
<1>4. ASSUME e \in S, Followed(S, T, r) PROVE FALSE
  <2>1. PICK j \in DOMAIN r : i < j
    BY <1>1, <1>4 DEF Followed
  <2> QED
    BY <1>1, <1>2, <2>1
<1> QED
  BY <1>3, <1>4

(***************************************************************************)
(* The elements of the rest of the queue.                                  *)
(***************************************************************************)
LEMMA TailElements ==
    ASSUME NEW X, NEW q \in Seq(X), q # <<>>
    PROVE  /\ Tail(q) \in Seq(X) /\ Head(q) \in X
           /\ DOMAIN q \subseteq Nat /\ DOMAIN Tail(q) \subseteq Nat
           /\ 1 \in DOMAIN q /\ q[1] = Head(q)
           /\ \A i \in DOMAIN Tail(q) : /\ i >= 1 /\ i + 1 \in DOMAIN q
                                        /\ Tail(q)[i] = q[i + 1]
           /\ \A i \in DOMAIN q : i = 1 \/ (i > 1 /\ i - 1 \in DOMAIN Tail(q)
                                            /\ Tail(q)[i - 1] = q[i])
OBVIOUS

(***************************************************************************)
(* What is pending is next or pending behind it.                           *)
(***************************************************************************)
LEMMA TailPending ==
    ASSUME NEW X, NEW q \in Seq(X), q # <<>>, NEW S
    PROVE  Pending(S, q) <=> Head(q) \in S \/ Pending(S, Tail(q))
<1> DEFINE r == Tail(q)
<1>e. /\ 1 \in DOMAIN q /\ q[1] = Head(q)
      /\ \A i \in DOMAIN r : i + 1 \in DOMAIN q /\ r[i] = q[i + 1]
      /\ \A i \in DOMAIN q : i = 1 \/ (i - 1 \in DOMAIN r /\ r[i - 1] = q[i])
  BY TailElements
<1> HIDE DEF r
<1> SUFFICES Pending(S, q) <=> Head(q) \in S \/ Pending(S, r)
  BY DEF r
<1>1. ASSUME Pending(S, q) PROVE Head(q) \in S \/ Pending(S, r)
  BY <1>1, <1>e DEF Pending
<1>2. ASSUME Pending(S, r) PROVE Pending(S, q)
  <2>1. PICK i \in DOMAIN r : r[i] \in S
    BY <1>2 DEF Pending
  <2> QED
    BY <2>1, <1>e DEF Pending
<1>3. ASSUME Head(q) \in S PROVE Pending(S, q)
  BY <1>3, <1>e DEF Pending
<1> QED
  BY <1>1, <1>2, <1>3

(***************************************************************************)
(* S is followed by T in the queue when it is behind the first event, and  *)
(* the first event has T behind it if it is one of S.                      *)
(***************************************************************************)
LEMMA TailFollowed ==
    ASSUME NEW X, NEW q \in Seq(X), q # <<>>, NEW S, NEW T
    PROVE  Followed(S, T, q) <=> /\ Followed(S, T, Tail(q))
                                 /\ Head(q) \in S => Pending(T, Tail(q))
<1> DEFINE r == Tail(q)
<1>e. /\ DOMAIN q \subseteq Nat /\ DOMAIN r \subseteq Nat
      /\ 1 \in DOMAIN q /\ q[1] = Head(q)
      /\ \A i \in DOMAIN r : i >= 1 /\ i + 1 \in DOMAIN q /\ r[i] = q[i + 1]
      /\ \A i \in DOMAIN q : i = 1 \/ (i > 1 /\ i - 1 \in DOMAIN r /\ r[i - 1] = q[i])
  BY TailElements
<1> HIDE DEF r
<1> SUFFICES Followed(S, T, q) <=> Followed(S, T, r) /\ (Head(q) \in S => Pending(T, r))
  BY DEF r
<1>1. ASSUME Followed(S, T, q) PROVE Followed(S, T, r)
  <2> SUFFICES ASSUME NEW i \in DOMAIN r, r[i] \in S
               PROVE  \E j \in DOMAIN r : i < j /\ r[j] \in T
    BY DEF Followed
  <2>1. PICK j \in DOMAIN q : i + 1 < j /\ q[j] \in T
    BY <1>1, <1>e DEF Followed
  <2>2. j - 1 \in DOMAIN r /\ r[j - 1] \in T /\ i < j - 1
    BY <2>1, <1>e
  <2> QED
    BY <2>2
<1>2. ASSUME Followed(S, T, q), Head(q) \in S PROVE Pending(T, r)
  <2>1. PICK j \in DOMAIN q : 1 < j /\ q[j] \in T
    BY <1>2, <1>e DEF Followed
  <2>2. j - 1 \in DOMAIN r /\ r[j - 1] \in T
    BY <2>1, <1>e
  <2> QED
    BY <2>2 DEF Pending
<1>3. ASSUME Followed(S, T, r), Head(q) \in S => Pending(T, r) PROVE Followed(S, T, q)
  <2> SUFFICES ASSUME NEW i \in DOMAIN q, q[i] \in S
               PROVE  \E j \in DOMAIN q : i < j /\ q[j] \in T
    BY DEF Followed
  <2>1. CASE i = 1
    <3>1. PICK j \in DOMAIN r : r[j] \in T
      BY <1>3, <1>e, <2>1 DEF Pending
    <3>2. j + 1 \in DOMAIN q /\ q[j + 1] \in T /\ i < j + 1
      BY <3>1, <1>e, <2>1
    <3> QED
      BY <3>2
  <2>2. CASE i # 1
    <3>1. i - 1 \in DOMAIN r /\ r[i - 1] \in S
      BY <1>e, <2>2
    <3>2. PICK j \in DOMAIN r : i - 1 < j /\ r[j] \in T
      BY <1>3, <3>1 DEF Followed
    <3>3. j + 1 \in DOMAIN q /\ q[j + 1] \in T /\ i < j + 1
      BY <3>2, <1>e
    <3> QED
      BY <3>3
  <2> QED
    BY <2>1, <2>2
<1> QED
  BY <1>1, <1>2, <1>3

(***************************************************************************)
(* An event of S with one of T behind it has one of U behind it, too.      *)
(***************************************************************************)
Separated(S, T, U, q) ==
    \A i, j \in DOMAIN q :
        i < j /\ q[i] \in S /\ q[j] \in T => \E k \in DOMAIN q : i < k /\ q[k] \in U

(***************************************************************************)
(* An event that comes in keeps the separation unless it is one of T, and  *)
(* brings it about when S was followed by U.                               *)
(***************************************************************************)
LEMMA SentSeparated ==
    ASSUME NEW q, NEW r, NEW e, NEW S, NEW T, NEW U, Sent(q, r, e)
    PROVE  /\ e \notin T /\ Separated(S, T, U, q) => Separated(S, T, U, r)
           /\ e \notin S /\ Followed(S, U, q) => Separated(S, T, U, r)
<1>1. ASSUME e \notin T, Separated(S, T, U, q) PROVE Separated(S, T, U, r)
  <2> SUFFICES ASSUME NEW i \in DOMAIN r, NEW j \in DOMAIN r, i < j, r[i] \in S, r[j] \in T
               PROVE  \E k \in DOMAIN r : i < k /\ r[k] \in U
    BY DEF Separated
  <2>1. j \in DOMAIN q /\ q[j] \in T /\ i \in Int /\ j \in Int
    BY <1>1 DEF Sent
  <2>2. i \in DOMAIN q /\ q[i] \in S
    BY <2>1 DEF Sent
  <2>3. PICK k \in DOMAIN q : i < k /\ q[k] \in U
    BY <1>1, <2>1, <2>2 DEF Separated
  <2> QED
    BY <2>3 DEF Sent
<1>2. ASSUME e \notin S, Followed(S, U, q) PROVE Separated(S, T, U, r)
  <2> SUFFICES ASSUME NEW i \in DOMAIN r, r[i] \in S
               PROVE  \E k \in DOMAIN r : i < k /\ r[k] \in U
    BY DEF Separated
  <2>1. i \in DOMAIN q /\ q[i] \in S
    BY <1>2 DEF Sent
  <2>2. PICK k \in DOMAIN q : i < k /\ q[k] \in U
    BY <1>2, <2>1 DEF Followed
  <2> QED
    BY <2>2 DEF Sent
<1> QED
  BY <1>1, <1>2

(***************************************************************************)
(* The separation holds behind the first event; with T behind a first      *)
(* event of S there is U behind it, too.                                   *)
(***************************************************************************)
LEMMA TailSeparated ==
    ASSUME NEW X, NEW q \in Seq(X), q # <<>>, NEW S, NEW T, NEW U, Separated(S, T, U, q)
    PROVE  /\ Separated(S, T, U, Tail(q))
           /\ Head(q) \in S /\ Pending(T, Tail(q)) => Pending(U, Tail(q))
<1> DEFINE r == Tail(q)
<1>e. /\ DOMAIN q \subseteq Nat /\ DOMAIN r \subseteq Nat
      /\ 1 \in DOMAIN q /\ q[1] = Head(q)
      /\ \A i \in DOMAIN r : i >= 1 /\ i + 1 \in DOMAIN q /\ r[i] = q[i + 1]
      /\ \A i \in DOMAIN q : i = 1 \/ (i > 1 /\ i - 1 \in DOMAIN r /\ r[i - 1] = q[i])
  BY TailElements
<1> HIDE DEF r
<1> SUFFICES Separated(S, T, U, r) /\ (Head(q) \in S /\ Pending(T, r) => Pending(U, r))
  BY DEF r
<1>1. Separated(S, T, U, r)
  <2> SUFFICES ASSUME NEW i \in DOMAIN r, NEW j \in DOMAIN r, i < j, r[i] \in S, r[j] \in T
               PROVE  \E k \in DOMAIN r : i < k /\ r[k] \in U
    BY DEF Separated
  <2>1. i + 1 \in DOMAIN q /\ j + 1 \in DOMAIN q /\ i + 1 < j + 1
        /\ q[i + 1] \in S /\ q[j + 1] \in T
    BY <1>e
  <2>2. PICK k \in DOMAIN q : i + 1 < k /\ q[k] \in U
    BY <2>1 DEF Separated
  <2>3. k - 1 \in DOMAIN r /\ r[k - 1] \in U /\ i < k - 1
    BY <2>2, <1>e
  <2> QED
    BY <2>3
<1>2. ASSUME Head(q) \in S, Pending(T, r) PROVE Pending(U, r)
  <2>1. PICK j \in DOMAIN r : r[j] \in T
    BY <1>2 DEF Pending
  <2>2. j + 1 \in DOMAIN q /\ q[j + 1] \in T /\ 1 < j + 1 /\ q[1] \in S /\ 1 \in DOMAIN q
    BY <1>2, <2>1, <1>e
  <2>3. PICK k \in DOMAIN q : 1 < k /\ q[k] \in U
    BY <2>2 DEF Separated
  <2>4. k - 1 \in DOMAIN r /\ r[k - 1] \in U
    BY <2>3, <1>e
  <2> QED
    BY <2>4 DEF Pending
<1> QED
  BY <1>1, <1>2

(***************************************************************************)
(* In an empty queue nothing is pending.                                   *)
(***************************************************************************)
LEMMA EmptyQueue ==
    ASSUME NEW S, NEW T, NEW U
    PROVE  ~Pending(S, <<>>) /\ Followed(S, T, <<>>) /\ Separated(S, T, U, <<>>)
<1>1. DOMAIN <<>> = {}
  OBVIOUS
<1> QED
  BY <1>1 DEF Pending, Followed, Separated

(***************************************************************************)
(* What is not pending needs nothing behind it.                            *)
(***************************************************************************)
LEMMA NothingPending ==
    ASSUME NEW S, NEW T, NEW q, ~Pending(S, q)
    PROVE  Followed(S, T, q)
BY DEF Pending, Followed

(***************************************************************************)
(* Less of S is followed by more than T.                                   *)
(***************************************************************************)
LEMMA FewerFollowed ==
    ASSUME NEW S, NEW T, NEW q, Followed(S, T, q), NEW Q, Q \subseteq S, NEW R, T \subseteq R
    PROVE  Followed(Q, R, q)
BY DEF Followed

(***************************************************************************)
(* More than S is pending if S is.                                         *)
(***************************************************************************)
LEMMA FewerPending ==
    ASSUME NEW S, NEW q, Pending(S, q), NEW R, S \subseteq R
    PROVE  Pending(R, q)
BY DEF Pending
-----------------------------------------------------------------------------
(* Types.                                                                  *)

USE DEF server, mirror, thread

(***************************************************************************)
(* The state of a window and the files of a directory have their types.    *)
(***************************************************************************)
LEMMA StateTypes ==
    ASSUME TypeOK, NEW w \in Windows
    PROVE  /\ Exists(w) => x_win[w] \in WindowState
           /\ HasDir(w) => dir[w] \in FileState
           /\ WindowState = [name : Names \cup {None}, mapped : BOOLEAN, parent : Parents,
                             override : BOOLEAN]
           /\ FileState = [name : Names \cup {"absent", "empty"}, mapped : BOOLEAN,
                           parent : Parents]
BY DEF TypeOK, Exists, HasDir, WindowState, FileState

(***************************************************************************)
(* The fields of an event have their types.                                *)
(***************************************************************************)
LEMMA EventFields ==
    ASSUME NEW e \in EventType
    PROVE  /\ e.type \in {"create", "destroy", "property", "map", "unmap", "to_root", "to_frame"}
           /\ e.win \in Windows
           /\ e.override \in BOOLEAN
BY DEF EventType

(***************************************************************************)
(* The events of a living window are events.                               *)
(***************************************************************************)
LEMMA EventTyped ==
    ASSUME TypeOK, NEW w \in Windows,
           NEW t \in {"destroy", "property", "map", "unmap", "to_root", "to_frame"}
    PROVE  Event(t, w) \in EventType /\ Event(t, w).type = t /\ Event(t, w).win = w
<1>1. (IF Exists(w) THEN x_win[w].override ELSE FALSE) \in BOOLEAN
  BY StateTypes DEF WindowState
<1> QED
  BY <1>1 DEF Event, EventType

(***************************************************************************)
(* So are create events.                                                   *)
(***************************************************************************)
LEMMA CreateTyped ==
    ASSUME NEW w \in Windows, NEW override \in BOOLEAN
    PROVE  [type |-> "create", win |-> w, override |-> override] \in EventType
BY DEF EventType

(***************************************************************************)
(* A change of window w, of which the queue may have been told with e.     *)
(***************************************************************************)
Changed(w, e) ==
    /\ e \in EventType /\ e.win = w
    /\ queue' \in Seq(EventType)
    /\ Sent(queue, queue', e)
    /\ \A v \in Windows \ {w} : x_win'[v] = x_win[v] /\ (v \in x_selected' <=> v \in x_selected)
    /\ UNCHANGED <<setup, x_root, thread, mirror>>
    /\ changes' \in Nat

(***************************************************************************)
(* The common part of the server's actions: the queue is told of the       *)
(* change if xwmfs subscribed to the window or to its parent.              *)
(***************************************************************************)
LEMMA ServerChanged ==
    ASSUME TypeOK, NEW w \in Windows, NEW b \in BOOLEAN, NEW e \in EventType, e.win = w,
           ServerChange(Copies(e, w, b)),
           \A v \in Windows \ {w} : x_win'[v] = x_win[v] /\ (v \in x_selected' <=> v \in x_selected)
    PROVE  /\ Changed(w, e)
           /\ w \in x_selected \/ (x_root /\ b) => Told(queue, queue', e)
           /\ ~(w \in x_selected \/ (x_root /\ b)) => queue' = queue
<1>1. queue \in Seq(EventType) /\ changes \in Nat
  BY DEF TypeOK
<1>2. queue' = queue \o Copies(e, w, b) /\ changes' = changes + 1
      /\ UNCHANGED <<setup, x_root, thread, mirror>>
  BY DEF ServerChange
<1> QED
  BY <1>1, <1>2, CopiesSent DEF Changed

(***************************************************************************)
(* createWindow: a new window, unmapped and without a name, below the      *)
(* root.                                                                   *)
(***************************************************************************)
LEMMA CreateWindowStep ==
    ASSUME TypeOK, NEW w \in Windows, NEW override \in BOOLEAN, createWindow(w, override)
    PROVE  LET e == [type |-> "create", win |-> w, override |-> override]
           IN  /\ Changed(w, e)
               /\ x_root \/ w \in x_selected => Told(queue, queue', e)
               /\ ~(x_root \/ w \in x_selected) => queue' = queue
               /\ ~Exists(w) /\ Exists(w)'
               /\ setup.recycling \/ w \notin used
               /\ x_win'[w].name = None /\ x_win'[w].mapped = FALSE
               /\ x_win'[w].parent = "root" /\ x_win'[w].override = override
               /\ x_win' \in [Windows -> WindowState \cup {None}]
               /\ used' = used \cup {w} /\ UNCHANGED x_selected
<1> DEFINE e == [type |-> "create", win |-> w, override |-> override]
<1> DEFINE s == [name |-> None, mapped |-> FALSE, parent |-> "root", override |-> override]
<1>1. e \in EventType /\ e.win = w
  BY CreateTyped
<1>2. s \in WindowState /\ s # None
  <2>1. s \in WindowState
    BY DEF WindowState, Parents
  <2> QED
    BY <2>1, StateAssumption
<1>3. /\ x_win' = [x_win EXCEPT ![w] = s] /\ UNCHANGED x_selected /\ used' = used \cup {w}
      /\ ServerChange(Copies(e, w, TRUE))
      /\ ~Exists(w) /\ (setup.recycling \/ w \notin used)
  BY DEF createWindow
<1>f. s.name = None /\ s.mapped = FALSE /\ s.parent = "root" /\ s.override = override
  OBVIOUS
<1>4. x_win \in [Windows -> WindowState \cup {None}]
  BY DEF TypeOK
<1> HIDE DEF e, s
<1>5. /\ x_win' \in [Windows -> WindowState \cup {None}] /\ x_win'[w] = s
      /\ \A v \in Windows \ {w} : x_win'[v] = x_win[v] /\ (v \in x_selected' <=> v \in x_selected)
  BY <1>2, <1>3, <1>4
<1>6. /\ Changed(w, e)
      /\ w \in x_selected \/ (x_root /\ TRUE) => Told(queue, queue', e)
      /\ ~(w \in x_selected \/ (x_root /\ TRUE)) => queue' = queue
  BY <1>1, <1>3, <1>5, ServerChanged
<1> QED
  BY <1>2, <1>f, <1>3, <1>5, <1>6 DEF e, Exists

(***************************************************************************)
(* destroyWindow: the window and the subscription to it are gone.          *)
(***************************************************************************)
LEMMA DestroyWindowStep ==
    ASSUME TypeOK, NEW w \in Windows, destroyWindow(w)
    PROVE  /\ Changed(w, Event("destroy", w))
           /\ (x_root /\ IsRootChild(w)) \/ w \in x_selected
                 => Told(queue, queue', Event("destroy", w))
           /\ ~x_root /\ w \notin x_selected => queue' = queue
           /\ Exists(w) /\ ~Exists(w)'
           /\ x_win' \in [Windows -> WindowState \cup {None}]
           /\ x_selected' = x_selected \ {w} /\ UNCHANGED used
<1>1. Event("destroy", w) \in EventType /\ Event("destroy", w).win = w
  BY EventTyped
<1>2. /\ x_win' = [x_win EXCEPT ![w] = None] /\ x_selected' = x_selected \ {w} /\ UNCHANGED used
      /\ ServerChange(Copies(Event("destroy", w), w, IsRootChild(w))) /\ Exists(w)
  BY DEF destroyWindow
<1>3. x_win \in [Windows -> WindowState \cup {None}]
  BY DEF TypeOK
<1>4. /\ x_win' \in [Windows -> WindowState \cup {None}] /\ x_win'[w] = None
      /\ \A v \in Windows \ {w} : x_win'[v] = x_win[v] /\ (v \in x_selected' <=> v \in x_selected)
  BY <1>2, <1>3
<1>5. IsRootChild(w) \in BOOLEAN
  BY DEF IsRootChild
<1> QED
  BY <1>1, <1>2, <1>4, <1>5, ServerChanged DEF Exists

(***************************************************************************)
(* A window is given another state.                                        *)
(***************************************************************************)
LEMMA OtherState ==
    ASSUME TypeOK, NEW w \in Windows, NEW s \in WindowState, x_win' = [x_win EXCEPT ![w] = s],
           UNCHANGED x_selected
    PROVE  /\ x_win' \in [Windows -> WindowState \cup {None}] /\ x_win'[w] = s /\ Exists(w)'
           /\ \A v \in Windows \ {w} : x_win'[v] = x_win[v]
                                       /\ (v \in x_selected' <=> v \in x_selected)
BY StateAssumption DEF TypeOK, Exists

(***************************************************************************)
(* changeName: only those who subscribed to the window are told.           *)
(***************************************************************************)
LEMMA ChangeNameStep ==
    ASSUME TypeOK, NEW w \in Windows, NEW name \in Names \cup {None}, changeName(w, name)
    PROVE  /\ Changed(w, Event("property", w))
           /\ w \in x_selected => Told(queue, queue', Event("property", w))
           /\ ~x_root /\ w \notin x_selected => queue' = queue
           /\ Exists(w) /\ Exists(w)'
           /\ x_win'[w].name = name /\ x_win'[w].mapped = x_win[w].mapped
           /\ x_win'[w].parent = x_win[w].parent /\ x_win'[w].override = x_win[w].override
           /\ x_win' \in [Windows -> WindowState \cup {None}]
           /\ UNCHANGED <<x_selected, used>>
<1>1. Event("property", w) \in EventType /\ Event("property", w).win = w
  BY EventTyped
<1>2. /\ x_win' = [x_win EXCEPT ![w].name = name] /\ UNCHANGED <<x_selected, used>>
      /\ ServerChange(Copies(Event("property", w), w, FALSE)) /\ Exists(w)
  BY DEF changeName
<1> DEFINE s == [x_win[w] EXCEPT !.name = name]
<1>3. s \in WindowState
  BY <1>2, StateTypes
<1>f. /\ s.name = name /\ s.mapped = x_win[w].mapped
      /\ s.parent = x_win[w].parent /\ s.override = x_win[w].override
  BY <1>2, StateTypes
<1>4. x_win' = [x_win EXCEPT ![w] = s]
  BY <1>2 DEF TypeOK
<1> HIDE DEF s
<1>5. /\ x_win' \in [Windows -> WindowState \cup {None}] /\ x_win'[w] = s /\ Exists(w)'
      /\ \A v \in Windows \ {w} : x_win'[v] = x_win[v] /\ (v \in x_selected' <=> v \in x_selected)
  BY <1>2, <1>3, <1>4, OtherState
<1>6. /\ Changed(w, Event("property", w))
      /\ w \in x_selected \/ (x_root /\ FALSE) => Told(queue, queue', Event("property", w))
      /\ ~(w \in x_selected \/ (x_root /\ FALSE)) => queue' = queue
  BY <1>1, <1>2, <1>5, ServerChanged
<1> QED
  BY <1>f, <1>2, <1>5, <1>6

MapEvent(w, mapped) == Event(IF mapped THEN "map" ELSE "unmap", w)

(***************************************************************************)
(* mapWindow: those who subscribed to the root are told when the window is *)
(* below it.                                                               *)
(***************************************************************************)
LEMMA MapWindowStep ==
    ASSUME TypeOK, NEW w \in Windows, NEW mapped \in BOOLEAN, mapWindow(w, mapped)
    PROVE  /\ Changed(w, MapEvent(w, mapped))
           /\ MapEvent(w, mapped).type = IF mapped THEN "map" ELSE "unmap"
           /\ (x_root /\ IsRootChild(w)) \/ w \in x_selected
                 => Told(queue, queue', MapEvent(w, mapped))
           /\ ~x_root /\ w \notin x_selected => queue' = queue
           /\ Exists(w) /\ Exists(w)'
           /\ x_win'[w].name = x_win[w].name /\ x_win'[w].mapped = mapped
           /\ x_win'[w].parent = x_win[w].parent /\ x_win'[w].override = x_win[w].override
           /\ x_win' \in [Windows -> WindowState \cup {None}]
           /\ UNCHANGED <<x_selected, used>>
<1>1. /\ MapEvent(w, mapped) \in EventType /\ MapEvent(w, mapped).win = w
      /\ MapEvent(w, mapped).type = IF mapped THEN "map" ELSE "unmap"
  BY EventTyped DEF MapEvent
<1>2. /\ x_win' = [x_win EXCEPT ![w].mapped = mapped] /\ UNCHANGED <<x_selected, used>>
      /\ ServerChange(Copies(MapEvent(w, mapped), w, IsRootChild(w))) /\ Exists(w)
  BY DEF mapWindow, MapEvent
<1> DEFINE s == [x_win[w] EXCEPT !.mapped = mapped]
<1>3. s \in WindowState
  BY <1>2, StateTypes
<1>f. /\ s.name = x_win[w].name /\ s.mapped = mapped
      /\ s.parent = x_win[w].parent /\ s.override = x_win[w].override
  BY <1>2, StateTypes
<1>4. x_win' = [x_win EXCEPT ![w] = s]
  BY <1>2 DEF TypeOK
<1> HIDE DEF s
<1>5. /\ x_win' \in [Windows -> WindowState \cup {None}] /\ x_win'[w] = s /\ Exists(w)'
      /\ \A v \in Windows \ {w} : x_win'[v] = x_win[v] /\ (v \in x_selected' <=> v \in x_selected)
  BY <1>2, <1>3, <1>4, OtherState
<1>6. IsRootChild(w) \in BOOLEAN
  BY DEF IsRootChild
<1>7. /\ Changed(w, MapEvent(w, mapped))
      /\ w \in x_selected \/ (x_root /\ IsRootChild(w)) => Told(queue, queue', MapEvent(w, mapped))
      /\ ~(w \in x_selected \/ (x_root /\ IsRootChild(w))) => queue' = queue
  BY <1>1, <1>2, <1>5, <1>6, ServerChanged
<1> QED
  BY <1>f, <1>1, <1>2, <1>5, <1>7

ParentEvent(w, parent) == Event(IF parent = "root" THEN "to_root" ELSE "to_frame", w)

(***************************************************************************)
(* reparentWindow: those who subscribed to the root are told in any case.  *)
(***************************************************************************)
LEMMA ReparentWindowStep ==
    ASSUME TypeOK, NEW w \in Windows, NEW parent \in Parents, reparentWindow(w, parent)
    PROVE  /\ Changed(w, ParentEvent(w, parent))
           /\ ParentEvent(w, parent).type = IF parent = "root" THEN "to_root" ELSE "to_frame"
           /\ x_root => Told(queue, queue', ParentEvent(w, parent))
           /\ ~x_root /\ w \notin x_selected => queue' = queue
           /\ setup.reparenting /\ Exists(w) /\ Exists(w)'
           /\ x_win'[w].name = x_win[w].name /\ x_win'[w].mapped = x_win[w].mapped
           /\ x_win'[w].parent = parent /\ x_win'[w].override = x_win[w].override
           /\ x_win' \in [Windows -> WindowState \cup {None}]
           /\ UNCHANGED <<x_selected, used>>
<1>1. /\ ParentEvent(w, parent) \in EventType /\ ParentEvent(w, parent).win = w
      /\ ParentEvent(w, parent).type = IF parent = "root" THEN "to_root" ELSE "to_frame"
  BY EventTyped DEF ParentEvent
<1>2. /\ x_win' = [x_win EXCEPT ![w].parent = parent] /\ UNCHANGED <<x_selected, used>>
      /\ ServerChange(Copies(ParentEvent(w, parent), w, TRUE)) /\ Exists(w) /\ setup.reparenting
  BY DEF reparentWindow, ParentEvent
<1> DEFINE s == [x_win[w] EXCEPT !.parent = parent]
<1>3. s \in WindowState
  BY <1>2, StateTypes
<1>f. /\ s.name = x_win[w].name /\ s.mapped = x_win[w].mapped
      /\ s.parent = parent /\ s.override = x_win[w].override
  BY <1>2, StateTypes
<1>4. x_win' = [x_win EXCEPT ![w] = s]
  BY <1>2 DEF TypeOK
<1> HIDE DEF s
<1>5. /\ x_win' \in [Windows -> WindowState \cup {None}] /\ x_win'[w] = s /\ Exists(w)'
      /\ \A v \in Windows \ {w} : x_win'[v] = x_win[v] /\ (v \in x_selected' <=> v \in x_selected)
  BY <1>2, <1>3, <1>4, OtherState
<1>6. /\ Changed(w, ParentEvent(w, parent))
      /\ w \in x_selected \/ (x_root /\ TRUE) => Told(queue, queue', ParentEvent(w, parent))
      /\ ~(w \in x_selected \/ (x_root /\ TRUE)) => queue' = queue
  BY <1>1, <1>2, <1>5, ServerChanged
<1> QED
  BY <1>f, <1>1, <1>2, <1>5, <1>6

-----------------------------------------------------------------------------
(* What every step of the threads does.                                    *)

StartInv ==
    /\ x_root <=> started >= 1
    /\ ~x_root => queue = <<>> /\ x_selected = {}
    /\ started < 2 => to_add = {} /\ adding = None /\ Dirs = {}
    /\ adding = None => add_step = 0
    /\ to_add # {} /\ adding # None => adding \in to_add
    /\ x_selected \subseteq Exist
    /\ to_add \cap Dirs = {}
    /\ setup.handle_pseudo => m_ignored_windows = {}

(***************************************************************************)
(* The event thread takes the first event when nothing else is to be done, *)
(* and leaves the server alone.                                            *)
(***************************************************************************)
LEMMA HandledEvent ==
    ASSUME TypeOK, NEW types, NextEventIs(types)
    PROVE  /\ queue # <<>> /\ Head(queue) \in EventType /\ Head(queue).type \in types
           /\ Head(queue).win \in Windows
           /\ queue' = Tail(queue) /\ queue' \in Seq(EventType)
           /\ started = 2 /\ to_add = {} /\ adding = None
           /\ UNCHANGED <<setup, x_win, x_selected, x_root, used, changes, started, to_add,
                          add_step>>
BY TailElements, EventFields DEF TypeOK, NextEventIs

(***************************************************************************)
(* The values that are written to the file `name` are values of it.        *)
(***************************************************************************)
LEMMA NameTypes ==
    ASSUME TypeOK, NEW w \in Windows
    PROVE  /\ InitialName(w) \in Names \cup {"absent", "empty"}
           /\ HasDir(w) => UpdatedName(w) \in Names \cup {"absent", "empty"}
<1>1. InitialName(w) \in Names \cup {"absent", "empty"}
  BY StateTypes DEF InitialName, Fetched
<1>2. UpdatedName(w) \in Names \cup {"absent", "empty"}
  BY <1>1, StateTypes DEF UpdatedName, Fetched
<1> QED
  BY <1>1, <1>2

(***************************************************************************)
(* updateName: the file `name` of the directory of w, and what was         *)
(* announced.                                                              *)
(***************************************************************************)
LEMMA UpdateNameStep ==
    ASSUME TypeOK, NEW w \in Windows, HasDir(w), updateName(w)
    PROVE  /\ dir' \in [Windows -> FileState \cup {None}]
           /\ announced' \in [Windows -> Names \cup {"absent", "empty"}]
           /\ HasDir(w)'
           /\ dir'[w].name = UpdatedName(w)
           /\ dir'[w].mapped = dir[w].mapped
           /\ dir'[w].parent = dir[w].parent
           /\ announced'[w] = IF dir[w].name = "absent" THEN announced[w] ELSE UpdatedName(w)
           /\ \A v \in Windows \ {w} : dir'[v] = dir[v] /\ announced'[v] = announced[v]
<1> DEFINE s == [dir[w] EXCEPT !.name = UpdatedName(w)]
<1>1. s \in FileState /\ s # None
  BY StateTypes, NameTypes, StateAssumption
<1>f. s.name = UpdatedName(w) /\ s.mapped = dir[w].mapped /\ s.parent = dir[w].parent
  BY StateTypes
<1>2. dir' = [dir EXCEPT ![w] = s]
  BY DEF updateName, TypeOK
<1> HIDE DEF s
<1>3. /\ dir' \in [Windows -> FileState \cup {None}] /\ dir'[w] = s /\ HasDir(w)'
      /\ \A v \in Windows \ {w} : dir'[v] = dir[v]
  BY <1>1, <1>2 DEF TypeOK, HasDir
<1>4. /\ announced' \in [Windows -> Names \cup {"absent", "empty"}]
      /\ announced'[w] = IF dir[w].name = "absent" THEN announced[w] ELSE UpdatedName(w)
      /\ \A v \in Windows \ {w} : announced'[v] = announced[v]
  BY NameTypes DEF updateName, TypeOK
<1> QED
  BY <1>f, <1>3, <1>4

(***************************************************************************)
(* The directory of w may have been made or changed, no other.             *)
(***************************************************************************)
DirOnly(w) ==
    /\ dir' \in [Windows -> FileState \cup {None}]
    /\ announced' \in [Windows -> Names \cup {"absent", "empty"}]
    /\ \A v \in Windows \ {w} : dir'[v] = dir[v] /\ announced'[v] = announced[v]

(***************************************************************************)
(* createDirectory: a new directory, or a refresh of the one there is.     *)
(***************************************************************************)
LEMMA CreateDirectoryStep ==
    ASSUME TypeOK, NEW w \in Windows, NEW initial \in BOOLEAN, createDirectory(w, initial)
    PROVE  /\ DirOnly(w)
           /\ HasDir(w)'
           /\ HasDir(w) => updateName(w)
           /\ ~HasDir(w) => /\ dir'[w].name = InitialName(w)
                            /\ dir'[w].mapped = InitialMapped(w, initial)
                            /\ dir'[w].parent = InitialParent(w)
                            /\ announced'[w] = InitialName(w)
<1>1. CASE HasDir(w)
  BY <1>1, UpdateNameStep DEF createDirectory, DirOnly
<1>2. CASE ~HasDir(w)
  <2> DEFINE s == [name |-> InitialName(w), mapped |-> InitialMapped(w, initial),
                   parent |-> InitialParent(w)]
  <2>1. InitialMapped(w, initial) \in BOOLEAN
    BY DEF InitialMapped
  <2>2. InitialParent(w) \in Parents
    BY StateTypes DEF InitialParent, Parents
  <2>3. s \in FileState /\ s # None
    BY <2>1, <2>2, NameTypes, StateAssumption DEF FileState
  <2>4. dir' = [dir EXCEPT ![w] = s] /\ announced' = [announced EXCEPT ![w] = InitialName(w)]
    BY <1>2 DEF createDirectory
  <2> HIDE DEF s
  <2>5. /\ dir' \in [Windows -> FileState \cup {None}] /\ dir'[w] = s /\ HasDir(w)'
        /\ \A v \in Windows \ {w} : dir'[v] = dir[v]
    BY <2>3, <2>4 DEF TypeOK, HasDir
  <2>6. /\ announced' \in [Windows -> Names \cup {"absent", "empty"}]
        /\ announced'[w] = InitialName(w)
        /\ \A v \in Windows \ {w} : announced'[v] = announced[v]
    BY <2>4, NameTypes DEF TypeOK
  <2>7. /\ s.name = InitialName(w) /\ s.mapped = InitialMapped(w, initial)
        /\ s.parent = InitialParent(w)
    BY DEF s
  <2> QED
    BY <1>2, <2>5, <2>6, <2>7 DEF DirOnly
<1> QED
  BY <1>1, <1>2

(***************************************************************************)
(* addWindow: the subscription comes first.                                *)
(***************************************************************************)
LEMMA AddWindowStep ==
    ASSUME TypeOK, addWindow
    PROVE  /\ adding \in Windows
           /\ UNCHANGED <<setup, x_win, x_root, used, queue, changes, started, m_ignored_windows>>
           /\ \/ /\ add_step = 0 /\ add_step' = 1 /\ UNCHANGED <<dir, announced, adding, to_add>>
                 /\ x_selected' = IF Exists(adding) THEN x_selected \cup {adding} ELSE x_selected
              \/ /\ add_step = 1 /\ add_step' = 0 /\ UNCHANGED x_selected
                 /\ adding' = None /\ to_add' = to_add \ {adding}
                 /\ createDirectory(adding, to_add # {})
<1>1. /\ adding \in Windows /\ add_step \in 0 .. 1
      /\ add_step' = 1 - add_step
      /\ adding' = IF add_step = 1 THEN None ELSE adding
      /\ to_add' = IF add_step = 1 THEN to_add \ {adding} ELSE to_add
      /\ UNCHANGED <<setup, x_win, x_root, used, queue, changes, started, m_ignored_windows>>
  BY DEF addWindow, TypeOK
<1>2. /\ add_step = 0 => AddOrder[add_step + 1] = "select"
      /\ add_step = 1 => AddOrder[add_step + 1] = "create"
  BY DEF AddOrder
<1>3. CASE add_step = 0
  <2>1. selectEvents(adding) /\ UNCHANGED <<dir, announced>>
    BY <1>2, <1>3 DEF addWindow
  <2> QED
    BY <1>1, <1>3, <2>1 DEF selectEvents
<1>4. CASE add_step = 1
  <2>1. createDirectory(adding, to_add # {}) /\ UNCHANGED x_selected
    BY <1>2, <1>4 DEF addWindow
  <2> QED
    BY <1>1, <1>4, <2>1
<1> QED
  BY <1>1, <1>3, <1>4

(***************************************************************************)
(* startUp: the subscription to the root comes before the query.           *)
(***************************************************************************)
LEMMA StartUpStep ==
    ASSUME TypeOK, startUp
    PROVE  /\ UNCHANGED <<setup, x_win, x_selected, used, queue, changes, adding, add_step,
                          mirror>>
           /\ \/ started = 0 /\ started' = 1 /\ x_root' = TRUE /\ UNCHANGED to_add
              \/ started = 1 /\ started' = 2 /\ to_add' = WindowList /\ UNCHANGED x_root
<1>1. /\ started \in {0, 1} /\ started' = started + 1
      /\ IF StartOrder[started + 1] = "select"
         THEN x_root' = TRUE /\ UNCHANGED to_add
         ELSE to_add' = WindowList /\ UNCHANGED x_root
      /\ UNCHANGED <<setup, x_win, x_selected, used, queue, changes, adding, add_step, mirror>>
  BY DEF startUp, TypeOK
<1>2. CASE started = 0
  BY <1>1, <1>2 DEF StartOrder
<1>3. CASE started = 1
  <2>1. StartOrder[started + 1] # "select"
    BY <1>3 DEF StartOrder
  <2> QED
    BY <1>1, <1>3, <2>1
<1> QED
  BY <1>1, <1>2, <1>3

(***************************************************************************)
(* A destroy event removes the directory.                                  *)
(***************************************************************************)
LEMMA DestroyEventStep ==
    ASSUME TypeOK, handleDestroyEvent, NEW w, w = Head(queue).win
    PROVE  /\ NextEventIs({"destroy"}) /\ UNCHANGED adding
           /\ DirOnly(w) /\ ~HasDir(w)'
           /\ m_ignored_windows' \subseteq m_ignored_windows
<1>1. w \in Windows /\ NextEventIs({"destroy"}) /\ UNCHANGED adding
  BY HandledEvent DEF handleDestroyEvent
<1>2. CASE HasDir(w)
  <2>1. /\ dir' = [dir EXCEPT ![w] = None] /\ announced' = [announced EXCEPT ![w] = "absent"]
        /\ m_ignored_windows' = m_ignored_windows \ {w}
    BY <1>2 DEF handleDestroyEvent
  <2>2. DirOnly(w) /\ ~HasDir(w)'
    BY <1>1, <2>1 DEF TypeOK, DirOnly, HasDir
  <2> QED
    BY <1>1, <2>1, <2>2
<1>3. CASE ~HasDir(w)
  <2>1. UNCHANGED mirror
    BY <1>3 DEF handleDestroyEvent
  <2> QED
    BY <1>1, <1>3, <2>1 DEF TypeOK, DirOnly, HasDir
<1> QED
  BY <1>2, <1>3

(***************************************************************************)
(* A property event refreshes the name in the directory.                   *)
(***************************************************************************)
LEMMA PropertyEventStep ==
    ASSUME TypeOK, updateProperty, NEW w, w = Head(queue).win
    PROVE  /\ NextEventIs({"property"}) /\ UNCHANGED <<adding, m_ignored_windows>>
           /\ DirOnly(w)
           /\ HasDir(w) => updateName(w)
           /\ ~HasDir(w) => UNCHANGED <<dir, announced>>
           /\ (HasDir(w)' <=> HasDir(w))
<1>1. w \in Windows /\ NextEventIs({"property"}) /\ UNCHANGED <<adding, m_ignored_windows>>
  BY HandledEvent DEF updateProperty
<1>2. CASE HasDir(w)
  <2>1. updateName(w)
    BY <1>2 DEF updateProperty
  <2>2. DirOnly(w) /\ HasDir(w)'
    BY <1>1, <1>2, <2>1, UpdateNameStep DEF DirOnly
  <2> QED
    BY <1>1, <1>2, <2>1, <2>2
<1>3. CASE ~HasDir(w)
  <2>1. UNCHANGED <<dir, announced>>
    BY <1>3 DEF updateProperty
  <2> QED
    BY <1>1, <1>3, <2>1 DEF TypeOK, DirOnly, HasDir
<1> QED
  BY <1>2, <1>3

(***************************************************************************)
(* A file of the directory of w gets another value.                        *)
(***************************************************************************)
LEMMA OtherFile ==
    ASSUME TypeOK, NEW w \in Windows, NEW s \in FileState, dir' = [dir EXCEPT ![w] = s],
           UNCHANGED announced
    PROVE  DirOnly(w) /\ HasDir(w)' /\ dir'[w] = s
BY StateAssumption DEF TypeOK, DirOnly, HasDir

(***************************************************************************)
(* A map event says whether the window is mapped.                          *)
(***************************************************************************)
LEMMA MappedEventStep ==
    ASSUME TypeOK, updateMappedState, NEW w, w = Head(queue).win
    PROVE  /\ NextEventIs({"map", "unmap"}) /\ UNCHANGED <<adding, announced, m_ignored_windows>>
           /\ DirOnly(w)
           /\ HasDir(w) /\ ~isIgnored(w) =>
                 /\ dir'[w].name = dir[w].name
                 /\ dir'[w].mapped = (Head(queue).type = "map")
                 /\ dir'[w].parent = dir[w].parent
           /\ ~(HasDir(w) /\ ~isIgnored(w)) => UNCHANGED dir
           /\ (HasDir(w)' <=> HasDir(w))
<1> DEFINE m == (Head(queue).type = "map")
<1>1. /\ w \in Windows /\ NextEventIs({"map", "unmap"})
      /\ UNCHANGED <<adding, announced, m_ignored_windows>>
  BY HandledEvent DEF updateMappedState
<1>2. CASE HasDir(w) /\ ~isIgnored(w)
  <2>1. dir' = [dir EXCEPT ![w].mapped = m]
    BY <1>2 DEF updateMappedState
  <2>m. m \in BOOLEAN
    OBVIOUS
  <2> HIDE DEF m
  <2> DEFINE s == [dir[w] EXCEPT !.mapped = m]
  <2>f. /\ s.name = dir[w].name /\ s.mapped = m /\ s.parent = dir[w].parent
    BY <1>1, <1>2, StateTypes
  <2>2. s \in FileState
    BY <1>1, <1>2, <2>m, StateTypes
  <2>3. dir' = [dir EXCEPT ![w] = s]
    BY <1>1, <2>1 DEF TypeOK
  <2> HIDE DEF s
  <2>4. DirOnly(w) /\ HasDir(w)' /\ dir'[w] = s
    BY <1>1, <2>2, <2>3, OtherFile
  <2> QED
    BY <1>1, <1>2, <2>4, <2>f DEF m
<1>3. CASE ~(HasDir(w) /\ ~isIgnored(w))
  <2>1. UNCHANGED dir
    BY <1>3 DEF updateMappedState
  <2> QED
    BY <1>1, <1>3, <2>1 DEF TypeOK, DirOnly, HasDir
<1> QED
  BY <1>2, <1>3

EventParent == IF Head(queue).type = "to_root" THEN "root" ELSE "frame"

(***************************************************************************)
(* A reparent event names the parent.                                      *)
(***************************************************************************)
LEMMA ParentEventStep ==
    ASSUME TypeOK, updateParent, NEW w, w = Head(queue).win
    PROVE  /\ NextEventIs({"to_root", "to_frame"})
           /\ UNCHANGED <<adding, announced, m_ignored_windows>>
           /\ DirOnly(w)
           /\ HasDir(w) =>
                 /\ dir'[w].name = dir[w].name
                 /\ dir'[w].mapped = dir[w].mapped
                 /\ dir'[w].parent = EventParent
           /\ ~HasDir(w) => UNCHANGED dir
           /\ (HasDir(w)' <=> HasDir(w))
<1>1. /\ w \in Windows /\ NextEventIs({"to_root", "to_frame"})
      /\ UNCHANGED <<adding, announced, m_ignored_windows>>
  BY HandledEvent DEF updateParent
<1>2. CASE HasDir(w)
  <2>1. dir' = [dir EXCEPT ![w].parent = EventParent]
    BY <1>2 DEF updateParent, EventParent
  <2>m. EventParent \in Parents
    BY DEF EventParent, Parents
  <2> DEFINE s == [dir[w] EXCEPT !.parent = EventParent]
  <2>f. /\ s.name = dir[w].name /\ s.mapped = dir[w].mapped /\ s.parent = EventParent
    BY <1>1, <1>2, StateTypes
  <2>2. s \in FileState
    BY <1>1, <1>2, <2>m, StateTypes
  <2>3. dir' = [dir EXCEPT ![w] = s]
    BY <1>1, <2>1 DEF TypeOK
  <2> HIDE DEF s
  <2>4. DirOnly(w) /\ HasDir(w)' /\ dir'[w] = s
    BY <1>1, <2>2, <2>3, OtherFile
  <2> QED
    BY <1>1, <1>2, <2>4, <2>f
<1>3. CASE ~HasDir(w)
  <2>1. UNCHANGED dir
    BY <1>3 DEF updateParent
  <2> QED
    BY <1>1, <1>3, <2>1 DEF TypeOK, DirOnly, HasDir
<1> QED
  BY <1>2, <1>3

-----------------------------------------------------------------------------
(* The steps keep the types, and the start-up comes first.                 *)

TypeInv == TypeOK /\ StartInv

(***************************************************************************)
(* The types are right initially.                                          *)
(***************************************************************************)
LEMMA TypeInit ==
    ASSUME Init
    PROVE  TypeInv
<1>1. dir \in [Windows -> FileState \cup {None}]
      /\ announced \in [Windows -> Names \cup {"absent", "empty"}]
  BY DEF Init
<1>2. queue \in Seq(EventType) /\ Dirs = {}
  BY DEF Init, Dirs, HasDir
<1>3. TypeOK
  <2>1. /\ setup \in Setups /\ x_win \in [Windows -> WindowState \cup {None}]
        /\ x_selected \subseteq Windows /\ x_root \in BOOLEAN
        /\ to_add = {} /\ adding = None /\ m_ignored_windows = {}
    BY DEF Init
  <2>2. used \subseteq Windows
    BY DEF Init, Exist
  <2>3. changes \in Nat /\ started \in 0 .. 2 /\ add_step \in 0 .. 1
    BY DEF Init
  <2> QED
    BY <1>1, <1>2, <2>1, <2>2, <2>3 DEF TypeOK
<1>4. StartInv
  BY <1>2 DEF Init, StartInv
<1> QED
  BY <1>3, <1>4 DEF TypeInv

(***************************************************************************)
(* A change of a window keeps the types.                                   *)
(***************************************************************************)
LEMMA ServerTypes ==
    ASSUME TypeInv, NEW w \in Windows, NEW e, Changed(w, e),
           x_win' \in [Windows -> WindowState \cup {None}],
           x_selected' = x_selected \/ (x_selected' = x_selected \ {w}),
           Exists(w)' \/ x_selected' = x_selected \ {w},
           used' = used \cup {w} \/ used' = used,
           ~x_root => queue' = queue
    PROVE  TypeInv'
<1>1. TypeOK'
  BY DEF TypeInv, TypeOK, Changed
<1>2. x_selected' \subseteq Exist'
  BY DEF TypeInv, TypeOK, StartInv, Changed, Exist, Exists
<1>3. Dirs' = Dirs
  BY DEF Changed, Dirs, HasDir
<1>4. StartInv'
  BY <1>2, <1>3 DEF TypeInv, StartInv, Changed
<1> QED
  BY <1>1, <1>4 DEF TypeInv

(***************************************************************************)
(* An event that is handled keeps the types.                               *)
(***************************************************************************)
LEMMA EventTypes ==
    ASSUME TypeInv, NEW types, NextEventIs(types), NEW w \in Windows, DirOnly(w),
           m_ignored_windows' \subseteq m_ignored_windows
             \/ (m_ignored_windows' = m_ignored_windows \cup {w} /\ ~setup.handle_pseudo),
           adding' \in {None, w}
    PROVE  TypeInv'
<1>1. /\ queue # <<>> /\ queue' \in Seq(EventType)
      /\ started = 2 /\ to_add = {} /\ adding = None
      /\ UNCHANGED <<setup, x_win, x_selected, x_root, used, changes, started, to_add, add_step>>
  BY HandledEvent DEF TypeInv
<1>2. TypeOK'
  BY <1>1 DEF TypeInv, TypeOK, DirOnly
<1>3. Exist' = Exist
  BY <1>1 DEF Exist, Exists
<1>4. StartInv'
  BY <1>1, <1>3 DEF TypeInv, StartInv
<1> QED
  BY <1>2, <1>4 DEF TypeInv

(***************************************************************************)
(* Every step keeps the types.                                             *)
(***************************************************************************)
LEMMA TypeNext ==
    ASSUME TypeInv, [Next]_vars
    PROVE  TypeInv'
<1> TypeOK /\ StartInv
  BY DEF TypeInv
<1>1. ASSUME NEW w \in Windows, NEW override \in BOOLEAN, createWindow(w, override)
      PROVE  TypeInv'
  <2> DEFINE e == [type |-> "create", win |-> w, override |-> override]
  <2>1. /\ Changed(w, e) /\ Exists(w)' /\ used' = used \cup {w} /\ UNCHANGED x_selected
        /\ x_win' \in [Windows -> WindowState \cup {None}]
        /\ ~(x_root \/ w \in x_selected) => queue' = queue
    BY <1>1, CreateWindowStep
  <2> HIDE DEF e
  <2>2. ~x_root => queue' = queue
    BY <2>1 DEF StartInv
  <2> QED
    BY <2>1, <2>2, ServerTypes
<1>2. ASSUME NEW w \in Windows, destroyWindow(w) PROVE TypeInv'
  BY <1>2, DestroyWindowStep, ServerTypes DEF StartInv
<1>3. ASSUME NEW w \in Windows, NEW name \in Names \cup {None}, changeName(w, name)
      PROVE  TypeInv'
  BY <1>3, ChangeNameStep, ServerTypes DEF StartInv
<1>4. ASSUME NEW w \in Windows, NEW mapped \in BOOLEAN, mapWindow(w, mapped) PROVE TypeInv'
  BY <1>4, MapWindowStep, ServerTypes DEF StartInv
<1>5. ASSUME NEW w \in Windows, NEW parent \in Parents, reparentWindow(w, parent)
      PROVE  TypeInv'
  BY <1>5, ReparentWindowStep, ServerTypes DEF StartInv
<1>6. CASE startUp
  <2>1. WindowList \subseteq Windows
    BY DEF WindowList, Exist
  <2>2. UNCHANGED <<setup, x_win, x_selected, used, queue, changes, adding, add_step, mirror>>
    BY <1>6, StartUpStep
  <2>3. Exist' = Exist /\ Dirs' = Dirs
    BY <2>2 DEF Exist, Exists, Dirs, HasDir
  <2>4. CASE started = 0 /\ started' = 1 /\ x_root' = TRUE /\ UNCHANGED to_add
    BY <2>2, <2>3, <2>4 DEF TypeInv, TypeOK, StartInv
  <2>5. CASE started = 1 /\ started' = 2 /\ to_add' = WindowList /\ UNCHANGED x_root
    BY <2>1, <2>2, <2>3, <2>5 DEF TypeInv, TypeOK, StartInv
  <2> QED
    BY <1>6, <2>4, <2>5, StartUpStep
<1>7. CASE addListedWindow
  <2>1. Exist' = Exist /\ Dirs' = Dirs
    BY <1>7 DEF addListedWindow, Exist, Exists, Dirs, HasDir
  <2> QED
    BY <1>7, <2>1, WindowMirrorAssumption DEF addListedWindow, TypeInv, TypeOK, StartInv
<1>8. CASE addWindow
  <2>1. /\ adding \in Windows /\ adding # None
        /\ UNCHANGED <<setup, x_win, x_root, used, queue, changes, started, m_ignored_windows>>
    BY <1>8, AddWindowStep, WindowMirrorAssumption
  <2>2. Exist' = Exist /\ (adding \in Exist <=> Exists(adding))
    BY <2>1 DEF Exist, Exists
  <2>3. CASE /\ add_step = 0 /\ add_step' = 1 /\ UNCHANGED <<dir, announced, adding, to_add>>
             /\ x_selected' = IF Exists(adding) THEN x_selected \cup {adding} ELSE x_selected
    <3>1. Dirs' = Dirs
      BY <2>3 DEF Dirs, HasDir
    <3>2. x_selected' \subseteq Windows /\ x_selected' \subseteq Exist'
      BY <2>1, <2>2, <2>3 DEF TypeOK, StartInv
    <3>3. TypeOK'
      BY <2>1, <2>3, <3>2 DEF TypeOK
    <3>4. ~x_root => x_selected' = {}
      BY <2>1 DEF TypeOK, StartInv
    <3> QED
      BY <2>1, <2>3, <3>1, <3>2, <3>3, <3>4 DEF TypeInv, StartInv
  <2>4. CASE /\ add_step = 1 /\ add_step' = 0 /\ UNCHANGED x_selected
             /\ adding' = None /\ to_add' = to_add \ {adding}
             /\ createDirectory(adding, to_add # {})
    <3>1. DirOnly(adding)
      BY <2>1, <2>4, CreateDirectoryStep
    <3>2. Dirs' \subseteq Dirs \cup {adding}
      BY <3>1 DEF DirOnly, Dirs, HasDir
    <3>3. TypeOK'
      BY <2>1, <2>4, <3>1 DEF TypeOK, DirOnly
    <3>4. started >= 2
      BY <2>1 DEF TypeOK, StartInv
    <3> QED
      BY <2>1, <2>2, <2>4, <3>2, <3>3, <3>4 DEF TypeInv, StartInv
  <2> QED
    BY <1>8, <2>3, <2>4, AddWindowStep
<1>9. CASE handleCreateEvent
  <2> DEFINE w == Head(queue).win
  <2>1. w \in Windows /\ NextEventIs({"create"}) /\ UNCHANGED <<dir, announced>>
        /\ adding = None
    BY <1>9, HandledEvent DEF handleCreateEvent
  <2>2. \/ m_ignored_windows' = m_ignored_windows \cup {w} /\ ~setup.handle_pseudo
           /\ UNCHANGED adding
        \/ adding' = w /\ UNCHANGED m_ignored_windows
    BY <1>9 DEF handleCreateEvent, isPseudoWindow
  <2> HIDE DEF w
  <2>3. DirOnly(w)
    BY <2>1 DEF TypeOK, DirOnly
  <2> QED
    BY <2>1, <2>2, <2>3, EventTypes
<1>10. CASE handleDestroyEvent
  <2> DEFINE w == Head(queue).win
  <2>1. w \in Windows /\ adding = None
    BY <1>10, HandledEvent DEF handleDestroyEvent
  <2> QED
    BY <1>10, <2>1, DestroyEventStep, EventTypes
<1>11. CASE updateProperty
  <2> DEFINE w == Head(queue).win
  <2>1. w \in Windows /\ adding = None
    BY <1>11, HandledEvent DEF updateProperty
  <2> QED
    BY <1>11, <2>1, PropertyEventStep, EventTypes
<1>12. CASE updateMappedState
  <2> DEFINE w == Head(queue).win
  <2>1. w \in Windows /\ adding = None
    BY <1>12, HandledEvent DEF updateMappedState
  <2> QED
    BY <1>12, <2>1, MappedEventStep, EventTypes
<1>13. CASE updateParent
  <2> DEFINE w == Head(queue).win
  <2>1. w \in Windows /\ adding = None
    BY <1>13, HandledEvent DEF updateParent
  <2> QED
    BY <1>13, <2>1, ParentEventStep, EventTypes
<1>14. CASE UNCHANGED vars
  BY <1>14 DEF vars, TypeInv, TypeOK, StartInv, Exist, Exists, Dirs, HasDir
<1> QED
  BY <1>1, <1>2, <1>3, <1>4, <1>5, <1>6, <1>7, <1>8, <1>9, <1>10, <1>11, <1>12, <1>13, <1>14
     DEF Next, xServer, handleEvent

(***************************************************************************)
(* The types are right.                                                    *)
(***************************************************************************)
THEOREM TypeCorrect == Spec => []TypeOK
<1>1. Init => TypeInv
  BY TypeInit
<1>2. TypeInv /\ [Next]_vars => TypeInv'
  BY TypeNext
<1>3. TypeInv => TypeOK
  BY DEF TypeInv
<1> QED
  BY <1>1, <1>2, <1>3, PTL DEF Spec

-----------------------------------------------------------------------------
(* What a window has to do with a step.                                    *)

About(w) == {e \in EventType : e.win = w}

Events(types, w) == {e \in About(w) : e.type \in types}

Creates(w)    == Events({"create"}, w)
Destroys(w)   == Events({"destroy"}, w)
Properties(w) == Events({"property"}, w)
Mappings(w)   == Events({"map", "unmap"}, w)
Parentings(w) == Events({"to_root", "to_frame"}, w)

Maps(w, mapped)    == Events({IF mapped THEN "map" ELSE "unmap"}, w)
Reparents(w, parent) == Events({IF parent = "root" THEN "to_root" ELSE "to_frame"}, w)

\* Create events that lead to a directory.
Heeded(w) == {e \in Creates(w) : setup.handle_pseudo \/ ~e.override}

(***************************************************************************)
(* The kinds of events of a window are events of the window.               *)
(***************************************************************************)
LEMMA EventSets ==
    ASSUME NEW w
    PROVE  /\ Creates(w) \subseteq About(w) /\ Destroys(w) \subseteq About(w)
           /\ Properties(w) \subseteq About(w) /\ Mappings(w) \subseteq About(w)
           /\ Parentings(w) \subseteq About(w)
           /\ Heeded(w) \subseteq Creates(w)
           /\ \A mapped : Maps(w, mapped) \subseteq Mappings(w)
           /\ \A parent : Reparents(w, parent) \subseteq Parentings(w)
BY DEF Creates, Destroys, Properties, Mappings, Parentings, Maps, Reparents, Heeded, Events

(***************************************************************************)
(* An event of a window is of the kind its type says.                      *)
(***************************************************************************)
LEMMA EventKinds ==
    ASSUME NEW w, NEW e \in EventType, e.win = w
    PROVE  /\ e \in About(w)
           /\ e \in Creates(w) <=> e.type = "create"
           /\ e \in Destroys(w) <=> e.type = "destroy"
           /\ e \in Properties(w) <=> e.type = "property"
           /\ e \in Mappings(w) <=> e.type \in {"map", "unmap"}
           /\ e \in Parentings(w) <=> e.type \in {"to_root", "to_frame"}
BY DEF About, Creates, Destroys, Properties, Mappings, Parentings, Events

(***************************************************************************)
(* Nothing of w changes.                                                   *)
(***************************************************************************)
SameQueue(w) ==
    \A S, T, U \in SUBSET About(w) :
        /\ (Pending(S, queue') <=> Pending(S, queue))
        /\ (Followed(S, T, queue') <=> Followed(S, T, queue))
        /\ (Separated(S, T, U, queue) => Separated(S, T, U, queue'))

SameWindow(w) ==
    /\ x_win'[w] = x_win[w]
    /\ (w \in x_selected' <=> w \in x_selected)
    /\ (w \in used' <=> w \in used)

SameMirror(w) ==
    /\ dir'[w] = dir[w] /\ announced'[w] = announced[w]
    /\ (w \in to_add' <=> w \in to_add)
    /\ (adding' = w <=> adding = w)
    /\ adding = w => UNCHANGED add_step

Still(w) ==
    /\ UNCHANGED <<setup, x_root, started>>
    /\ SameQueue(w) /\ SameWindow(w) /\ SameMirror(w)

(***************************************************************************)
(* A change of another window leaves w alone.                              *)
(***************************************************************************)
LEMMA OtherSent ==
    ASSUME NEW w \in Windows, NEW v \in Windows, v # w, NEW e, Changed(v, e),
           used' = used \cup {v} \/ used' = used
    PROVE  Still(w)
<1>1. e \notin About(w)
  BY DEF Changed, About
<1>2. SameQueue(w)
  <2> SUFFICES ASSUME NEW S \in SUBSET About(w), NEW T \in SUBSET About(w),
                      NEW U \in SUBSET About(w)
               PROVE  /\ (Pending(S, queue') <=> Pending(S, queue))
                      /\ (Followed(S, T, queue') <=> Followed(S, T, queue))
                      /\ (Separated(S, T, U, queue) => Separated(S, T, U, queue'))
    BY DEF SameQueue
  <2>1. e \notin S /\ e \notin T /\ Sent(queue, queue', e)
    BY <1>1 DEF Changed
  <2> QED
    BY <2>1, SentPending, SentFollowed, SentSeparated
<1> QED
  BY <1>2 DEF Changed, Still, SameWindow, SameMirror

(***************************************************************************)
(* What is pending, and followed, before and after an event was taken.     *)
(***************************************************************************)
LEMMA EventTaken ==
    ASSUME TypeOK, NEW types, NextEventIs(types), NEW S, NEW T
    PROVE  /\ (Pending(S, queue) <=> Head(queue) \in S \/ Pending(S, queue'))
           /\ (Followed(S, T, queue) <=> /\ Followed(S, T, queue')
                                         /\ Head(queue) \in S => Pending(T, queue'))
<1>1. queue \in Seq(EventType) /\ queue # <<>> /\ queue' = Tail(queue)
  BY HandledEvent DEF TypeOK
<1> QED
  BY <1>1, TailPending, TailFollowed

(***************************************************************************)
(* What is separated, before and after an event was taken.                 *)
(***************************************************************************)
LEMMA SeparatedTaken ==
    ASSUME TypeOK, NEW types, NextEventIs(types), NEW S, NEW T, NEW U, Separated(S, T, U, queue)
    PROVE  /\ Separated(S, T, U, queue')
           /\ Head(queue) \in S /\ Pending(T, queue') => Pending(U, queue')
<1>1. queue \in Seq(EventType) /\ queue # <<>> /\ queue' = Tail(queue)
  BY HandledEvent DEF TypeOK
<1> QED
  BY <1>1, TailSeparated

(***************************************************************************)
(* An event of another window leaves w alone.                              *)
(***************************************************************************)
LEMMA OtherEvent ==
    ASSUME TypeOK, NEW w \in Windows, NEW types, NextEventIs(types), Head(queue).win # w,
           DirOnly(Head(queue).win), adding' \in {None, Head(queue).win}
    PROVE  Still(w)
<1>1. /\ UNCHANGED <<setup, x_win, x_selected, x_root, used, changes, started, to_add, add_step>>
      /\ adding = None
  BY HandledEvent
<1>2. Head(queue) \notin About(w)
  BY DEF About
<1>3. SameQueue(w)
  <2> SUFFICES ASSUME NEW S \in SUBSET About(w), NEW T \in SUBSET About(w),
                      NEW U \in SUBSET About(w)
               PROVE  /\ (Pending(S, queue') <=> Pending(S, queue))
                      /\ (Followed(S, T, queue') <=> Followed(S, T, queue))
                      /\ (Separated(S, T, U, queue) => Separated(S, T, U, queue'))
    BY DEF SameQueue
  <2>1. Head(queue) \notin S
    BY <1>2
  <2> QED
    BY <2>1, EventTaken, SeparatedTaken
<1>4. adding # w /\ adding' # w
  BY <1>1, WindowMirrorAssumption
<1> QED
  BY <1>1, <1>3, <1>4 DEF DirOnly, Still, SameWindow, SameMirror

(***************************************************************************)
(* A queue that does not change is the same to every window.               *)
(***************************************************************************)
LEMMA SameQueueHolds ==
    ASSUME NEW w, UNCHANGED queue
    PROVE  SameQueue(w)
BY DEF SameQueue

(***************************************************************************)
(* A step leaves w alone unless it is about w.                             *)
(***************************************************************************)
Concerns(w) ==
    \/ \E override \in BOOLEAN : createWindow(w, override)
    \/ destroyWindow(w)
    \/ \E name \in Names \cup {None} : changeName(w, name)
    \/ \E mapped \in BOOLEAN : mapWindow(w, mapped)
    \/ \E parent \in Parents : reparentWindow(w, parent)
    \/ startUp
    \/ addListedWindow /\ adding' = w
    \/ addWindow /\ adding = w
    \/ handleEvent /\ Head(queue).win = w

(***************************************************************************)
(* A step leaves a window alone or is about it.                            *)
(***************************************************************************)
LEMMA StepSeen ==
    ASSUME TypeInv, [Next]_vars, NEW w \in Windows
    PROVE  Still(w) \/ Concerns(w)
<1> TypeOK /\ StartInv
  BY DEF TypeInv
<1> USE DEF Concerns
<1>1. ASSUME NEW v \in Windows, NEW override \in BOOLEAN, createWindow(v, override), v # w
      PROVE  Still(w)
  <2> DEFINE e == [type |-> "create", win |-> v, override |-> override]
  <2>1. Changed(v, e) /\ used' = used \cup {v}
    BY <1>1, CreateWindowStep
  <2> HIDE DEF e
  <2> QED
    BY <1>1, <2>1, OtherSent
<1>2. ASSUME NEW v \in Windows, destroyWindow(v), v # w PROVE Still(w)
  BY <1>2, DestroyWindowStep, OtherSent
<1>3. ASSUME NEW v \in Windows, NEW name \in Names \cup {None}, changeName(v, name), v # w
      PROVE  Still(w)
  BY <1>3, ChangeNameStep, OtherSent
<1>4. ASSUME NEW v \in Windows, NEW mapped \in BOOLEAN, mapWindow(v, mapped), v # w
      PROVE  Still(w)
  BY <1>4, MapWindowStep, OtherSent
<1>5. ASSUME NEW v \in Windows, NEW parent \in Parents, reparentWindow(v, parent), v # w
      PROVE  Still(w)
  BY <1>5, ReparentWindowStep, OtherSent
<1>6. ASSUME addListedWindow, adding' # w PROVE Still(w)
  <2>1. adding # w
    BY <1>6, WindowMirrorAssumption DEF addListedWindow
  <2>2. SameQueue(w)
    BY <1>6, SameQueueHolds DEF addListedWindow
  <2> QED
    BY <1>6, <2>1, <2>2 DEF addListedWindow, Still, SameWindow, SameMirror
<1>7. ASSUME addWindow, adding # w PROVE Still(w)
  <2>1. /\ adding \in Windows
        /\ UNCHANGED <<setup, x_win, x_root, used, queue, changes, started, m_ignored_windows>>
        /\ (w \in x_selected' <=> w \in x_selected)
        /\ (w \in to_add' <=> w \in to_add)
        /\ adding' \in {None, adding}
    BY <1>7, AddWindowStep
  <2>2. DirOnly(adding)
    BY <1>7, <2>1, AddWindowStep, CreateDirectoryStep DEF DirOnly, TypeOK
  <2>3. adding' # w
    BY <1>7, <2>1, WindowMirrorAssumption
  <2>4. SameQueue(w)
    BY <2>1, SameQueueHolds
  <2> QED
    BY <1>7, <2>1, <2>2, <2>3, <2>4 DEF Still, SameWindow, SameMirror, DirOnly
<1>8. ASSUME handleEvent, Head(queue).win # w PROVE Still(w)
  <2> DEFINE v == Head(queue).win
  <2>1. CASE handleCreateEvent
    <3>1. NextEventIs({"create"}) /\ UNCHANGED <<dir, announced>>
      BY <2>1 DEF handleCreateEvent
    <3>2. adding' \in {None, v}
      BY <2>1, <3>1, HandledEvent DEF handleCreateEvent
    <3>3. DirOnly(v)
      BY <3>1 DEF DirOnly, TypeOK
    <3> QED
      BY <1>8, <3>1, <3>2, <3>3, OtherEvent
  <2>2. CASE handleDestroyEvent
    BY <1>8, <2>2, DestroyEventStep, HandledEvent, OtherEvent
  <2>3. CASE updateProperty
    BY <1>8, <2>3, PropertyEventStep, HandledEvent, OtherEvent
  <2>4. CASE updateMappedState
    BY <1>8, <2>4, MappedEventStep, HandledEvent, OtherEvent
  <2>5. CASE updateParent
    BY <1>8, <2>5, ParentEventStep, HandledEvent, OtherEvent
  <2> QED
    BY <1>8, <2>1, <2>2, <2>3, <2>4, <2>5 DEF handleEvent
<1>9. CASE UNCHANGED vars
  <2>1. SameQueue(w)
    BY <1>9, SameQueueHolds DEF vars
  <2> QED
    BY <1>9, <2>1 DEF vars, Still, SameWindow, SameMirror
<1> QED
  BY <1>1, <1>2, <1>3, <1>4, <1>5, <1>6, <1>7, <1>8, <1>9 DEF Next, xServer

-----------------------------------------------------------------------------
(* The invariant, window by window.                                        *)

Known(w) == HasDir(w) \/ w \in to_add \/ adding = w

(***************************************************************************)
(* What the handlers of an event of w have in common: no directory comes   *)
(* into being, and only create events lead to a new one.                   *)
(***************************************************************************)
LEMMA HandlerStep ==
    ASSUME TypeOK, NEW w \in Windows, handleEvent, Head(queue).win = w
    PROVE  /\ Head(queue) \in EventType /\ (\E types : NextEventIs(types))
           /\ UNCHANGED <<setup, x_win, x_selected, x_root, used, started, to_add, add_step>>
           /\ started = 2 /\ to_add = {} /\ adding = None /\ adding' \in {None, w}
           /\ adding' = w => handleCreateEvent
           /\ HasDir(w)' => HasDir(w)
<1>1. CASE handleCreateEvent
  BY <1>1, HandledEvent DEF handleCreateEvent, HasDir
<1>2. CASE handleDestroyEvent
  <2>1. NextEventIs({"destroy"}) /\ ~HasDir(w)' /\ UNCHANGED adding
    BY <1>2, DestroyEventStep
  <2> QED
    BY <2>1, HandledEvent, WindowMirrorAssumption
<1>3. CASE updateProperty
  <2>1. NextEventIs({"property"}) /\ (HasDir(w)' <=> HasDir(w)) /\ UNCHANGED adding
    BY <1>3, PropertyEventStep
  <2> QED
    BY <2>1, HandledEvent, WindowMirrorAssumption
<1>4. CASE updateMappedState
  <2>1. NextEventIs({"map", "unmap"}) /\ (HasDir(w)' <=> HasDir(w)) /\ UNCHANGED adding
    BY <1>4, MappedEventStep
  <2> QED
    BY <2>1, HandledEvent, WindowMirrorAssumption
<1>5. CASE updateParent
  <2>1. NextEventIs({"to_root", "to_frame"}) /\ (HasDir(w)' <=> HasDir(w)) /\ UNCHANGED adding
    BY <1>5, ParentEventStep
  <2> QED
    BY <2>1, HandledEvent, WindowMirrorAssumption
<1> QED
  BY <1>1, <1>2, <1>3, <1>4, <1>5 DEF handleEvent

(***************************************************************************)
(* The start-up meets no directory.                                        *)
(***************************************************************************)
LEMMA ListStep ==
    ASSUME TypeInv, startUp
    PROVE  /\ UNCHANGED <<setup, x_win, x_selected, used, queue, add_step>>
           /\ adding = None /\ adding' = None /\ Dirs = {}
           /\ \A w \in Windows : UNCHANGED <<dir[w], announced[w]>> /\ ~HasDir(w) /\ ~HasDir(w)'
           /\ \A w \in Windows : w \notin to_add
           /\ \A w \in Windows : w \in to_add' => w \in WindowList
           /\ started' = 2 => to_add' = WindowList
           /\ started # 2
<1>1. /\ UNCHANGED <<setup, x_win, x_selected, used, queue, changes, adding, add_step, mirror>>
      /\ \/ started = 0 /\ started' = 1 /\ x_root' = TRUE /\ UNCHANGED to_add
         \/ started = 1 /\ started' = 2 /\ to_add' = WindowList /\ UNCHANGED x_root
  BY StartUpStep DEF TypeInv
<1>2. to_add = {} /\ adding = None /\ Dirs = {}
  BY <1>1 DEF TypeInv, StartInv
<1> QED
  BY <1>1, <1>2 DEF Dirs, HasDir

(***************************************************************************)
(* The windows of the list are added one at a time, none has a directory.  *)
(***************************************************************************)
LEMMA AddListedStep ==
    ASSUME TypeInv, NEW w \in Windows, addListedWindow, adding' = w
    PROVE  /\ UNCHANGED <<setup, server, mirror, started, to_add, add_step>>
           /\ w \in to_add /\ adding = None /\ add_step = 0 /\ ~HasDir(w)
BY DEF addListedWindow, TypeInv, StartInv, Dirs

(***************************************************************************)
(* An id that is not used yet is not heard of.                             *)
(***************************************************************************)
Used(w) == Exists(w) \/ Known(w) \/ Pending(About(w), queue) => w \in used

(***************************************************************************)
(* A step keeps that.                                                      *)
(***************************************************************************)
LEMMA UsedNext ==
    ASSUME TypeInv, NEW w \in Windows, Used(w), Still(w) \/ Concerns(w)
    PROVE  Used(w)'
<1> TypeOK /\ StartInv
  BY DEF TypeInv
<1>1. CASE Still(w)
  BY <1>1 DEF Still, SameQueue, SameWindow, SameMirror, Used, Known, Exists, HasDir
<1>2. ASSUME NEW override \in BOOLEAN, createWindow(w, override) PROVE Used(w)'
  BY <1>2, CreateWindowStep DEF Used
<1>3. CASE destroyWindow(w)
  BY <1>3, DestroyWindowStep DEF Used
<1>4. ASSUME NEW name \in Names \cup {None}, changeName(w, name) PROVE Used(w)'
  BY <1>4, ChangeNameStep DEF Used
<1>5. ASSUME NEW mapped \in BOOLEAN, mapWindow(w, mapped) PROVE Used(w)'
  BY <1>5, MapWindowStep DEF Used
<1>6. ASSUME NEW parent \in Parents, reparentWindow(w, parent) PROVE Used(w)'
  BY <1>6, ReparentWindowStep DEF Used
<1>7. CASE startUp
  <2>1. w \in to_add' => Exists(w)
    BY <1>7, ListStep DEF WindowList, Exist, Managed
  <2> QED
    BY <1>7, <2>1, ListStep, WindowMirrorAssumption DEF Used, Known, Exists
<1>8. CASE addListedWindow /\ adding' = w
  BY <1>8, AddListedStep DEF Used, Known
<1>9. CASE addWindow /\ adding = w
  BY <1>9, AddWindowStep DEF Used, Known
<1>10. CASE handleEvent /\ Head(queue).win = w
  <2>1. UNCHANGED used /\ Head(queue) \in About(w)
    BY <1>10, HandlerStep DEF About
  <2>2. PICK types : NextEventIs(types)
    BY <1>10, HandlerStep
  <2>3. Pending(About(w), queue)
    BY <2>1, <2>2, EventTaken
  <2> QED
    BY <2>1, <2>3 DEF Used
<1> QED
  BY <1>1, <1>2, <1>3, <1>4, <1>5, <1>6, <1>7, <1>8, <1>9, <1>10 DEF Concerns

(***************************************************************************)
(* Without a reparenting window manager all is below the root.             *)
(***************************************************************************)
Rooted(w) ==
    ~setup.reparenting =>
        /\ Exists(w) => x_win[w].parent = "root"
        /\ HasDir(w) => dir[w].parent = "root"
        /\ ~Pending(Parentings(w), queue)

(***************************************************************************)
(* A step keeps that: the queries find the root, too.                      *)
(***************************************************************************)
LEMMA RootedNext ==
    ASSUME TypeInv, NEW w \in Windows, Rooted(w), Still(w) \/ Concerns(w)
    PROVE  Rooted(w)'
<1> TypeOK /\ StartInv
  BY DEF TypeInv
<1>s. ASSUME NEW e, Changed(w, e), e.type \notin {"to_root", "to_frame"},
             Exists(w)' => \/ x_win'[w].parent = "root"
                           \/ Exists(w) /\ x_win'[w].parent = x_win[w].parent
      PROVE  Rooted(w)'
  <2>1. e \notin Parentings(w)
    BY <1>s, EventKinds DEF Changed
  <2>2. Pending(Parentings(w), queue') => Pending(Parentings(w), queue)
    BY <1>s, <2>1, SentPending DEF Changed
  <2>3. setup' = setup /\ dir' = dir
    BY <1>s DEF Changed
  <2>4. (HasDir(w)' <=> HasDir(w)) /\ dir'[w].parent = dir[w].parent
    BY <2>3 DEF HasDir
  <2>5. Exists(w)' => \/ x_win'[w].parent = "root"
                      \/ Exists(w) /\ x_win'[w].parent = x_win[w].parent
    BY <1>s
  <2> QED
    BY <2>2, <2>3, <2>4, <2>5 DEF Rooted
<1>1. CASE Still(w)
  BY <1>1, EventSets DEF Still, SameQueue, SameWindow, SameMirror, Rooted, Exists, HasDir
<1>2. ASSUME NEW override \in BOOLEAN, createWindow(w, override) PROVE Rooted(w)'
  <2> DEFINE e == [type |-> "create", win |-> w, override |-> override]
  <2>1. Changed(w, e) /\ x_win'[w].parent = "root"
    BY <1>2, CreateWindowStep
  <2>2. e.type = "create"
    OBVIOUS
  <2> HIDE DEF e
  <2> QED
    BY <1>s, <2>1, <2>2
<1>3. CASE destroyWindow(w)
  BY <1>3, <1>s, DestroyWindowStep, EventTyped
<1>4. ASSUME NEW name \in Names \cup {None}, changeName(w, name) PROVE Rooted(w)'
  BY <1>4, <1>s, ChangeNameStep, EventTyped
<1>5. ASSUME NEW mapped \in BOOLEAN, mapWindow(w, mapped) PROVE Rooted(w)'
  BY <1>5, <1>s, MapWindowStep
<1>6. ASSUME NEW parent \in Parents, reparentWindow(w, parent) PROVE Rooted(w)'
  BY <1>6, ReparentWindowStep DEF Changed, Rooted
<1>7. CASE startUp
  BY <1>7, ListStep DEF Rooted, Exists
<1>8. CASE addListedWindow /\ adding' = w
  BY <1>8, AddListedStep DEF Rooted, Exists, HasDir
<1>9. CASE addWindow /\ adding = w
  <2>1. UNCHANGED <<setup, x_win, queue>>
    BY <1>9, AddWindowStep
  <2>2. CASE UNCHANGED dir
    BY <2>1, <2>2 DEF Rooted, Exists, HasDir
  <2>3. CASE createDirectory(w, to_add # {})
    <3>1. CASE HasDir(w)
      <4>1. updateName(w)
        BY <2>3, <3>1 DEF createDirectory
      <4>2. dir'[w].parent = dir[w].parent
        BY <3>1, <4>1, UpdateNameStep
      <4> QED
        BY <2>1, <3>1, <4>2 DEF Rooted, Exists
    <3>2. CASE ~HasDir(w)
      <4>1. dir'[w].parent = InitialParent(w)
        BY <2>3, <3>2, CreateDirectoryStep
      <4> QED
        BY <2>1, <4>1 DEF Rooted, Exists, InitialParent
    <3> QED
      BY <3>1, <3>2
  <2> QED
    BY <1>9, <2>2, <2>3, AddWindowStep
<1>10. CASE handleEvent /\ Head(queue).win = w
  <2> SUFFICES ASSUME ~setup.reparenting PROVE Rooted(w)'
    BY <1>10, HandlerStep DEF Rooted
  <2>1. UNCHANGED <<setup, x_win>> /\ Head(queue) \in EventType /\ (HasDir(w)' => HasDir(w))
    BY <1>10, HandlerStep
  <2>2. PICK types : NextEventIs(types)
    BY <1>10, HandlerStep
  <2>3. ~Pending(Parentings(w), queue') /\ Head(queue) \notin Parentings(w)
    BY <2>2, EventTaken DEF Rooted
  <2>4. Head(queue).type \notin {"to_root", "to_frame"}
    BY <1>10, <2>1, <2>3, EventKinds
  <2>5. ~updateParent
    BY <2>4 DEF updateParent, NextEventIs
  <2>6. HasDir(w)' => dir'[w].parent = dir[w].parent
    <3>1. CASE handleCreateEvent
      BY <3>1 DEF handleCreateEvent
    <3>2. CASE handleDestroyEvent
      BY <1>10, <3>2, DestroyEventStep
    <3>3. CASE updateProperty
      <4>1. CASE HasDir(w)
        <5>1. updateName(w)
          BY <1>10, <3>3, <4>1, PropertyEventStep
        <5> QED
          BY <4>1, <5>1, UpdateNameStep
      <4>2. CASE ~HasDir(w)
        BY <2>1, <4>2
      <4> QED
        BY <4>1, <4>2
    <3>4. CASE updateMappedState
      BY <1>10, <3>4, MappedEventStep
    <3> QED
      BY <1>10, <2>5, <3>1, <3>2, <3>3, <3>4 DEF handleEvent
  <2> QED
    BY <2>1, <2>3, <2>6 DEF Rooted, Exists
<1> QED
  BY <1>1, <1>2, <1>3, <1>4, <1>5, <1>6, <1>7, <1>8, <1>9, <1>10 DEF Concerns

(***************************************************************************)
(* What the changes of a window have in common: the mirror does not        *)
(* change.                                                                 *)
(***************************************************************************)
LEMMA ServerStep ==
    ASSUME NEW w \in Windows, NEW e, Changed(w, e)
    PROVE  /\ UNCHANGED <<setup, x_root, started, to_add, adding, add_step, dir, announced,
                          m_ignored_windows>>
           /\ (HasDir(w)' <=> HasDir(w)) /\ (Known(w)' <=> Known(w))
           /\ e \in EventType /\ e.win = w /\ Sent(queue, queue', e)
BY DEF Changed, HasDir, Known

(***************************************************************************)
(* What is pending, followed and separated before and after a change.      *)
(***************************************************************************)
LEMMA EventSent ==
    ASSUME NEW w \in Windows, NEW e, Changed(w, e), NEW S, NEW T, NEW U
    PROVE  /\ Pending(S, queue) => Pending(S, queue')
           /\ Pending(S, queue') => Pending(S, queue) \/ e \in S
           /\ e \notin S /\ Followed(S, T, queue) => Followed(S, T, queue')
           /\ e \notin T /\ Followed(S, T, queue') => Followed(S, T, queue)
           /\ e \notin T /\ Separated(S, T, U, queue) => Separated(S, T, U, queue')
           /\ e \notin S /\ Followed(S, U, queue) => Separated(S, T, U, queue')
<1>1. Sent(queue, queue', e)
  BY DEF Changed
<1> QED
  BY <1>1, SentPending, SentFollowed, SentSeparated

(***************************************************************************)
(* addWindow for w: known before and after, first subscribed to, then      *)
(* given a directory.                                                      *)
(***************************************************************************)
LEMMA AddStep ==
    ASSUME TypeInv, addWindow, NEW w, adding = w
    PROVE  /\ w \in Windows /\ Known(w)
           /\ UNCHANGED <<setup, x_win, x_root, used, queue, started, m_ignored_windows>>
           /\ Known(w)'
           /\ w \in x_selected => w \in x_selected'
           /\ \/ /\ add_step = 0 /\ add_step' = 1 /\ adding' = w
                 /\ UNCHANGED <<dir, announced, to_add>>
                 /\ Exists(w) => w \in x_selected'
              \/ /\ add_step = 1 /\ add_step' = 0 /\ adding' = None /\ to_add' = to_add \ {w}
                 /\ UNCHANGED x_selected
                 /\ createDirectory(w, to_add # {}) /\ DirOnly(w) /\ HasDir(w)'
                 /\ HasDir(w) => updateName(w)
                 /\ ~HasDir(w) => /\ dir'[w].name = InitialName(w)
                                  /\ dir'[w].mapped = InitialMapped(w, to_add # {})
                                  /\ dir'[w].parent = InitialParent(w)
                                  /\ announced'[w] = InitialName(w)
<1>1. /\ w \in Windows
      /\ UNCHANGED <<setup, x_win, x_root, used, queue, changes, started, m_ignored_windows>>
  BY AddWindowStep DEF TypeInv
<1>2. CASE /\ add_step = 0 /\ add_step' = 1 /\ UNCHANGED <<dir, announced, adding, to_add>>
           /\ x_selected' = IF Exists(w) THEN x_selected \cup {w} ELSE x_selected
  BY <1>1, <1>2 DEF Known
<1>3. CASE /\ add_step = 1 /\ add_step' = 0 /\ UNCHANGED x_selected
           /\ adding' = None /\ to_add' = to_add \ {w}
           /\ createDirectory(w, to_add # {})
  <2>1. (to_add # {}) \in BOOLEAN /\ TypeOK
    BY DEF TypeInv
  <2>2. /\ DirOnly(w) /\ HasDir(w)'
        /\ HasDir(w) => updateName(w)
        /\ ~HasDir(w) => /\ dir'[w].name = InitialName(w)
                         /\ dir'[w].mapped = InitialMapped(w, to_add # {})
                         /\ dir'[w].parent = InitialParent(w)
                         /\ announced'[w] = InitialName(w)
    BY <1>1, <1>3, <2>1, CreateDirectoryStep
  <2> QED
    BY <1>1, <1>3, <2>2 DEF Known
<1> QED
  BY <1>2, <1>3, AddWindowStep DEF TypeInv

(***************************************************************************)
(* Without a reparenting window manager a window that is gone has a        *)
(* destroy event under way for everything xwmfs knows or will learn of it. *)
(***************************************************************************)
Gone(w) ==
    /\ Followed(Creates(w) \cup Mappings(w), Destroys(w), queue)
    /\ Known(w) => Pending(Destroys(w), queue)

Died(w) == ~setup.reparenting /\ ~Exists(w) => Gone(w)

(***************************************************************************)
(* A step keeps that: the window that dies is below the root, so its       *)
(* destroy event comes; what is added has been listed while it lived, or a *)
(* create event was read that has a destroy event behind it.               *)
(***************************************************************************)
LEMMA DiedNext ==
    ASSUME TypeInv, NEW w \in Windows, Rooted(w), Died(w), Still(w) \/ Concerns(w)
    PROVE  Died(w)'
<1> TypeOK /\ StartInv
  BY DEF TypeInv
<1>s. Creates(w) \cup Mappings(w) \in SUBSET About(w) /\ Destroys(w) \in SUBSET About(w)
  BY EventSets
<1>1. CASE Still(w)
  <2>1. /\ (Pending(Destroys(w), queue') <=> Pending(Destroys(w), queue))
        /\ (Followed(Creates(w) \cup Mappings(w), Destroys(w), queue')
              <=> Followed(Creates(w) \cup Mappings(w), Destroys(w), queue))
    BY <1>1, <1>s DEF Still, SameQueue
  <2> QED
    BY <1>1, <2>1 DEF Still, SameWindow, SameMirror, Died, Gone, Known, Exists, HasDir
<1>2. ASSUME NEW override \in BOOLEAN, createWindow(w, override) PROVE Died(w)'
  BY <1>2, CreateWindowStep DEF Died
<1>3. CASE destroyWindow(w)
  <2> DEFINE e == Event("destroy", w)
  <2>1. Changed(w, e) /\ e.type = "destroy" /\ e.win = w /\ e \in EventType
    BY <1>3, DestroyWindowStep, EventTyped
  <2>2. /\ e \in Destroys(w) /\ e \notin Creates(w) \cup Mappings(w)
    BY <2>1, EventKinds
  <2>3. (x_root /\ IsRootChild(w)) \/ w \in x_selected => Told(queue, queue', e)
    BY <1>3, DestroyWindowStep
  <2>4. ~x_root /\ w \notin x_selected => queue' = queue
    BY <1>3, DestroyWindowStep
  <2> HIDE DEF e
  <2> SUFFICES ASSUME ~setup.reparenting PROVE Gone(w)'
    BY <2>1, ServerStep DEF Died
  <2>5. IsRootChild(w)
    BY <1>3, DestroyWindowStep DEF Rooted, IsRootChild
  <2>6. CASE x_root
    BY <2>2, <2>3, <2>5, <2>6, ToldFollowed, ToldPending DEF Gone
  <2>7. CASE ~x_root
    <3>1. queue' = <<>>
      BY <2>4, <2>7 DEF StartInv
    <3>2. ~Known(w)
      BY <2>7, WindowMirrorAssumption DEF StartInv, Known, Dirs, TypeOK
    <3> QED
      BY <2>1, <3>1, <3>2, ServerStep, EmptyQueue DEF Gone
  <2> QED
    BY <2>6, <2>7
<1>4. ASSUME NEW name \in Names \cup {None}, changeName(w, name) PROVE Died(w)'
  BY <1>4, ChangeNameStep DEF Died
<1>5. ASSUME NEW mapped \in BOOLEAN, mapWindow(w, mapped) PROVE Died(w)'
  BY <1>5, MapWindowStep DEF Died
<1>6. ASSUME NEW parent \in Parents, reparentWindow(w, parent) PROVE Died(w)'
  BY <1>6, ReparentWindowStep DEF Died
<1>7. CASE startUp
  <2>1. Known(w)' => Exists(w)
    BY <1>7, ListStep, WindowMirrorAssumption DEF WindowList, Exist, Managed, Known
  <2>2. setup' = setup /\ queue' = queue /\ (Exists(w)' <=> Exists(w))
    BY <1>7, ListStep DEF Exists
  <2> QED
    BY <2>1, <2>2 DEF Died, Gone
<1>8. CASE addListedWindow /\ adding' = w
  <2>1. Known(w) /\ setup' = setup /\ queue' = queue /\ (Exists(w)' <=> Exists(w))
    BY <1>8, AddListedStep DEF Known, Exists
  <2> QED
    BY <2>1 DEF Died, Gone
<1>9. CASE addWindow /\ adding = w
  <2>1. Known(w) /\ setup' = setup /\ queue' = queue /\ (Exists(w)' <=> Exists(w))
    BY <1>9, AddStep DEF Exists
  <2> QED
    BY <2>1 DEF Died, Gone
<1>10. CASE handleEvent /\ Head(queue).win = w
  <2> SUFFICES ASSUME ~setup.reparenting, ~Exists(w) PROVE Gone(w)'
    BY <1>10, HandlerStep DEF Died, Exists
  <2>1. /\ Head(queue) \in EventType /\ to_add' = {}
        /\ HasDir(w)' => HasDir(w)
        /\ adding' \in {None, w} /\ (adding' = w => handleCreateEvent)
    BY <1>10, HandlerStep
  <2>2. PICK types : NextEventIs(types)
    BY <1>10, HandlerStep
  <2>3. /\ Followed(Creates(w) \cup Mappings(w), Destroys(w), queue')
        /\ Head(queue) \in Creates(w) \cup Mappings(w) => Pending(Destroys(w), queue')
        /\ Pending(Destroys(w), queue)
              => Head(queue) \in Destroys(w) \/ Pending(Destroys(w), queue')
    BY <2>2, EventTaken DEF Died, Gone
  <2>4. CASE handleCreateEvent
    <3>1. Head(queue) \in Creates(w)
      BY <1>10, <2>1, <2>4, EventKinds DEF handleCreateEvent, NextEventIs
    <3> QED
      BY <2>3, <3>1 DEF Gone
  <2>5. CASE handleDestroyEvent
    <3>1. ~HasDir(w)' /\ ~handleCreateEvent
      BY <1>10, <2>5, DestroyEventStep DEF handleCreateEvent, handleDestroyEvent, NextEventIs
    <3> QED
      BY <2>1, <2>3, <3>1, WindowMirrorAssumption DEF Gone, Known
  <2>6. CASE updateProperty \/ updateMappedState \/ updateParent
    <3>1. Head(queue).type \notin {"create", "destroy"}
      BY <2>6 DEF updateProperty, updateMappedState, updateParent, NextEventIs
    <3>2. ~handleCreateEvent /\ Head(queue) \notin Destroys(w)
      BY <1>10, <2>1, <3>1, EventKinds DEF handleCreateEvent, NextEventIs
    <3> QED
      BY <2>1, <2>3, <3>2, WindowMirrorAssumption DEF Died, Gone, Known
  <2> QED
    BY <1>10, <2>4, <2>5, <2>6 DEF handleEvent
<1> QED
  BY <1>1, <1>2, <1>3, <1>4, <1>5, <1>6, <1>7, <1>8, <1>9, <1>10 DEF Concerns

(***************************************************************************)
(* When the id of a window comes back, the destroy events of its           *)
(* predecessor are followed by its create event.                           *)
(***************************************************************************)
Reborn(w) == Exists(w) => Followed(Destroys(w), Creates(w), queue)

(***************************************************************************)
(* A step keeps that: the create event comes last when the id is used      *)
(* again.                                                                  *)
(***************************************************************************)
LEMMA RebornNext ==
    ASSUME TypeInv, NEW w \in Windows, Reborn(w), Still(w) \/ Concerns(w)
    PROVE  Reborn(w)'
<1> TypeOK /\ StartInv
  BY DEF TypeInv
<1>1. CASE Still(w)
  BY <1>1, EventSets DEF Still, SameQueue, SameWindow, Reborn, Exists
<1>2. ASSUME NEW override \in BOOLEAN, createWindow(w, override) PROVE Reborn(w)'
  <2> DEFINE e == [type |-> "create", win |-> w, override |-> override]
  <2>1. /\ Changed(w, e)
        /\ x_root \/ w \in x_selected => Told(queue, queue', e)
        /\ ~(x_root \/ w \in x_selected) => queue' = queue
    BY <1>2, CreateWindowStep
  <2>2. e \in EventType /\ e.win = w /\ e.type = "create"
    BY <2>1, ServerStep
  <2>3. e \in Creates(w) /\ e \notin Destroys(w)
    BY <2>2, EventKinds
  <2> HIDE DEF e
  <2>4. CASE x_root
    BY <2>1, <2>3, <2>4, ToldFollowed DEF Reborn
  <2>5. CASE ~x_root
    <3>1. queue' = <<>>
      BY <2>1, <2>5 DEF StartInv
    <3> QED
      BY <3>1, EmptyQueue DEF Reborn
  <2> QED
    BY <2>4, <2>5
<1>3. CASE destroyWindow(w)
  BY <1>3, DestroyWindowStep DEF Reborn
<1>s. ASSUME NEW e, Changed(w, e), e.type # "destroy", Exists(w) PROVE Reborn(w)'
  BY <1>s, ServerStep, EventKinds, EventSent DEF Reborn
<1>4. ASSUME NEW name \in Names \cup {None}, changeName(w, name) PROVE Reborn(w)'
  BY <1>4, <1>s, ChangeNameStep, EventTyped
<1>5. ASSUME NEW mapped \in BOOLEAN, mapWindow(w, mapped) PROVE Reborn(w)'
  BY <1>5, <1>s, MapWindowStep
<1>6. ASSUME NEW parent \in Parents, reparentWindow(w, parent) PROVE Reborn(w)'
  BY <1>6, <1>s, ReparentWindowStep
<1>7. CASE startUp
  BY <1>7, ListStep DEF Reborn, Exists
<1>8. CASE addListedWindow /\ adding' = w
  BY <1>8, AddListedStep DEF Reborn, Exists
<1>9. CASE addWindow /\ adding = w
  BY <1>9, AddStep DEF Reborn, Exists
<1>10. CASE handleEvent /\ Head(queue).win = w
  <2>1. UNCHANGED x_win /\ \E types : NextEventIs(types)
    BY <1>10, HandlerStep
  <2> QED
    BY <2>1, EventTaken DEF Reborn, Exists
<1> QED
  BY <1>1, <1>2, <1>3, <1>4, <1>5, <1>6, <1>7, <1>8, <1>9, <1>10 DEF Concerns

(***************************************************************************)
(* With --handle-pseudo-windows every window has a directory or will get   *)
(* one.                                                                    *)
(***************************************************************************)
Listed(w) ==
    started = 2 /\ setup.handle_pseudo /\ Exists(w) => Known(w) \/ Pending(Creates(w), queue)

(***************************************************************************)
(* A step keeps that: the destroy event that removes a directory is        *)
(* followed by the create event of the living window.                      *)
(***************************************************************************)
LEMMA ListedNext ==
    ASSUME TypeInv, NEW w \in Windows, Reborn(w), Listed(w), Still(w) \/ Concerns(w)
    PROVE  Listed(w)'
<1> TypeOK /\ StartInv
  BY DEF TypeInv
<1>1. CASE Still(w)
  BY <1>1, EventSets DEF Still, SameQueue, SameWindow, SameMirror, Listed, Known, Exists, HasDir
<1>2. ASSUME NEW override \in BOOLEAN, createWindow(w, override) PROVE Listed(w)'
  <2> DEFINE e == [type |-> "create", win |-> w, override |-> override]
  <2>1. /\ Changed(w, e)
        /\ x_root \/ w \in x_selected => Told(queue, queue', e)
    BY <1>2, CreateWindowStep
  <2>2. e \in EventType /\ e.win = w /\ e.type = "create"
    BY <2>1, ServerStep
  <2>3. e \in Creates(w)
    BY <2>2, EventKinds
  <2> HIDE DEF e
  <2>4. started = 2 => x_root
    BY DEF StartInv
  <2>5. started' = started
    BY <2>1, ServerStep
  <2> QED
    BY <2>1, <2>3, <2>4, <2>5, ToldPending DEF Listed
<1>3. CASE destroyWindow(w)
  BY <1>3, DestroyWindowStep DEF Listed
<1>s. ASSUME NEW e, Changed(w, e), Exists(w) PROVE Listed(w)'
  BY <1>s, ServerStep, EventSent DEF Listed
<1>4. ASSUME NEW name \in Names \cup {None}, changeName(w, name) PROVE Listed(w)'
  BY <1>4, <1>s, ChangeNameStep
<1>5. ASSUME NEW mapped \in BOOLEAN, mapWindow(w, mapped) PROVE Listed(w)'
  BY <1>5, <1>s, MapWindowStep
<1>6. ASSUME NEW parent \in Parents, reparentWindow(w, parent) PROVE Listed(w)'
  BY <1>6, <1>s, ReparentWindowStep
<1>7. CASE startUp
  <2>1. started' = 2 /\ setup.handle_pseudo => to_add' = Exist
    BY <1>7, ListStep DEF WindowList
  <2>2. setup' = setup /\ (Exists(w)' <=> w \in Exist)
    BY <1>7, ListStep DEF Exist, Exists
  <2> QED
    BY <2>1, <2>2 DEF Listed, Known
<1>8. CASE addListedWindow /\ adding' = w
  BY <1>8 DEF Listed, Known
<1>9. CASE addWindow /\ adding = w
  BY <1>9, AddStep DEF Listed
<1>10. CASE handleEvent /\ Head(queue).win = w
  <2> SUFFICES ASSUME setup.handle_pseudo, Exists(w)
               PROVE  Known(w)' \/ Pending(Creates(w), queue')
    BY <1>10, HandlerStep DEF Listed, Exists
  <2>1. /\ Head(queue) \in EventType /\ (\E types : NextEventIs(types))
        /\ started = 2 /\ to_add = {} /\ adding = None
    BY <1>10, HandlerStep
  <2>2. CASE handleCreateEvent
    BY <1>10, <2>2 DEF handleCreateEvent, isPseudoWindow, Known
  <2>3. CASE handleDestroyEvent
    <3>1. Head(queue) \in Destroys(w)
      BY <1>10, <2>1, <2>3, EventKinds DEF handleDestroyEvent, NextEventIs
    <3> QED
      BY <2>1, <3>1, EventTaken DEF Reborn
  <2>4. CASE updateProperty \/ updateMappedState \/ updateParent
    <3>1. Head(queue).type # "create"
      BY <2>4 DEF updateProperty, updateMappedState, updateParent, NextEventIs
    <3>2. Head(queue) \notin Creates(w)
      BY <1>10, <2>1, <3>1, EventKinds
    <3>3. HasDir(w)' <=> HasDir(w)
      BY <1>10, <2>4, PropertyEventStep, MappedEventStep, ParentEventStep
    <3>4. Known(w) => HasDir(w)
      BY <2>1, WindowMirrorAssumption DEF Known
    <3> QED
      BY <2>1, <3>2, <3>3, <3>4, EventTaken DEF Listed, Known
  <2> QED
    BY <1>10, <2>2, <2>3, <2>4 DEF handleEvent
<1> QED
  BY <1>1, <1>2, <1>3, <1>4, <1>5, <1>6, <1>7, <1>8, <1>9, <1>10 DEF Concerns

(***************************************************************************)
(* Before a window is created, what is left of the last one with its id    *)
(* will be destroyed, or there is nothing left of it.                      *)
(***************************************************************************)
LEMMA Forgotten ==
    ASSUME TypeInv, NEW w \in Windows, NEW override \in BOOLEAN, createWindow(w, override),
           NoLeftovers, Died(w), Used(w)
    PROVE  /\ Followed(Creates(w) \cup Mappings(w), Destroys(w), queue)
           /\ Known(w) => Pending(Destroys(w), queue)
<1> TypeOK
  BY DEF TypeInv
<1>1. ~Exists(w) /\ (setup.recycling \/ w \notin used)
  BY CreateWindowStep
<1>2. CASE ~setup.reparenting
  BY <1>1, <1>2 DEF Died, Gone
<1>3. CASE ~setup.recycling
  <2>1. ~Known(w) /\ ~Pending(About(w), queue)
    BY <1>1, <1>3 DEF Used
  <2>2. ~Pending(Creates(w) \cup Mappings(w), queue)
    BY <2>1, EventSets, FewerPending
  <2> QED
    BY <2>1, <2>2, NothingPending
<1> QED
  BY <1>2, <1>3 DEF NoLeftovers

(***************************************************************************)
(* Without the option a pseudo window gets no directory.                   *)
(***************************************************************************)
Ignored(w) ==
    ~setup.handle_pseudo /\ NoLeftovers /\ Exists(w) /\ x_win[w].override =>
        /\ Known(w) => Pending(Destroys(w), queue)
        /\ Followed(Heeded(w), Destroys(w), queue)

(***************************************************************************)
(* A step keeps that: a create event that leads to a directory is one of   *)
(* an earlier window with the id and has a destroy event behind it.        *)
(***************************************************************************)
LEMMA IgnoredNext ==
    ASSUME TypeInv, NEW w \in Windows, Used(w), Died(w), Ignored(w), Still(w) \/ Concerns(w)
    PROVE  Ignored(w)'
<1> TypeOK /\ StartInv
  BY DEF TypeInv
<1>h. ASSUME setup' = setup PROVE Heeded(w)' = Heeded(w) /\ (NoLeftovers' <=> NoLeftovers)
  BY <1>h DEF Heeded, NoLeftovers
<1>a. Heeded(w) \in SUBSET About(w) /\ Destroys(w) \in SUBSET About(w)
  BY EventSets
<1>1. CASE Still(w)
  <2>1. /\ (Pending(Destroys(w), queue') <=> Pending(Destroys(w), queue))
        /\ (Followed(Heeded(w), Destroys(w), queue') <=> Followed(Heeded(w), Destroys(w), queue))
    BY <1>1, <1>a DEF Still, SameQueue
  <2>2. setup' = setup /\ x_win'[w] = x_win[w] /\ (Known(w)' <=> Known(w))
    BY <1>1 DEF Still, SameWindow, SameMirror, Known, HasDir
  <2> QED
    BY <1>h, <2>1, <2>2 DEF Ignored, Exists
<1>2. ASSUME NEW override \in BOOLEAN, createWindow(w, override) PROVE Ignored(w)'
  <2> DEFINE e == [type |-> "create", win |-> w, override |-> override]
  <2>1. Changed(w, e) /\ x_win'[w].override = override /\ e.override = override
    BY <1>2, CreateWindowStep
  <2>2. setup' = setup /\ (Known(w)' <=> Known(w))
    BY <2>1, ServerStep
  <2> HIDE DEF e
  <2> SUFFICES ASSUME ~setup.handle_pseudo, NoLeftovers, override
               PROVE  /\ Known(w) => Pending(Destroys(w), queue')
                      /\ Followed(Heeded(w), Destroys(w), queue')
    BY <1>h, <2>1, <2>2 DEF Ignored
  <2>3. /\ Followed(Creates(w) \cup Mappings(w), Destroys(w), queue)
        /\ Known(w) => Pending(Destroys(w), queue)
    BY <1>2, Forgotten
  <2>4. Followed(Heeded(w), Destroys(w), queue)
    BY <2>3, FewerFollowed, EventSets
  <2>5. e \notin Heeded(w)
    BY <2>1 DEF Heeded
  <2> QED
    BY <2>1, <2>3, <2>4, <2>5, EventSent
<1>3. CASE destroyWindow(w)
  BY <1>3, DestroyWindowStep DEF Ignored
<1>s. ASSUME NEW e, Changed(w, e), e.type # "create", Exists(w),
             x_win'[w].override = x_win[w].override
      PROVE  Ignored(w)'
  <2>1. e \notin Heeded(w)
    BY <1>s, ServerStep, EventKinds, EventSets
  <2>2. setup' = setup /\ (Known(w)' <=> Known(w))
    BY <1>s, ServerStep
  <2>3. /\ Pending(Destroys(w), queue) => Pending(Destroys(w), queue')
        /\ Followed(Heeded(w), Destroys(w), queue) => Followed(Heeded(w), Destroys(w), queue')
    BY <1>s, <2>1, EventSent
  <2> QED
    BY <1>h, <1>s, <2>2, <2>3 DEF Ignored
<1>4. ASSUME NEW name \in Names \cup {None}, changeName(w, name) PROVE Ignored(w)'
  BY <1>4, <1>s, ChangeNameStep, EventTyped
<1>5. ASSUME NEW mapped \in BOOLEAN, mapWindow(w, mapped) PROVE Ignored(w)'
  BY <1>5, <1>s, MapWindowStep
<1>6. ASSUME NEW parent \in Parents, reparentWindow(w, parent) PROVE Ignored(w)'
  BY <1>6, <1>s, ReparentWindowStep
<1>7. CASE startUp
  <2>1. /\ UNCHANGED <<setup, x_win, queue>>
        /\ ~HasDir(w)' /\ adding' = None /\ (w \in to_add' => w \in WindowList)
    BY <1>7, ListStep
  <2>2. ~setup.handle_pseudo /\ w \in to_add' => ~x_win[w].override
    BY <2>1 DEF WindowList, Managed
  <2>3. ~setup.handle_pseudo /\ Known(w)' => ~x_win[w].override
    BY <2>1, <2>2, WindowMirrorAssumption DEF Known
  <2> QED
    BY <1>h, <2>1, <2>3 DEF Ignored, Exists
<1>8. CASE addListedWindow /\ adding' = w
  <2>1. Known(w) /\ UNCHANGED <<setup, x_win, queue>>
    BY <1>8, AddListedStep DEF Known
  <2> QED
    BY <1>h, <2>1 DEF Ignored, Exists
<1>9. CASE addWindow /\ adding = w
  <2>1. Known(w) /\ UNCHANGED <<setup, x_win, queue>>
    BY <1>9, AddStep
  <2> QED
    BY <1>h, <2>1 DEF Ignored, Exists
<1>10. CASE handleEvent /\ Head(queue).win = w
  <2>1. /\ UNCHANGED <<setup, x_win>>
        /\ Head(queue) \in EventType /\ to_add' = {}
        /\ HasDir(w)' => HasDir(w)
        /\ adding' \in {None, w} /\ (adding' = w => handleCreateEvent)
    BY <1>10, HandlerStep
  <2> SUFFICES ASSUME ~setup.handle_pseudo, NoLeftovers, Exists(w), x_win[w].override
               PROVE  /\ Known(w)' => Pending(Destroys(w), queue')
                      /\ Followed(Heeded(w), Destroys(w), queue')
    BY <1>h, <2>1 DEF Ignored, Exists
  <2>2. PICK types : NextEventIs(types)
    BY <1>10, HandlerStep
  <2>3. /\ Followed(Heeded(w), Destroys(w), queue')
        /\ Head(queue) \in Heeded(w) => Pending(Destroys(w), queue')
        /\ Pending(Destroys(w), queue)
              => Head(queue) \in Destroys(w) \/ Pending(Destroys(w), queue')
    BY <2>2, EventTaken DEF Ignored
  <2>4. CASE handleCreateEvent
    <3>1. Head(queue) \in Creates(w) /\ Head(queue) \notin Destroys(w)
      BY <1>10, <2>1, <2>4, EventKinds DEF handleCreateEvent, NextEventIs
    <3>2. CASE Head(queue).override
      <4>1. ~(adding' = w)
        BY <1>10, <2>4, <3>2, HandlerStep, WindowMirrorAssumption
           DEF handleCreateEvent, isPseudoWindow
      <4> QED
        BY <2>1, <2>3, <3>1, <4>1 DEF Ignored, Known
    <3>3. CASE ~Head(queue).override
      <4>1. Head(queue) \in Heeded(w)
        BY <3>1, <3>3 DEF Heeded
      <4> QED
        BY <2>3, <4>1
    <3> QED
      BY <3>2, <3>3
  <2>5. CASE handleDestroyEvent
    <3>1. ~HasDir(w)' /\ ~handleCreateEvent
      BY <1>10, <2>5, DestroyEventStep DEF handleCreateEvent, handleDestroyEvent, NextEventIs
    <3> QED
      BY <2>1, <2>3, <3>1, WindowMirrorAssumption DEF Known
  <2>6. CASE updateProperty \/ updateMappedState \/ updateParent
    <3>1. Head(queue).type \notin {"create", "destroy"}
      BY <2>6 DEF updateProperty, updateMappedState, updateParent, NextEventIs
    <3>2. ~handleCreateEvent /\ Head(queue) \notin Destroys(w)
      BY <1>10, <2>1, <3>1, EventKinds DEF handleCreateEvent, NextEventIs
    <3> QED
      BY <2>1, <2>3, <3>2, WindowMirrorAssumption DEF Ignored, Known
  <2> QED
    BY <1>10, <2>4, <2>5, <2>6 DEF handleEvent
<1> QED
  BY <1>1, <1>2, <1>3, <1>4, <1>5, <1>6, <1>7, <1>8, <1>9, <1>10 DEF Concerns

(***************************************************************************)
(* The file `name` holds the window's name, or something is under way that *)
(* has it fetched again.                                                   *)
(***************************************************************************)
NameMatches(w) ==
    IF x_win[w].name = None THEN dir[w].name \in {"absent", "empty"}
                            ELSE dir[w].name = x_win[w].name

Renewed(w) == Pending(Destroys(w), queue) \/ Pending(Heeded(w), queue)

Named(w) ==
    Refreshed /\ Exists(w) =>
        /\ HasDir(w) => \/ Renewed(w) \/ adding = w
                        \/ /\ w \in x_selected
                           /\ NameMatches(w) \/ Pending(Properties(w), queue)
        /\ adding = w /\ add_step = 1 => w \in x_selected \/ Renewed(w)

(***************************************************************************)
(* A name that was just fetched is the window's.                           *)
(***************************************************************************)
LEMMA NameFetched ==
    ASSUME NEW w, Exists(w), UNCHANGED x_win, dir'[w].name \in {InitialName(w), UpdatedName(w)}
    PROVE  NameMatches(w)'
BY DEF NameMatches, InitialName, UpdatedName, Fetched

(***************************************************************************)
(* A step keeps that: the subscription comes before the name is fetched,   *)
(* so a change in between is under way as an event.                        *)
(***************************************************************************)
LEMMA NamedNext ==
    ASSUME TypeInv, NEW w \in Windows, Used(w), Died(w), Named(w), Still(w) \/ Concerns(w)
    PROVE  Named(w)'
<1> TypeOK /\ StartInv
  BY DEF TypeInv
<1>h. ASSUME setup' = setup PROVE Heeded(w)' = Heeded(w) /\ (Refreshed' <=> Refreshed)
  BY <1>h DEF Heeded, Refreshed, NoLeftovers
<1>a. /\ Heeded(w) \in SUBSET About(w) /\ Destroys(w) \in SUBSET About(w)
      /\ Properties(w) \in SUBSET About(w)
  BY EventSets
<1>1. CASE Still(w)
  <2>1. /\ (Pending(Destroys(w), queue') <=> Pending(Destroys(w), queue))
        /\ (Pending(Heeded(w), queue') <=> Pending(Heeded(w), queue))
        /\ (Pending(Properties(w), queue') <=> Pending(Properties(w), queue))
    BY <1>1, <1>a DEF Still, SameQueue
  <2>2. /\ setup' = setup /\ x_win'[w] = x_win[w] /\ dir'[w] = dir[w]
        /\ (w \in x_selected' <=> w \in x_selected)
        /\ (adding' = w <=> adding = w) /\ (adding = w => add_step' = add_step)
    BY <1>1 DEF Still, SameWindow, SameMirror
  <2>3. (Renewed(w)' <=> Renewed(w)) /\ (NameMatches(w)' <=> NameMatches(w))
    BY <1>h, <2>1, <2>2 DEF Renewed, NameMatches
  <2> QED
    BY <1>h, <2>1, <2>2, <2>3 DEF Named, Exists, HasDir
<1>r. ASSUME NEW e, Changed(w, e), Renewed(w) PROVE Renewed(w)'
  BY <1>h, <1>r, ServerStep, EventSent DEF Renewed
<1>2. ASSUME NEW override \in BOOLEAN, createWindow(w, override) PROVE Named(w)'
  <2> DEFINE e == [type |-> "create", win |-> w, override |-> override]
  <2>1. /\ Changed(w, e)
        /\ x_root \/ w \in x_selected => Told(queue, queue', e)
    BY <1>2, CreateWindowStep
  <2>2. e \in EventType /\ e.win = w /\ e.type = "create"
    BY <2>1, ServerStep
  <2>3. e \in Creates(w)
    BY <2>2, EventKinds
  <2> HIDE DEF e
  <2>4. /\ setup' = setup /\ adding' = adding
        /\ (HasDir(w)' <=> HasDir(w)) /\ (Known(w)' <=> Known(w))
    BY <2>1, ServerStep
  <2> SUFFICES ASSUME Refreshed, Known(w) PROVE Renewed(w)'
    BY <1>h, <2>4 DEF Named, Known
  <2>5. CASE setup.handle_pseudo
    <3>1. e \in Heeded(w)
      BY <2>3, <2>5 DEF Heeded
    <3>2. x_root
      BY WindowMirrorAssumption DEF StartInv, Known, Dirs, TypeOK
    <3>3. Pending(Heeded(w), queue')
      BY <2>1, <3>1, <3>2, ToldPending
    <3> QED
      BY <1>h, <2>4, <3>3 DEF Renewed
  <2>6. CASE NoLeftovers
    <3>1. Renewed(w)
      BY <1>2, <2>6, Forgotten DEF Renewed
    <3> QED
      BY <1>r, <2>1, <3>1
  <2> QED
    BY <2>5, <2>6 DEF Refreshed
<1>3. CASE destroyWindow(w)
  BY <1>3, DestroyWindowStep DEF Named
<1>4. ASSUME NEW name \in Names \cup {None}, changeName(w, name) PROVE Named(w)'
  <2> DEFINE e == Event("property", w)
  <2>1. /\ Changed(w, e) /\ e \in EventType /\ e.type = "property" /\ e.win = w
        /\ w \in x_selected => Told(queue, queue', e)
        /\ Exists(w) /\ x_selected' = x_selected
    BY <1>4, ChangeNameStep, EventTyped
  <2>2. e \in Properties(w)
    BY <2>1, EventKinds
  <2> HIDE DEF e
  <2>3. w \in x_selected => Pending(Properties(w), queue')
    BY <2>1, <2>2, ToldPending
  <2>4. setup' = setup /\ UNCHANGED <<adding, add_step>> /\ (HasDir(w)' <=> HasDir(w))
    BY <2>1, ServerStep
  <2> QED
    BY <1>h, <1>r, <2>1, <2>3, <2>4 DEF Named
<1>s. ASSUME NEW e, Changed(w, e), Exists(w), x_win'[w].name = x_win[w].name,
             x_selected' = x_selected
      PROVE  Named(w)'
  <2>1. setup' = setup /\ UNCHANGED <<adding, add_step, dir>> /\ (HasDir(w)' <=> HasDir(w))
    BY <1>s, ServerStep
  <2>2. NameMatches(w)' <=> NameMatches(w)
    BY <1>s, <2>1 DEF NameMatches
  <2>3. Pending(Properties(w), queue) => Pending(Properties(w), queue')
    BY <1>s, EventSent
  <2> QED
    BY <1>h, <1>r, <1>s, <2>1, <2>2, <2>3 DEF Named
<1>5. ASSUME NEW mapped \in BOOLEAN, mapWindow(w, mapped) PROVE Named(w)'
  BY <1>5, <1>s, MapWindowStep
<1>6. ASSUME NEW parent \in Parents, reparentWindow(w, parent) PROVE Named(w)'
  BY <1>6, <1>s, ReparentWindowStep
<1>7. CASE startUp
  BY <1>7, ListStep, WindowMirrorAssumption DEF Named
<1>8. CASE addListedWindow /\ adding' = w
  BY <1>8, AddListedStep DEF Named
<1>9. CASE addWindow /\ adding = w
  <2>1. UNCHANGED <<setup, x_win, queue>>
    BY <1>9, AddStep
  <2>2. (Exists(w)' <=> Exists(w)) /\ (Renewed(w)' <=> Renewed(w)) /\ (Refreshed' <=> Refreshed)
    BY <1>h, <2>1 DEF Exists, Renewed
  <2>3. CASE add_step' = 1 /\ adding' = w /\ (Exists(w) => w \in x_selected')
    BY <2>2, <2>3 DEF Named
  <2>4. CASE /\ add_step = 1 /\ add_step' = 0 /\ adding' = None /\ UNCHANGED x_selected
             /\ HasDir(w) => updateName(w)
             /\ ~HasDir(w) => dir'[w].name = InitialName(w)
    <3>1. dir'[w].name \in {InitialName(w), UpdatedName(w)}
      BY <1>9, <2>4, UpdateNameStep, AddStep
    <3>2. Exists(w) => NameMatches(w)'
      BY <2>1, <3>1, NameFetched
    <3>3. Refreshed /\ Exists(w) => w \in x_selected' \/ Renewed(w)'
      BY <1>9, <2>2, <2>4 DEF Named
    <3> QED
      BY <2>2, <2>4, <3>2, <3>3 DEF Named
  <2> QED
    BY <1>9, <2>3, <2>4, AddStep
<1>10. CASE handleEvent /\ Head(queue).win = w
  <2>1. /\ UNCHANGED <<setup, x_win, x_selected, add_step>>
        /\ Head(queue) \in EventType /\ to_add' = {} /\ add_step = 0 /\ adding = None
        /\ HasDir(w)' => HasDir(w)
        /\ adding' \in {None, w} /\ (adding' = w => handleCreateEvent)
    BY <1>10, HandlerStep DEF StartInv
  <2> SUFFICES ASSUME Refreshed, Exists(w), HasDir(w)', adding' # w
               PROVE  \/ Renewed(w)'
                      \/ /\ w \in x_selected
                         /\ NameMatches(w)' \/ Pending(Properties(w), queue')
    BY <1>h, <2>1 DEF Named, Exists
  <2>2. PICK types : NextEventIs(types)
    BY <1>10, HandlerStep
  <2>3. adding # w /\ HasDir(w)
    BY <2>1, WindowMirrorAssumption
  <2>4. \/ Renewed(w)
        \/ w \in x_selected /\ (NameMatches(w) \/ Pending(Properties(w), queue))
    BY <2>3 DEF Named
  <2>5. /\ Pending(Destroys(w), queue)
              => Head(queue) \in Destroys(w) \/ Pending(Destroys(w), queue')
        /\ Pending(Heeded(w), queue) => Head(queue) \in Heeded(w) \/ Pending(Heeded(w), queue')
        /\ Pending(Properties(w), queue)
              => Head(queue) \in Properties(w) \/ Pending(Properties(w), queue')
    BY <2>2, EventTaken
  <2>6. ~handleDestroyEvent
    BY <1>10, DestroyEventStep
  <2>7. Head(queue) \notin Destroys(w) \cup Heeded(w)
    <3>1. Head(queue).type # "destroy"
      BY <1>10, <2>6 DEF handleEvent, handleCreateEvent, updateProperty, updateMappedState,
                         updateParent, NextEventIs
    <3>2. CASE handleCreateEvent
      <4>1. isPseudoWindow(Head(queue))
        BY <1>10, <3>2 DEF handleCreateEvent
      <4>2. Head(queue) \notin Heeded(w)
        BY <4>1 DEF isPseudoWindow, Heeded
      <4> QED
        BY <1>10, <2>1, <3>1, <4>2, EventKinds
    <3>3. CASE ~handleCreateEvent
      <4>1. Head(queue).type # "create"
        BY <1>10, <2>6, <3>3 DEF handleEvent, updateProperty, updateMappedState,
                                 updateParent, NextEventIs
      <4> QED
        BY <1>10, <2>1, <3>1, <4>1, EventKinds, EventSets
    <3> QED
      BY <3>2, <3>3
  <2>8. Renewed(w) => Renewed(w)'
    BY <1>h, <2>1, <2>5, <2>7 DEF Renewed
  <2>9. CASE updateProperty
    <3>1. updateName(w)
      BY <1>10, <2>3, <2>9, PropertyEventStep
    <3>2. dir'[w].name = UpdatedName(w)
      BY <2>3, <3>1, UpdateNameStep
    <3>3. NameMatches(w)'
      BY <2>1, <3>2, NameFetched
    <3> QED
      BY <2>4, <2>8, <3>3
  <2>10. CASE handleCreateEvent \/ updateMappedState \/ updateParent
    <3>1. dir'[w].name = dir[w].name
      BY <1>10, <2>3, <2>10, MappedEventStep, ParentEventStep DEF handleCreateEvent
    <3>2. NameMatches(w)' <=> NameMatches(w)
      BY <2>1, <3>1 DEF NameMatches
    <3>3. Head(queue).type # "property"
      BY <2>10 DEF handleCreateEvent, updateMappedState, updateParent, NextEventIs
    <3>4. Head(queue) \notin Properties(w)
      BY <1>10, <2>1, <3>3, EventKinds
    <3> QED
      BY <2>4, <2>5, <2>8, <3>2, <3>4
  <2> QED
    BY <1>10, <2>6, <2>9, <2>10 DEF handleEvent
<1> QED
  BY <1>1, <1>2, <1>3, <1>4, <1>5, <1>6, <1>7, <1>8, <1>9, <1>10 DEF Concerns

(***************************************************************************)
(* The last name announced is the one in the file, or there was none.      *)
(***************************************************************************)
Announced(w) == HasDir(w) => announced[w] \in {"absent", dir[w].name}

(***************************************************************************)
(* A step keeps that.                                                      *)
(***************************************************************************)
LEMMA AnnouncedNext ==
    ASSUME TypeInv, NEW w \in Windows, Announced(w), Still(w) \/ Concerns(w)
    PROVE  Announced(w)'
<1> TypeOK /\ StartInv
  BY DEF TypeInv
<1>u. ASSUME HasDir(w), updateName(w) PROVE Announced(w)'
  BY <1>u, UpdateNameStep DEF Announced
<1>s. ASSUME HasDir(w)' => HasDir(w), dir'[w].name = dir[w].name, announced'[w] = announced[w]
      PROVE  Announced(w)'
  BY <1>s DEF Announced
<1>1. CASE Still(w)
  BY <1>1, <1>s DEF Still, SameMirror, HasDir
<1>c. ASSUME NEW e, Changed(w, e) PROVE Announced(w)'
  BY <1>c, <1>s, ServerStep
<1>2. ASSUME NEW override \in BOOLEAN, createWindow(w, override) PROVE Announced(w)'
  <2> DEFINE e == [type |-> "create", win |-> w, override |-> override]
  <2>1. Changed(w, e)
    BY <1>2, CreateWindowStep
  <2> QED
    BY <1>c, <2>1
<1>3. CASE destroyWindow(w)
  BY <1>3, <1>c, DestroyWindowStep
<1>4. ASSUME NEW name \in Names \cup {None}, changeName(w, name) PROVE Announced(w)'
  BY <1>4, <1>c, ChangeNameStep
<1>5. ASSUME NEW mapped \in BOOLEAN, mapWindow(w, mapped) PROVE Announced(w)'
  BY <1>5, <1>c, MapWindowStep
<1>6. ASSUME NEW parent \in Parents, reparentWindow(w, parent) PROVE Announced(w)'
  BY <1>6, <1>c, ReparentWindowStep
<1>7. CASE startUp
  BY <1>7, ListStep DEF Announced
<1>8. CASE addListedWindow /\ adding' = w
  BY <1>8, <1>s, AddListedStep DEF HasDir
<1>9. CASE addWindow /\ adding = w
  <2>1. CASE UNCHANGED <<dir, announced>>
    BY <1>s, <2>1 DEF HasDir
  <2>2. CASE HasDir(w) /\ updateName(w)
    BY <1>u, <2>2
  <2>3. CASE dir'[w].name = InitialName(w) /\ announced'[w] = InitialName(w)
    BY <2>3 DEF Announced
  <2> QED
    BY <1>9, <2>1, <2>2, <2>3, AddStep
<1>10. CASE handleEvent /\ Head(queue).win = w
  <2>1. HasDir(w)' => HasDir(w)
    BY <1>10, HandlerStep
  <2>2. CASE handleDestroyEvent
    BY <1>10, <2>2, DestroyEventStep DEF Announced
  <2>3. CASE updateProperty
    BY <1>10, <1>s, <1>u, <2>1, <2>3, PropertyEventStep
  <2>4. CASE handleCreateEvent
    BY <1>s, <2>1, <2>4 DEF handleCreateEvent
  <2>5. CASE updateMappedState
    BY <1>10, <1>s, <2>1, <2>5, MappedEventStep
  <2>6. CASE updateParent
    BY <1>10, <1>s, <2>1, <2>6, ParentEventStep
  <2> QED
    BY <1>10, <2>2, <2>3, <2>4, <2>5, <2>6 DEF handleEvent
<1> QED
  BY <1>1, <1>2, <1>3, <1>4, <1>5, <1>6, <1>7, <1>8, <1>9, <1>10 DEF Concerns

(***************************************************************************)
(* With the option and without reparenting: the last of the map events of  *)
(* a window that are under way says whether it is mapped; without any, the *)
(* file does, or the window has no directory yet and is not mapped.        *)
(***************************************************************************)
ShownMapped(w) == HasDir(w) /\ dir[w].mapped

MappedTold(w) ==
    /\ Separated(Mappings(w), Creates(w), Destroys(w), queue)
    /\ Followed(Maps(w, ~x_win[w].mapped), Maps(w, x_win[w].mapped) \cup Destroys(w), queue)
    /\ Pending(Destroys(w), queue) /\ Followed(Mappings(w), Destroys(w), queue)
           => ~x_win[w].mapped
    /\ started = 2 /\ w \notin to_add
       /\ ~Pending(Destroys(w), queue) /\ ~Pending(Mappings(w), queue)
           => (ShownMapped(w) <=> x_win[w].mapped)

MappedRight(w) == setup.handle_pseudo /\ ~setup.reparenting /\ Exists(w) => MappedTold(w)

(***************************************************************************)
(* The map event of a window that is told says whether it is mapped.       *)
(***************************************************************************)
LEMMA MappingKinds ==
    ASSUME NEW w \in Windows, NEW e \in EventType, e.win = w, NEW m \in BOOLEAN
    PROVE  /\ e \in Maps(w, m) <=> e.type = (IF m THEN "map" ELSE "unmap")
           /\ e \in Mappings(w) => e \in Maps(w, e.type = "map")
           /\ Maps(w, m) \in SUBSET About(w) /\ Maps(w, m) \subseteq Mappings(w)
           /\ e \in Maps(w, m) => /\ e \notin Maps(w, ~m)
                               /\ e \notin Creates(w) /\ e \notin Destroys(w)
<1>1. e \in Maps(w, m) <=> e.type = (IF m THEN "map" ELSE "unmap")
  BY DEF Maps, Events, About
<1>2. e \in Maps(w, ~m) <=> e.type = (IF ~m THEN "map" ELSE "unmap")
  BY DEF Maps, Events, About
<1>3. e \in Mappings(w) => e \in Maps(w, e.type = "map")
  BY EventKinds DEF Maps, Events
<1>4. Maps(w, m) \in SUBSET About(w) /\ Maps(w, m) \subseteq Mappings(w)
  BY EventSets
<1>5. e \in Maps(w, m) => e \notin Maps(w, ~m) /\ e \notin Creates(w) /\ e \notin Destroys(w)
  BY <1>1, <1>2, EventKinds
<1> QED
  BY <1>1, <1>3, <1>4, <1>5

(***************************************************************************)
(* A window is mapped or not.                                              *)
(***************************************************************************)
LEMMA MappedType ==
    ASSUME TypeOK, NEW w \in Windows, Exists(w)
    PROVE  x_win[w].mapped \in BOOLEAN
BY StateTypes

(***************************************************************************)
(* A step keeps that: the window of a map event has its directory, or a    *)
(* create event behind the map event, with a destroy event in between.     *)
(***************************************************************************)
LEMMA MappedNext ==
    ASSUME TypeInv, NEW w \in Windows, Rooted(w), Died(w), Listed(w), MappedRight(w),
           Still(w) \/ Concerns(w)
    PROVE  MappedRight(w)'
<1> TypeOK /\ StartInv
  BY DEF TypeInv
<1>a. /\ Creates(w) \in SUBSET About(w) /\ Destroys(w) \in SUBSET About(w)
      /\ Mappings(w) \in SUBSET About(w)
      /\ \A m : Maps(w, m) \in SUBSET About(w) /\ Maps(w, m) \subseteq Mappings(w)
  BY EventSets
<1>1. CASE Still(w)
  <2>1. x_win'[w] = x_win[w] /\ setup' = setup /\ started' = started
        /\ (w \in to_add' <=> w \in to_add) /\ (ShownMapped(w)' <=> ShownMapped(w))
    BY <1>1 DEF Still, SameWindow, SameMirror, ShownMapped, HasDir
  <2>2. SameQueue(w)
    BY <1>1 DEF Still
  <2> DEFINE m == x_win[w].mapped
  <2> SUFFICES ASSUME MappedTold(w) PROVE MappedTold(w)'
    BY <2>1 DEF MappedRight, Exists
  <2>3. Separated(Mappings(w), Creates(w), Destroys(w), queue')
    BY <1>a, <2>2 DEF SameQueue, MappedTold
  <2>4. Followed(Maps(w, ~m), Maps(w, m) \cup Destroys(w), queue')
    <3>1. Maps(w, m) \cup Destroys(w) \in SUBSET About(w) /\ Maps(w, ~m) \in SUBSET About(w)
      BY <1>a
    <3>2. Followed(Maps(w, ~m), Maps(w, m) \cup Destroys(w), queue)
      BY DEF MappedTold
    <3> HIDE DEF m
    <3> QED
      BY <2>2, <3>1, <3>2 DEF SameQueue
  <2>5. /\ (Pending(Destroys(w), queue') <=> Pending(Destroys(w), queue))
        /\ (Pending(Mappings(w), queue') <=> Pending(Mappings(w), queue))
        /\ (Followed(Mappings(w), Destroys(w), queue')
              <=> Followed(Mappings(w), Destroys(w), queue))
    BY <1>a, <2>2 DEF SameQueue
  <2> QED
    BY <2>1, <2>3, <2>4, <2>5 DEF MappedTold
<1>2. ASSUME NEW override \in BOOLEAN, createWindow(w, override) PROVE MappedRight(w)'
  <2> DEFINE e == [type |-> "create", win |-> w, override |-> override]
  <2>1. Changed(w, e) /\ x_win'[w].mapped = FALSE /\ ~Exists(w)
    BY <1>2, CreateWindowStep
  <2>2. e \in EventType /\ e.win = w /\ e.type = "create"
    BY <2>1, ServerStep
  <2>3. e \notin Mappings(w) /\ e \notin Destroys(w)
    BY <2>2, EventKinds
  <2> HIDE DEF e
  <2>4. setup' = setup /\ dir' = dir /\ (HasDir(w)' <=> HasDir(w))
    BY <2>1, ServerStep
  <2> SUFFICES ASSUME ~setup.reparenting PROVE MappedTold(w)'
    BY <2>4 DEF MappedRight
  <2>5. /\ Followed(Creates(w) \cup Mappings(w), Destroys(w), queue)
        /\ HasDir(w) => Pending(Destroys(w), queue)
    BY <2>1 DEF Died, Gone, Known
  <2>6. Followed(Mappings(w), Destroys(w), queue)
    BY <2>5, FewerFollowed
  <2>7. Separated(Mappings(w), Creates(w), Destroys(w), queue')
    BY <2>1, <2>3, <2>6, EventSent
  <2>8. Followed(Maps(w, TRUE), Maps(w, FALSE) \cup Destroys(w), queue')
    <3>1. Followed(Maps(w, TRUE), Maps(w, FALSE) \cup Destroys(w), queue)
      BY <1>a, <2>6, FewerFollowed
    <3> QED
      BY <1>a, <2>1, <2>3, <3>1, EventSent
  <2>9. ~Pending(Destroys(w), queue') => ~ShownMapped(w)'
    BY <2>1, <2>4, <2>5, EventSent DEF ShownMapped
  <2>10. (~x_win'[w].mapped) = TRUE
    BY <2>1
  <2> QED
    BY <2>1, <2>7, <2>8, <2>9, <2>10 DEF MappedTold
<1>3. CASE destroyWindow(w)
  BY <1>3, DestroyWindowStep DEF MappedRight
<1>s. ASSUME NEW e, Changed(w, e), e.type \in {"property", "to_root", "to_frame"}, Exists(w),
             x_win'[w].mapped = x_win[w].mapped
      PROVE  MappedRight(w)'
  <2>1. setup' = setup /\ UNCHANGED <<started, to_add>> /\ (ShownMapped(w)' <=> ShownMapped(w))
    BY <1>s, ServerStep DEF ShownMapped
  <2>2. e \notin Mappings(w) /\ e \notin Creates(w) /\ e \notin Destroys(w)
    BY <1>s, ServerStep, EventKinds
  <2> DEFINE m == x_win[w].mapped
  <2> SUFFICES ASSUME MappedTold(w) PROVE MappedTold(w)'
    BY <1>s, <2>1 DEF MappedRight
  <2>3. Separated(Mappings(w), Creates(w), Destroys(w), queue')
    BY <1>s, <2>2, EventSent DEF MappedTold
  <2>4. Followed(Maps(w, ~m), Maps(w, m) \cup Destroys(w), queue')
    <3>1. Followed(Maps(w, ~m), Maps(w, m) \cup Destroys(w), queue)
      BY DEF MappedTold
    <3>2. e \notin Maps(w, ~m)
      BY <1>a, <2>2
    <3> HIDE DEF m
    <3> QED
      BY <1>s, <3>1, <3>2, EventSent
  <2>5. /\ (Pending(Destroys(w), queue') <=> Pending(Destroys(w), queue))
        /\ (Pending(Mappings(w), queue') <=> Pending(Mappings(w), queue))
        /\ (Followed(Mappings(w), Destroys(w), queue') => Followed(Mappings(w), Destroys(w), queue))
    BY <1>s, <2>2, EventSent
  <2> QED
    BY <1>s, <2>1, <2>3, <2>4, <2>5 DEF MappedTold
<1>4. ASSUME NEW name \in Names \cup {None}, changeName(w, name) PROVE MappedRight(w)'
  BY <1>4, <1>s, ChangeNameStep, EventTyped
<1>5. ASSUME NEW mapped \in BOOLEAN, mapWindow(w, mapped) PROVE MappedRight(w)'
  <2> DEFINE e == MapEvent(w, mapped)
  <2>1. /\ Changed(w, e) /\ e.type = (IF mapped THEN "map" ELSE "unmap")
        /\ (x_root /\ IsRootChild(w)) \/ w \in x_selected => Told(queue, queue', e)
        /\ ~x_root /\ w \notin x_selected => queue' = queue
        /\ Exists(w) /\ x_win'[w].mapped = mapped
    BY <1>5, MapWindowStep
  <2> HIDE DEF e
  <2>2. e \in EventType /\ e.win = w /\ setup' = setup /\ started' = started
    BY <2>1, ServerStep
  <2>3. /\ e \in Maps(w, mapped) /\ e \notin Maps(w, ~mapped)
        /\ e \notin Creates(w) /\ e \notin Destroys(w)
    BY <2>1, <2>2, MappingKinds
  <2> SUFFICES ASSUME setup.handle_pseudo, ~setup.reparenting PROVE MappedTold(w)'
    BY <2>2 DEF MappedRight
  <2>4. IsRootChild(w) /\ MappedTold(w)
    BY <2>1 DEF Rooted, IsRootChild, MappedRight
  <2>5. CASE x_root
    <3>1. Told(queue, queue', e)
      BY <2>1, <2>4, <2>5
    <3>2. Separated(Mappings(w), Creates(w), Destroys(w), queue')
      BY <2>1, <2>3, <2>4, EventSent DEF MappedTold
    <3>3. Followed(Maps(w, ~mapped), Maps(w, mapped) \cup Destroys(w), queue')
      BY <2>3, <3>1, ToldFollowed
    <3>4. e \in Mappings(w)
      BY <1>a, <2>3
    <3>5. ~Followed(Mappings(w), Destroys(w), queue') /\ Pending(Mappings(w), queue')
      BY <3>1, <3>4, ToldFollowed, ToldPending
    <3> QED
      BY <2>1, <3>2, <3>3, <3>5 DEF MappedTold
  <2>6. CASE ~x_root
    <3>1. queue' = <<>> /\ started # 2
      BY <2>1, <2>6 DEF StartInv
    <3> QED
      BY <2>2, <3>1, EmptyQueue DEF MappedTold
  <2> QED
    BY <2>5, <2>6
<1>6. ASSUME NEW parent \in Parents, reparentWindow(w, parent) PROVE MappedRight(w)'
  BY <1>6, <1>s, ReparentWindowStep
<1>7. CASE startUp
  <2>1. /\ UNCHANGED <<setup, x_win, queue>> /\ (Exists(w)' <=> w \in Exist)
        /\ started' = 2 => to_add' = WindowList
    BY <1>7, ListStep DEF Exist, Exists
  <2>2. setup.handle_pseudo /\ Exists(w)' /\ started' = 2 => w \in to_add'
    BY <2>1 DEF WindowList
  <2> QED
    BY <2>1, <2>2 DEF MappedRight, MappedTold, Exist
<1>8. CASE addListedWindow /\ adding' = w
  <2>1. UNCHANGED <<setup, x_win, queue, started, to_add, dir>>
    BY <1>8, AddListedStep
  <2> QED
    BY <2>1 DEF MappedRight, MappedTold, ShownMapped, Exists, HasDir
<1>9. CASE addWindow /\ adding = w
  <2>1. UNCHANGED <<setup, x_win, queue, started>>
    BY <1>9, AddStep
  <2>2. CASE UNCHANGED <<dir, to_add>>
    BY <2>1, <2>2 DEF MappedRight, MappedTold, ShownMapped, Exists, HasDir
  <2>3. CASE /\ to_add' = to_add \ {w} /\ HasDir(w)'
             /\ HasDir(w) => updateName(w)
             /\ ~HasDir(w) => dir'[w].mapped = InitialMapped(w, to_add # {})
    <3> SUFFICES ASSUME MappedTold(w), Exists(w) PROVE MappedTold(w)'
      BY <2>1 DEF MappedRight, Exists
    <3>1. CASE w \in to_add
      <4>1. ~HasDir(w)
        BY <3>1 DEF StartInv, Dirs
      <4>2. ShownMapped(w)' <=> x_win'[w].mapped
        BY <2>1, <2>3, <3>1, <4>1 DEF ShownMapped, InitialMapped
      <4> QED
        BY <2>1, <4>2 DEF MappedTold
    <3>2. CASE w \notin to_add
      <4>1. to_add = {}
        BY <1>9, <3>2, AddStep, WindowMirrorAssumption DEF StartInv
      <4>2. HasDir(w) => dir'[w].mapped = dir[w].mapped
        BY <2>3, UpdateNameStep
      <4>3. ~HasDir(w) => dir'[w].mapped = FALSE
        BY <2>3, <4>1 DEF InitialMapped
      <4>4. ShownMapped(w)' <=> ShownMapped(w)
        BY <2>3, <4>2, <4>3 DEF ShownMapped
      <4> QED
        BY <2>1, <3>2, <4>4 DEF MappedTold
    <3> QED
      BY <3>1, <3>2
  <2> QED
    BY <1>9, <2>2, <2>3, AddStep
<1>10. CASE handleEvent /\ Head(queue).win = w
  <2>1. /\ UNCHANGED <<setup, x_win, started, to_add>>
        /\ Head(queue) \in EventType /\ to_add = {} /\ started = 2 /\ adding = None
        /\ \E types : NextEventIs(types)
    BY <1>10, HandlerStep
  <2> SUFFICES ASSUME setup.handle_pseudo, ~setup.reparenting, Exists(w), MappedTold(w)
               PROVE  MappedTold(w)'
    BY <2>1 DEF MappedRight, Exists
  <2> DEFINE m == x_win[w].mapped
             h == Head(queue)
  <2>m. m \in BOOLEAN
    BY MappedType
  <2>2. Separated(Mappings(w), Creates(w), Destroys(w), queue')
        /\ (h \in Mappings(w) /\ Pending(Creates(w), queue') => Pending(Destroys(w), queue'))
    BY <2>1, SeparatedTaken DEF MappedTold
  <2>3. /\ Followed(Maps(w, ~m), Maps(w, m) \cup Destroys(w), queue')
        /\ h \in Maps(w, ~m) => Pending(Maps(w, m) \cup Destroys(w), queue')
    <3>1. Followed(Maps(w, ~m), Maps(w, m) \cup Destroys(w), queue)
      BY DEF MappedTold
    <3> HIDE DEF m
    <3> QED
      BY <2>1, <3>1, EventTaken
  <2>4. /\ (Pending(Destroys(w), queue) <=> h \in Destroys(w) \/ Pending(Destroys(w), queue'))
        /\ (Pending(Mappings(w), queue) <=> h \in Mappings(w) \/ Pending(Mappings(w), queue'))
        /\ (Followed(Mappings(w), Destroys(w), queue)
              <=> /\ Followed(Mappings(w), Destroys(w), queue')
                  /\ h \in Mappings(w) => Pending(Destroys(w), queue'))
    BY <2>1, EventTaken
  <2>5. Pending(Destroys(w), queue') /\ Followed(Mappings(w), Destroys(w), queue') => ~m
    BY <2>4 DEF MappedTold
  <2>6. ASSUME ~Pending(Destroys(w), queue'), ~Pending(Mappings(w), queue')
        PROVE  ShownMapped(w)' <=> m
    <3>1. CASE handleDestroyEvent
      <4>1. h \in Destroys(w)
        BY <1>10, <2>1, <3>1, EventKinds DEF handleDestroyEvent, NextEventIs
      <4>2. h \notin Mappings(w)
        BY <1>10, <2>1, <3>1, EventKinds DEF handleDestroyEvent, NextEventIs
      <4>3. Followed(Mappings(w), Destroys(w), queue')
        BY <2>6, NothingPending
      <4>4. ~m
        BY <2>4, <4>1, <4>2, <4>3 DEF MappedTold
      <4>5. ~HasDir(w)'
        BY <1>10, <3>1, DestroyEventStep
      <4> QED
        BY <4>4, <4>5 DEF ShownMapped
    <3>2. CASE updateMappedState
      <4>1. h \in Mappings(w)
        BY <1>10, <2>1, <3>2, EventKinds DEF updateMappedState, NextEventIs
      <4>2. h \notin Maps(w, ~m)
        <5>1. ~Pending(Maps(w, m) \cup Destroys(w), queue')
          BY <1>a, <2>6 DEF Pending
        <5> HIDE DEF m, h
        <5> QED
          BY <2>3, <5>1
      <4>3. h \in Maps(w, h.type = "map")
        BY <1>10, <2>1, <4>1, <2>m, MappingKinds
      <4>4. (h.type = "map") <=> m
        <5>1. (h.type = "map") \in BOOLEAN
          OBVIOUS
        <5> HIDE DEF m, h
        <5> QED
          BY <2>m, <4>2, <4>3, <5>1
      <4>5. HasDir(w)
        <5>1. ~Pending(Creates(w), queue')
          BY <2>2, <2>6, <4>1
        <5>2. h \notin Creates(w)
          BY <1>10, <2>1, <4>1, EventKinds
        <5>3. ~Pending(Creates(w), queue)
          BY <2>1, <5>1, <5>2, EventTaken
        <5> QED
          BY <2>1, <5>3, WindowMirrorAssumption DEF Listed, Known
      <4>6. ~isIgnored(w)
        BY DEF StartInv, isIgnored
      <4>7. HasDir(w)' /\ dir'[w].mapped = (h.type = "map")
        BY <1>10, <3>2, <4>5, <4>6, MappedEventStep
      <4> QED
        BY <4>4, <4>7 DEF ShownMapped
    <3>3. CASE handleCreateEvent \/ updateProperty \/ updateParent
      <4>1. h.type \notin {"destroy", "map", "unmap"}
        BY <3>3 DEF handleCreateEvent, updateProperty, updateParent, NextEventIs
      <4>2. h \notin Destroys(w) /\ h \notin Mappings(w)
        BY <1>10, <2>1, <4>1, EventKinds
      <4>3. ShownMapped(w) <=> m
        BY <2>1, <2>4, <2>6, <4>2 DEF MappedTold
      <4>4. ShownMapped(w)' <=> ShownMapped(w)
        <5>1. CASE handleCreateEvent
          BY <5>1 DEF handleCreateEvent, ShownMapped, HasDir
        <5>2. CASE updateProperty
          <6>1. CASE HasDir(w)
            BY <1>10, <5>2, <6>1, PropertyEventStep, UpdateNameStep DEF ShownMapped
          <6>2. CASE ~HasDir(w)
            BY <1>10, <5>2, <6>2, PropertyEventStep DEF ShownMapped
          <6> QED
            BY <6>1, <6>2
        <5>3. CASE updateParent
          BY <1>10, <5>3, ParentEventStep DEF ShownMapped
        <5> QED
          BY <3>3, <5>1, <5>2, <5>3
      <4> QED
        BY <4>3, <4>4
    <3> QED
      BY <1>10, <3>1, <3>2, <3>3 DEF handleEvent
  <2> QED
    BY <2>1, <2>2, <2>3, <2>5, <2>6 DEF MappedTold
<1> QED
  BY <1>1, <1>2, <1>3, <1>4, <1>5, <1>6, <1>7, <1>8, <1>9, <1>10 DEF Concerns

(***************************************************************************)
(* With a reparenting window manager, and no id used twice: the last of    *)
(* the parent events under way names the parent; without any, the file     *)
(* does.                                                                   *)
(***************************************************************************)
ParentTold(w) ==
    /\ Followed(Parentings(w) \ Reparents(w, x_win[w].parent), Reparents(w, x_win[w].parent), queue)
    /\ HasDir(w) /\ ~Pending(Parentings(w), queue) => dir[w].parent = x_win[w].parent

ParentRight(w) == setup.reparenting /\ ~setup.recycling /\ Exists(w) => ParentTold(w)

(***************************************************************************)
(* A step keeps that: the query of a new directory finds what the last of  *)
(* the events says.                                                        *)
(***************************************************************************)
LEMMA ParentNext ==
    ASSUME TypeInv, NEW w \in Windows, Used(w), ParentRight(w), Still(w) \/ Concerns(w)
    PROVE  ParentRight(w)'
<1> TypeOK /\ StartInv
  BY DEF TypeInv
<1>a. /\ Parentings(w) \in SUBSET About(w)
      /\ \A p : Reparents(w, p) \in SUBSET About(w) /\ Reparents(w, p) \subseteq Parentings(w)
  BY EventSets
<1>1. CASE Still(w)
  <2>1. x_win'[w] = x_win[w] /\ setup' = setup /\ dir'[w] = dir[w]
    BY <1>1 DEF Still, SameWindow, SameMirror
  <2> DEFINE p == x_win[w].parent
  <2> SUFFICES ASSUME ParentTold(w) PROVE ParentTold(w)'
    BY <2>1 DEF ParentRight, Exists
  <2>2. Followed(Parentings(w) \ Reparents(w, p), Reparents(w, p), queue)
    BY DEF ParentTold
  <2>3. /\ Followed(Parentings(w) \ Reparents(w, p), Reparents(w, p), queue')
        /\ (Pending(Parentings(w), queue') <=> Pending(Parentings(w), queue))
    <3> HIDE DEF p
    <3>1. Parentings(w) \ Reparents(w, p) \in SUBSET About(w)
      BY <1>a
    <3> QED
      BY <1>1, <1>a, <2>2, <3>1 DEF Still, SameQueue
  <2> QED
    BY <2>1, <2>3 DEF ParentTold, HasDir
<1>2. ASSUME NEW override \in BOOLEAN, createWindow(w, override) PROVE ParentRight(w)'
  <2> DEFINE e == [type |-> "create", win |-> w, override |-> override]
  <2>1. Changed(w, e) /\ ~Exists(w) /\ (setup.recycling \/ w \notin used)
    BY <1>2, CreateWindowStep
  <2>2. e \in EventType /\ e.win = w /\ e.type = "create" /\ setup' = setup
        /\ (HasDir(w)' <=> HasDir(w))
    BY <2>1, ServerStep
  <2>3. e \notin Parentings(w)
    BY <2>2, EventKinds
  <2> HIDE DEF e
  <2> SUFFICES ASSUME ~setup.recycling PROVE ParentTold(w)'
    BY <2>2 DEF ParentRight
  <2>4. ~HasDir(w) /\ ~Pending(Parentings(w), queue)
    BY <1>a, <2>1, FewerPending DEF Used, Known
  <2>5. ~Pending(Parentings(w), queue')
    BY <2>1, <2>3, <2>4, EventSent
  <2>6. \A S : Followed(Parentings(w) \ S, S, queue')
    BY <2>5 DEF Pending, Followed
  <2> QED
    BY <2>2, <2>4, <2>6 DEF ParentTold
<1>3. CASE destroyWindow(w)
  BY <1>3, DestroyWindowStep DEF ParentRight
<1>s. ASSUME NEW e, Changed(w, e), e.type \in {"property", "map", "unmap"}, Exists(w),
             x_win'[w].parent = x_win[w].parent
      PROVE  ParentRight(w)'
  <2>1. setup' = setup /\ dir' = dir /\ (HasDir(w)' <=> HasDir(w))
    BY <1>s, ServerStep
  <2>2. e \notin Parentings(w)
    BY <1>s, ServerStep, EventKinds
  <2> DEFINE p == x_win[w].parent
  <2> SUFFICES ASSUME ParentTold(w) PROVE ParentTold(w)'
    BY <1>s, <2>1 DEF ParentRight
  <2>3. Followed(Parentings(w) \ Reparents(w, p), Reparents(w, p), queue)
    BY DEF ParentTold
  <2>4. /\ Followed(Parentings(w) \ Reparents(w, p), Reparents(w, p), queue')
        /\ (Pending(Parentings(w), queue') <=> Pending(Parentings(w), queue))
    <3> HIDE DEF p
    <3> QED
      BY <1>s, <2>2, <2>3, EventSent
  <2> QED
    BY <1>s, <2>1, <2>4 DEF ParentTold
<1>4. ASSUME NEW name \in Names \cup {None}, changeName(w, name) PROVE ParentRight(w)'
  BY <1>4, <1>s, ChangeNameStep, EventTyped
<1>5. ASSUME NEW mapped \in BOOLEAN, mapWindow(w, mapped) PROVE ParentRight(w)'
  BY <1>5, <1>s, MapWindowStep
<1>6. ASSUME NEW parent \in Parents, reparentWindow(w, parent) PROVE ParentRight(w)'
  <2> DEFINE e == ParentEvent(w, parent)
  <2>1. /\ Changed(w, e) /\ e.type = (IF parent = "root" THEN "to_root" ELSE "to_frame")
        /\ x_root => Told(queue, queue', e)
        /\ ~x_root /\ w \notin x_selected => queue' = queue
        /\ x_win'[w].parent = parent
    BY <1>6, ReparentWindowStep
  <2>2. e \in EventType /\ e.win = w /\ (HasDir(w)' <=> HasDir(w))
    BY <2>1, ServerStep
  <2>3. e \in Reparents(w, parent) /\ e \in Parentings(w)
    BY <1>a, <2>1, <2>2 DEF Reparents, Events, About
  <2> HIDE DEF e
  <2>4. CASE x_root
    <3>1. /\ Followed(Parentings(w) \ Reparents(w, parent), Reparents(w, parent), queue')
          /\ Pending(Parentings(w), queue')
      BY <2>1, <2>3, <2>4, ToldFollowed, ToldPending
    <3> QED
      BY <2>1, <3>1 DEF ParentRight, ParentTold
  <2>5. CASE ~x_root
    <3>1. queue' = <<>> /\ ~HasDir(w)
      BY <2>1, <2>5 DEF StartInv, Dirs, TypeOK
    <3>2. \A S, T : Followed(S, T, queue')
      BY <3>1, EmptyQueue
    <3> QED
      BY <2>2, <3>1, <3>2 DEF ParentRight, ParentTold
  <2> QED
    BY <2>4, <2>5
<1>7. CASE startUp
  BY <1>7, ListStep DEF ParentRight, ParentTold, Exists
<1>8. CASE addListedWindow /\ adding' = w
  BY <1>8, AddListedStep DEF ParentRight, ParentTold, Exists, HasDir
<1>9. CASE addWindow /\ adding = w
  <2>1. UNCHANGED <<setup, x_win, queue>>
    BY <1>9, AddStep
  <2>2. CASE UNCHANGED dir
    BY <2>1, <2>2 DEF ParentRight, ParentTold, Exists, HasDir
  <2>3. CASE /\ HasDir(w) => updateName(w)
             /\ ~HasDir(w) => dir'[w].parent = InitialParent(w)
    <3> SUFFICES ASSUME ParentTold(w), Exists(w) PROVE ParentTold(w)'
      BY <2>1 DEF ParentRight, Exists
    <3>1. CASE HasDir(w)
      <4>1. dir'[w].parent = dir[w].parent
        BY <2>3, <3>1, UpdateNameStep
      <4> QED
        BY <2>1, <3>1, <4>1 DEF ParentTold
    <3>2. CASE ~HasDir(w)
      <4>1. dir'[w].parent = x_win[w].parent
        BY <2>3, <3>2 DEF InitialParent
      <4> QED
        BY <2>1, <4>1 DEF ParentTold
    <3> QED
      BY <3>1, <3>2
  <2> QED
    BY <1>9, <2>2, <2>3, AddStep
<1>10. CASE handleEvent /\ Head(queue).win = w
  <2> DEFINE p == x_win[w].parent
             h == Head(queue)
  <2>1. /\ UNCHANGED <<setup, x_win>>
        /\ h \in EventType /\ (HasDir(w)' => HasDir(w))
        /\ \E types : NextEventIs(types)
    BY <1>10, HandlerStep
  <2> SUFFICES ASSUME ParentTold(w), Exists(w) PROVE ParentTold(w)'
    BY <2>1 DEF ParentRight, Exists
  <2>2. Followed(Parentings(w) \ Reparents(w, p), Reparents(w, p), queue)
    BY DEF ParentTold
  <2>3. /\ Followed(Parentings(w) \ Reparents(w, p), Reparents(w, p), queue')
        /\ h \in Parentings(w) \ Reparents(w, p) => Pending(Reparents(w, p), queue')
        /\ (Pending(Parentings(w), queue) <=> h \in Parentings(w) \/ Pending(Parentings(w), queue'))
    <3> HIDE DEF p
    <3> QED
      BY <2>1, <2>2, EventTaken
  <2>4. ASSUME HasDir(w)', ~Pending(Parentings(w), queue')
        PROVE  dir'[w].parent = p
    <3>1. HasDir(w)
      BY <2>1, <2>4
    <3>2. ~handleDestroyEvent
      BY <1>10, <2>4, DestroyEventStep
    <3>3. CASE updateParent
      <4>1. h \in Parentings(w)
        BY <1>10, <2>1, <3>3, EventKinds DEF updateParent, NextEventIs
      <4>2. h \in Reparents(w, p)
        <5>1. ~Pending(Reparents(w, p), queue')
          BY <1>a, <2>4 DEF Pending
        <5> HIDE DEF h, p
        <5> QED
          BY <2>3, <4>1, <5>1
      <4>3. h.type = IF p = "root" THEN "to_root" ELSE "to_frame"
        BY <4>2 DEF Reparents, Events
      <4>4. p \in {"root", "frame"}
        BY StateTypes DEF Parents
      <4>5. EventParent = p
        BY <4>3, <4>4 DEF EventParent
      <4> QED
        BY <1>10, <3>1, <3>3, <4>5, ParentEventStep
    <3>4. CASE handleCreateEvent \/ updateProperty \/ updateMappedState
      <4>1. h.type \notin {"to_root", "to_frame"}
        BY <3>4 DEF handleCreateEvent, updateProperty, updateMappedState, NextEventIs
      <4>2. h \notin Parentings(w)
        BY <1>10, <2>1, <4>1, EventKinds
      <4>3. dir[w].parent = p
        BY <2>3, <2>4, <3>1, <4>2 DEF ParentTold
      <4>4. dir'[w].parent = dir[w].parent
        <5>1. CASE handleCreateEvent
          BY <5>1 DEF handleCreateEvent
        <5>2. CASE updateProperty
          BY <1>10, <3>1, <5>2, PropertyEventStep, UpdateNameStep
        <5>3. CASE updateMappedState
          BY <1>10, <3>1, <5>3, MappedEventStep
        <5> QED
          BY <3>4, <5>1, <5>2, <5>3
      <4> QED
        BY <4>3, <4>4
    <3> QED
      BY <1>10, <3>2, <3>3, <3>4 DEF handleEvent
  <2> QED
    BY <2>1, <2>3, <2>4 DEF ParentTold
<1> QED
  BY <1>1, <1>2, <1>3, <1>4, <1>5, <1>6, <1>7, <1>8, <1>9, <1>10 DEF Concerns

-----------------------------------------------------------------------------
(* The whole invariant.                                                    *)

MirrorInv ==
    /\ TypeInv
    /\ \A w \in Windows : /\ Used(w) /\ Rooted(w) /\ Died(w) /\ Reborn(w)
                          /\ Listed(w) /\ Ignored(w)
                          /\ Named(w) /\ Announced(w) /\ MappedRight(w) /\ ParentRight(w)

(***************************************************************************)
(* The invariant holds initially.                                          *)
(***************************************************************************)
LEMMA MirrorInit ==
    ASSUME Init
    PROVE  MirrorInv
<1>1. TypeInv
  BY TypeInit
<1>2. queue = <<>> /\ started = 0 /\ used = Exist
  BY DEF Init
<1>3. ASSUME NEW w \in Windows
      PROVE  /\ Used(w) /\ Rooted(w) /\ Died(w) /\ Reborn(w)
             /\ Listed(w) /\ Ignored(w)
             /\ Named(w) /\ Announced(w) /\ MappedRight(w) /\ ParentRight(w)
  <2>1. ~HasDir(w) /\ w \notin to_add /\ adding # w
    BY WindowMirrorAssumption DEF Init, HasDir
  <2>2. \A S, T, U : ~Pending(S, queue) /\ Followed(S, T, queue) /\ Separated(S, T, U, queue)
    BY <1>2, EmptyQueue
  <2>3. Used(w)
    BY <1>2, <2>1, <2>2 DEF Used, Known, Exist
  <2>4. Rooted(w)
    <3>1. Exists(w) => x_win[w].parent \in {"root", "frame"}
      BY <1>1, StateTypes DEF TypeInv, Parents
    <3>2. Exists(w) /\ x_win[w].parent = "frame" => setup.reparenting
      BY DEF Init, Exist
    <3> QED
      BY <2>1, <2>2, <3>1, <3>2 DEF Rooted
  <2>5. Died(w) /\ Reborn(w) /\ Listed(w) /\ Ignored(w)
    BY <1>2, <2>1, <2>2 DEF Died, Gone, Reborn, Listed, Ignored, Known
  <2>6. Named(w) /\ Announced(w) /\ ParentRight(w)
    BY <2>1, <2>2 DEF Named, Announced, ParentRight, ParentTold
  <2>7. MappedRight(w)
    BY <1>2, <2>2 DEF MappedRight, MappedTold
  <2> QED
    BY <2>3, <2>4, <2>5, <2>6, <2>7
<1> QED
  BY <1>1, <1>3 DEF MirrorInv

(***************************************************************************)
(* Every step keeps the invariant: a window that is left alone by          *)
(* definition, the others case by case.                                    *)
(***************************************************************************)
LEMMA MirrorNext ==
    ASSUME MirrorInv, [Next]_vars
    PROVE  MirrorInv'
<1>1. TypeInv /\ TypeInv'
  BY TypeNext DEF MirrorInv
<1>2. ASSUME NEW w \in Windows
      PROVE  /\ Used(w)' /\ Rooted(w)' /\ Died(w)' /\ Reborn(w)'
             /\ Listed(w)' /\ Ignored(w)'
             /\ Named(w)' /\ Announced(w)' /\ MappedRight(w)' /\ ParentRight(w)'
  <2>1. Still(w) \/ Concerns(w)
    BY <1>1, StepSeen
  <2>2. /\ Used(w) /\ Rooted(w) /\ Died(w) /\ Reborn(w)
        /\ Listed(w) /\ Ignored(w)
        /\ Named(w) /\ Announced(w) /\ MappedRight(w) /\ ParentRight(w)
    BY DEF MirrorInv
  <2>3. Used(w)' /\ Rooted(w)' /\ Died(w)' /\ Reborn(w)'
    BY <1>1, <2>1, <2>2, UsedNext, RootedNext, DiedNext, RebornNext
  <2>4. Listed(w)' /\ Ignored(w)'
    BY <1>1, <2>1, <2>2, ListedNext, IgnoredNext
  <2>5. Named(w)' /\ Announced(w)' /\ MappedRight(w)' /\ ParentRight(w)'
    BY <1>1, <2>1, <2>2, NamedNext, AnnouncedNext, MappedNext, ParentNext
  <2> QED
    BY <2>3, <2>4, <2>5
<1> QED
  BY <1>1, <1>2 DEF MirrorInv

(***************************************************************************)
(* When nothing is left to be done, what xwmfs knows are the directories.  *)
(***************************************************************************)
LEMMA QuietKnown ==
    ASSUME MirrorInv, Quiet, NEW w \in Windows
    PROVE  /\ Known(w) <=> HasDir(w)
           /\ \A S : ~Pending(S, queue)
           /\ TypeOK /\ started = 2 /\ adding # w /\ w \notin to_add
           /\ w \in Dirs <=> HasDir(w)
           /\ w \in Exist <=> Exists(w)
BY EmptyQueue, WindowMirrorAssumption DEF Quiet, Known, MirrorInv, TypeInv, Dirs, Exist

(***************************************************************************)
(* When no event is left to be read every directory stands for a living    *)
(* window, unless the window manager reparents: what xwmfs knows of a dead *)
(* window has a destroy event under way.                                   *)
(***************************************************************************)
THEOREM DirsLive == Spec => []NoZombies
<1>1. ASSUME MirrorInv PROVE NoZombies
  <2> SUFFICES ASSUME Quiet, ~setup.reparenting, NEW w \in Dirs PROVE w \in Exist
    BY DEF NoZombies
  <2>1. w \in Windows
    BY DEF Dirs
  <2>2. Died(w)
    BY <1>1, <2>1 DEF MirrorInv
  <2> QED
    BY <1>1, <2>1, <2>2, QuietKnown DEF Died, Gone
<1> QED
  BY <1>1, MirrorInit, MirrorNext, PTL DEF Spec

(***************************************************************************)
(* When no event is left to be read, with --handle-pseudo-windows every    *)
(* living window has a directory, and without it no pseudo window has one. *)
(***************************************************************************)
THEOREM WindowsShownHolds == Spec => []WindowsShown
<1>1. ASSUME MirrorInv PROVE WindowsShown
  <2> SUFFICES ASSUME Quiet
               PROVE  IF setup.handle_pseudo
                      THEN Exist \subseteq Dirs
                      ELSE NoLeftovers => \A w \in Dirs \cap Exist : ~x_win[w].override
    BY DEF WindowsShown
  <2>1. \A w \in Windows : Listed(w) /\ Ignored(w)
    BY <1>1 DEF MirrorInv
  <2>2. ASSUME setup.handle_pseudo, NEW w \in Exist PROVE w \in Dirs
    <3>1. w \in Windows
      BY DEF Exist
    <3> QED
      BY <1>1, <2>1, <2>2, <3>1, QuietKnown DEF Listed
  <2>3. ASSUME ~setup.handle_pseudo, NoLeftovers, NEW w \in Dirs \cap Exist
        PROVE  ~x_win[w].override
    <3>1. w \in Windows
      BY DEF Exist
    <3> QED
      BY <1>1, <2>1, <2>3, <3>1, QuietKnown DEF Ignored
  <2> QED
    BY <2>2, <2>3
<1> QED
  BY <1>1, MirrorInit, MirrorNext, PTL DEF Spec

(***************************************************************************)
(* When no event is left to be read, the files of a directory hold the     *)
(* name, the map state and the parent of the window, and the last name     *)
(* announced is the one in the file, each as far as the setup allows.      *)
(***************************************************************************)
THEOREM DirShowsWindowHolds == Spec => []DirShowsWindow
<1>1. ASSUME MirrorInv PROVE DirShowsWindow
  <2>1. \A w \in Windows : /\ Rooted(w) /\ Named(w) /\ Announced(w)
                           /\ MappedRight(w) /\ ParentRight(w)
    BY <1>1 DEF MirrorInv
  <2>2. ASSUME NEW w \in Dirs \cap Exist
        PROVE  w \in Windows
    BY DEF Dirs
  <2>n. ASSUME Quiet, Refreshed, NEW w \in Dirs \cap Exist PROVE NameMatches(w)
    <3>1. w \in Windows /\ Named(w)
      BY <2>1, <2>2
    <3> QED
      BY <1>1, <2>n, <3>1, QuietKnown DEF Named, Renewed
  <2>3. NameMirrored
    BY <2>n DEF NameMirrored, NameMatches
  <2>4. NamesFollowed
    <3> SUFFICES ASSUME Quiet, Refreshed, NEW w \in Dirs \cap Exist, announced[w] # "absent"
                 PROVE  announced[w] = IF x_win[w].name = None THEN "empty" ELSE x_win[w].name
      BY DEF NamesFollowed
    <3>1. w \in Windows /\ NameMatches(w)
      BY <2>2, <2>n
    <3>2. announced[w] = dir[w].name
      BY <1>1, <2>1, <3>1, QuietKnown DEF Announced
    <3> QED
      BY <3>1, <3>2 DEF NameMatches
  <2>5. MappedUnframed
    <3> SUFFICES ASSUME setup.handle_pseudo, ~setup.reparenting, Quiet, NEW w \in Dirs \cap Exist
                 PROVE  dir[w].mapped = x_win[w].mapped
      BY DEF MappedUnframed, MappedMirrored
    <3>1. w \in Windows /\ MappedRight(w)
      BY <2>1, <2>2
    <3>2. HasDir(w) /\ Exists(w) /\ TypeOK
      BY <1>1, <3>1, QuietKnown
    <3>3. dir[w].mapped <=> x_win[w].mapped
      BY <1>1, <3>1, <3>2, QuietKnown DEF MappedRight, MappedTold, ShownMapped
    <3> QED
      BY <3>1, <3>2, <3>3, StateTypes
  <2>6. ParentMirrored
    <3> SUFFICES ASSUME Quiet, NoLeftovers, NEW w \in Dirs \cap Exist
                 PROVE  dir[w].parent = x_win[w].parent
      BY DEF ParentMirrored
    <3>1. w \in Windows /\ ParentRight(w) /\ Rooted(w)
      BY <2>1, <2>2
    <3>2. HasDir(w) /\ Exists(w)
      BY <1>1, <3>1, QuietKnown
    <3>3. CASE ~setup.reparenting
      BY <3>1, <3>2, <3>3 DEF Rooted
    <3>4. CASE setup.reparenting /\ ~setup.recycling
      BY <1>1, <3>1, <3>2, <3>4, QuietKnown DEF ParentRight, ParentTold
    <3> QED
      BY <3>3, <3>4 DEF NoLeftovers
  <2> QED
    BY <2>3, <2>4, <2>5, <2>6 DEF DirShowsWindow
<1> QED
  BY <1>1, MirrorInit, MirrorNext, PTL DEF Spec
=============================================================================
