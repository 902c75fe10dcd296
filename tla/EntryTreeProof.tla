---------------------------- MODULE EntryTreeProof --------------------------
(***************************************************************************)
(* Theorems about EntryTree for any objects, handles, threads, names and   *)
(* paths: the counts of references are exact, so nothing in use is freed,  *)
(* what lives is linked or marked, and paths lead to their entries.        *)
(***************************************************************************)
EXTENDS EntryTree, TLAPS, FiniteSetTheorems, WellFoundedInduction

Dirs == Objs \cup {Root}

IsLive(o) == o \in Objs /\ life[o] = "live"

(***************************************************************************)
(* The window directories, also one that was removed or is a duplicate.    *)
(***************************************************************************)
Top(o) == m_parent[o] \in {Root, None}

Unborn ==
    \A o \in Objs : life[o] = "unused" =>
        m_refcount[o] = 1 /\ ~m_deleted[o] /\ Children(o) = {}

(***************************************************************************)
(* What is linked is alive and knows its place and its name.               *)
(***************************************************************************)
LinkRight(d, n) ==
    LET o == m_objs[d][n]
    IN  /\ IsLive(o) /\ m_parent[o] = d /\ m_name[o] = n
        /\ n \in (IF d = Root THEN Windows ELSE Files)
        /\ m_deleted[o] => ev = "clear" /\ d = ev_dir

Links == \A d \in Dirs : \A n \in DOMAIN m_objs[d] : LinkRight(d, n)

(***************************************************************************)
(* Every living entry is a directory or in a living directory; the one     *)
(* without a parent is the duplicate that the event thread destroys.       *)
(***************************************************************************)
Node(o) ==
    \/ /\ m_name[o] \in Windows /\ Top(o)
       /\ m_parent[o] = None => o = ev_dir /\ ev # "delete"
    \/ m_name[o] \in Files /\ IsLive(m_parent[o]) /\ Top(m_parent[o])

Nodes == \A o \in Objs : life[o] = "live" => Node(o)

(***************************************************************************)
(* Unless it is marked it is linked.                                       *)
(***************************************************************************)
Held(o) ==
    \/ Top(o) /\ (o \in Children(Root) \/ o = ev_dir)
    \/ m_parent[o] \in Objs /\ o \in Children(m_parent[o]) /\ ~m_deleted[m_parent[o]]

Unmarked == \A o \in Objs : life[o] = "live" /\ ~m_deleted[o] => Held(o)

(***************************************************************************)
(* What the event thread is at, alone.                                     *)
(***************************************************************************)
Removal ==
    /\ ev = "idle" => ev_dir = None
    /\ ev # "idle" => /\ IsLive(ev_dir) /\ Top(ev_dir) /\ ev_dir \notin Children(Root)
                      /\ \A t \in Threads : pc[t] \in {"idle", "blocked"}
    /\ ev = "update" => m_parent[ev_dir] = None
    /\ ev \in {"update", "clear", "reap"} => ~m_deleted[ev_dir]
    /\ ev = "clear" => to_mark = {c \in Children(ev_dir) : ~m_deleted[c]}
    /\ ev # "clear" => to_mark = {}
    /\ ev = "reap" => Children(ev_dir) = {}
    /\ ev = "delete" => /\ m_parent[ev_dir] = Root
                        /\ m_deleted[ev_dir] /\ m_refcount[ev_dir] = 0

ToDelete ==
    /\ ev \notin {"clear", "reap"} => to_delete = {}
    /\ \A c \in to_delete : /\ IsLive(c) /\ m_parent[c] = ev_dir
                            /\ m_deleted[c] /\ m_refcount[c] = 0

(***************************************************************************)
(* An entry without references is being deleted, by the event thread or    *)
(* one worker.                                                             *)
(***************************************************************************)
Deletes(t, o) == pc[t] = "delete" /\ target[t] = o

Dying ==
    /\ \A o \in Objs : life[o] = "live" /\ m_refcount[o] = 0 =>
          \/ o \in to_delete
          \/ ev = "delete" /\ o = ev_dir
          \/ \E t \in Threads : Deletes(t, o)
    /\ \A t \in Threads : pc[t] = "delete" =>
          IsLive(target[t]) /\ m_deleted[target[t]] /\ m_refcount[target[t]] = 0
    /\ \A t, u \in Threads : pc[t] = "delete" /\ Deletes(u, target[t]) => t = u

(***************************************************************************)
(* Open handles are of files in directories that have been in the tree.    *)
(***************************************************************************)
Opened ==
    \A h \in Handles : handle[h] # None =>
        /\ IsLive(handle[h])
        /\ m_parent[handle[h]] \in Objs
        /\ m_parent[m_parent[handle[h]]] = Root

Working ==
    \A t \in Threads :
        /\ pc[t] = "found" => Linked(target[t])
        /\ pc[t] \in {"stat", "read", "blocked"} =>
              using[t] \in Handles /\ handle[using[t]] = target[t] /\ target[t] \in Objs
        /\ pc[t] = "read" => m_name[target[t]] \in EventFiles \/ ~m_deleted[target[t]]
        /\ pc[t] = "blocked" => m_name[target[t]] \in EventFiles

TreeInv ==
    /\ TypeOK
    /\ Unborn
    /\ Links
    /\ Nodes
    /\ Unmarked
    /\ Removal
    /\ ToDelete
    /\ Dying
    /\ Opened
    /\ Working
    /\ RefcountExact

USE DEF objects, workers, evthr, Dirs

-----------------------------------------------------------------------------
(* Sets, counts and new objects.                                           *)

(***************************************************************************)
(* The children by name.                                                   *)
(***************************************************************************)
LEMMA ChildrenAre ==
    ASSUME NEW d
    PROVE  /\ \A c : c \in Children(d) <=> \E n \in DOMAIN m_objs[d] : m_objs[d][n] = c
           /\ \A n \in DOMAIN m_objs[d] : m_objs[d][n] \in Children(d)
           /\ \A c : c \in Children(d)' <=> \E n \in DOMAIN m_objs'[d] : m_objs'[d][n] = c
BY DEF Children, Range

(***************************************************************************)
(* The counts are natural numbers, and change with their sets by one.      *)
(***************************************************************************)
LEMMA Counts ==
    ASSUME NEW o
    PROVE  /\ IsFiniteSet(HandlesOf(o)) /\ Cardinality(HandlesOf(o)) \in Nat
           /\ IsFiniteSet(ChildrenOf(o)) /\ Cardinality(ChildrenOf(o)) \in Nat
           /\ Cardinality(HandlesOf(o)) = 0 <=> HandlesOf(o) = {}
           /\ Cardinality(ChildrenOf(o)) = 0 <=> ChildrenOf(o) = {}
<1>1. HandlesOf(o) \in SUBSET Handles /\ ChildrenOf(o) \in SUBSET Objs
  BY DEF HandlesOf, ChildrenOf
<1>2. IsFiniteSet(HandlesOf(o)) /\ IsFiniteSet(ChildrenOf(o))
  BY <1>1, FS_Subset, EntryTreeAssumption
<1> QED
  BY <1>2, FS_CardinalityType, FS_EmptySet

(***************************************************************************)
(* A set of which one element goes.                                        *)
(***************************************************************************)
LEMMA OneLess ==
    ASSUME NEW S, IsFiniteSet(S), NEW x \in S
    PROVE  Cardinality(S \ {x}) = Cardinality(S) - 1
BY FS_RemoveElement

(***************************************************************************)
(* A set to which one comes.                                               *)
(***************************************************************************)
LEMMA OneMore ==
    ASSUME NEW S, IsFiniteSet(S), NEW x, x \notin S
    PROVE  Cardinality(S \cup {x}) = Cardinality(S) + 1
BY FS_AddElement

(***************************************************************************)
(* New objects are unused, one for each name, and as many as the names.    *)
(***************************************************************************)
LEMMA NewObjects ==
    ASSUME NEW names, ExistsInjection(names, Unused)
    PROVE  /\ DOMAIN New(names) = names
           /\ \A n \in names : New(names)[n] \in Unused
           /\ \A m, n \in names : New(names)[m] = New(names)[n] => m = n
           /\ \A S \in SUBSET names :
                 Cardinality({New(names)[n] : n \in S}) = Cardinality(S)
<1> DEFINE new == New(names)
<1>1. new \in Injection(names, Unused)
  BY DEF ExistsInjection, New
<1>2. new \in [names -> Unused] /\ \A m, n \in names : new[m] = new[n] => m = n
  BY <1>1 DEF Injection, IsInjective
<1> HIDE DEF new
<1>3. ASSUME NEW S \in SUBSET names PROVE Cardinality({new[n] : n \in S}) = Cardinality(S)
  <2> DEFINE f == [n \in S |-> new[n]]
             T == {new[n] : n \in S}
  <2>1. f \in Bijection(S, T)
    BY <1>2 DEF Bijection, Injection, Surjection, IsInjective
  <2>2. IsFiniteSet(T)
    <3>1. T \in SUBSET Objs
      BY <1>2 DEF Unused
    <3> QED
      BY <3>1, FS_Subset, EntryTreeAssumption
  <2>3. f \in Injection(S, T)
    BY <2>1 DEF Bijection
  <2>4. IsFiniteSet(S)
    BY <2>2, <2>3, FS_Injection
  <2> QED
    BY <2>1, <2>4, FS_Bijection DEF ExistsBijection
<1> QED
  BY <1>2, <1>3 DEF new

-----------------------------------------------------------------------------
(* Types.                                                                  *)

NameMaps == UNION {[names -> Objs] : names \in SUBSET Names}

(***************************************************************************)
(* What the map of a directory is.                                         *)
(***************************************************************************)
LEMMA NameMap ==
    /\ \A f \in NameMaps : DOMAIN f \subseteq Names /\ \A n \in DOMAIN f : f[n] \in Objs
    /\ \A names \in SUBSET Names : [names -> Objs] \subseteq NameMaps
    /\ <<>> \in NameMaps
    /\ DOMAIN <<>> = {}
<1>1. <<>> \in [{} -> Objs] /\ DOMAIN <<>> = {}
  OBVIOUS
<1>2. [{} -> Objs] \subseteq NameMaps
  BY DEF NameMaps
<1> QED
  BY <1>1, <1>2 DEF NameMaps

(***************************************************************************)
(* The names of a type invariant.                                          *)
(***************************************************************************)
ObjectsOK ==
    /\ life \in [Objs -> {"unused", "live", "freed"}]
    /\ m_name \in [Objs -> Names \cup {None}]
    /\ m_parent \in [Objs -> Objs \cup {Root, None}]
    /\ m_objs \in [Objs \cup {Root} -> NameMaps]
    /\ m_refcount \in [Objs -> Nat]
    /\ m_deleted \in [Objs -> BOOLEAN]

HandlesOK == handle \in [Handles -> Objs \cup {None}]

WorkersOK ==
    /\ pc \in [Threads -> {"idle", "found", "stat", "read", "blocked", "delete"}]
    /\ target \in [Threads -> Objs \cup {Root, None}]
    /\ using \in [Threads -> Handles \cup {None}]

EventsOK ==
    /\ ev \in {"idle", "update", "clear", "reap", "delete"}
    /\ ev_dir \in Objs \cup {None}
    /\ to_mark \subseteq Objs
    /\ to_delete \subseteq Objs

(***************************************************************************)
(* The parts of the type invariant.                                        *)
(***************************************************************************)
LEMMA Types ==
    /\ TypeOK => ObjectsOK /\ HandlesOK /\ WorkersOK /\ EventsOK
    /\ ObjectsOK' /\ HandlesOK' /\ WorkersOK' /\ EventsOK' => TypeOK'
BY DEF TypeOK, ObjectsOK, HandlesOK, WorkersOK, EventsOK, NameMaps

(***************************************************************************)
(* Children are objects.                                                   *)
(***************************************************************************)
LEMMA ChildrenType ==
    ASSUME TypeOK, NEW d \in Dirs
    PROVE  Children(d) \subseteq Objs /\ DOMAIN m_objs[d] \subseteq Names
<1>1. m_objs[d] \in NameMaps
  BY Types DEF ObjectsOK
<1> QED
  BY <1>1, NameMap, ChildrenAre

(***************************************************************************)
(* The first part of the constants' assumption, in the form the provers    *)
(* need.                                                                   *)
(***************************************************************************)
LEMMA Constants ==
    /\ Root \notin Objs /\ None \notin Objs /\ None # Root
    /\ Windows \cup Files = Names /\ None \notin Names /\ None \notin Handles
    /\ Windows \cap Files = {} /\ EventFiles \subseteq Files
BY EntryTreeAssumption DEF Names

(***************************************************************************)
(* The objects of a new directory, and those among them that are files.    *)
(***************************************************************************)
NewOf(w, files) == New({w} \cup files)

FilesOf(w, files) == {NewOf(w, files)[n] : n \in files}

(***************************************************************************)
(* What a new directory and its files are, one by one.                     *)
(***************************************************************************)
LEMMA Constructed ==
    ASSUME TypeOK, NEW w \in Windows, NEW files \in SUBSET Files, NEW parent \in {Root, None},
           Construct(w, files, NewOf(w, files), parent)
    PROVE  LET new == NewOf(w, files)
               b   == new[w]
               F   == FilesOf(w, files)
           IN  /\ b \in Unused /\ F \subseteq Unused /\ b \notin F
               /\ \A m, n \in files : new[m] = new[n] => m = n
               /\ DOMAIN Restrict(new, files) = files
               /\ \A n \in files : Restrict(new, files)[n] = new[n]
               /\ Restrict(new, files) \in NameMaps
               /\ ObjectsOK' <=> m_objs' \in [Objs \cup {Root} -> NameMaps]
                                 /\ m_deleted' \in [Objs -> BOOLEAN]
               /\ \A o \in Objs \ F : o # b =>
                     /\ life'[o] = life[o] /\ m_name'[o] = m_name[o]
                     /\ m_parent'[o] = m_parent[o] /\ m_refcount'[o] = m_refcount[o]
               /\ life'[b] = "live" /\ m_name'[b] = w /\ m_parent'[b] = parent
               /\ m_refcount'[b] = 1 + Cardinality(F)
               /\ \A n \in files : /\ life'[new[n]] = "live" /\ m_name'[new[n]] = n
                                   /\ m_parent'[new[n]] = b
                                   /\ m_refcount'[new[n]] = m_refcount[new[n]]
<1> DEFINE names == {w} \cup files
           new == New(names)
           b   == new[w]
           F   == {new[n] : n \in files}
<1> ObjectsOK
  BY Types
<1>c. w \notin files /\ names \subseteq Names
  BY Constants
<1>1. /\ DOMAIN new = names
      /\ \A n \in names : new[n] \in Unused
      /\ \A m, n \in names : new[m] = new[n] => m = n
      /\ Cardinality(F) = Cardinality(files)
  <2>1. ExistsInjection(names, Unused)
    BY DEF Construct, NewOf
  <2>2. files \in SUBSET names
    OBVIOUS
  <2> HIDE DEF names
  <2> QED
    BY <2>1, <2>2, NewObjects
<1>s. life' = [o \in Objs |-> IF o \in Range(new) THEN "live" ELSE life[o]]
  BY DEF Construct, NewOf
<1>n. m_name' = [o \in Objs |-> IF \E n \in DOMAIN new : new[n] = o
                                THEN CHOOSE n \in DOMAIN new : new[n] = o ELSE m_name[o]]
  BY DEF Construct, NewOf
<1>p. m_parent' = [o \in Objs |-> IF o = new[w] THEN parent
                                  ELSE IF \E n \in files : new[n] = o THEN new[w]
                                  ELSE m_parent[o]]
  BY DEF Construct, NewOf
<1>r. m_refcount' = [m_refcount EXCEPT ![new[w]] = 1 + Cardinality(files)]
  BY DEF Construct, NewOf, ParentRefs
<1> HIDE DEF new
<1>2. b \in Unused /\ F \subseteq Unused /\ b \notin F /\ Unused \subseteq Objs
  BY <1>1, <1>c DEF Unused
<1>3. \A o : o \in Range(new) <=> o = b \/ o \in F
  BY <1>1 DEF Range
<1>4. \A o : (\E n \in DOMAIN new : new[n] = o) <=> o = b \/ o \in F
  BY <1>1
<1>5. \A n \in names : (CHOOSE k \in DOMAIN new : new[k] = new[n]) = n
  BY <1>1
<1>6. \A n \in names : m_name'[new[n]] = n
  <2>1. \A n \in names : new[n] \in Objs /\ \E k \in DOMAIN new : new[k] = new[n]
    BY <1>1, <1>2
  <2>2. \A n \in names : m_name'[new[n]] = CHOOSE k \in DOMAIN new : new[k] = new[n]
    BY <2>1, <1>n
  <2> QED
    BY <2>2, <1>5
<1>7. \A o \in Objs \ F : o # b => m_name'[o] = m_name[o]
  BY <1>n, <1>4
<1>8. /\ \A n \in files : new[n] \in F /\ new[n] \in Objs
      /\ b \in Objs /\ Cardinality(F) \in Nat
  <2>1. F \in SUBSET Objs
    BY <1>2
  <2>2. IsFiniteSet(F)
    BY <2>1, FS_Subset, EntryTreeAssumption
  <2> QED
    BY <1>2, <2>1, <2>2, FS_CardinalityType
<1>9. /\ DOMAIN Restrict(new, files) = files
      /\ \A n \in files : Restrict(new, files)[n] = new[n]
      /\ Restrict(new, files) \in NameMaps
  <2>1. Restrict(new, files) \in [files -> Objs] /\ files \in SUBSET Names
    BY <1>8, <1>c DEF Restrict
  <2> QED
    BY <2>1, NameMap DEF Restrict
<1>10. \A o \in Objs \ F : o # b => /\ life'[o] = life[o] /\ m_parent'[o] = m_parent[o]
                                    /\ m_refcount'[o] = m_refcount[o]
  <2> SUFFICES ASSUME NEW o \in Objs \ F, o # b
               PROVE  /\ life'[o] = life[o] /\ m_parent'[o] = m_parent[o]
                      /\ m_refcount'[o] = m_refcount[o]
    OBVIOUS
  <2>1. life'[o] = life[o]
    BY <1>s, <1>3
  <2>2. m_parent'[o] = m_parent[o]
    BY <1>p
  <2>3. m_refcount'[o] = m_refcount[o]
    BY <1>r DEF ObjectsOK
  <2> QED
    BY <2>1, <2>2, <2>3
<1>11. life'[b] = "live" /\ m_parent'[b] = parent /\ m_refcount'[b] = 1 + Cardinality(F)
  <2>1. life'[b] = "live"
    BY <1>s, <1>3, <1>8
  <2>2. m_parent'[b] = parent
    BY <1>p, <1>8
  <2>3. m_refcount'[b] = 1 + Cardinality(F)
    BY <1>r, <1>1, <1>8 DEF ObjectsOK
  <2> QED
    BY <2>1, <2>2, <2>3
<1>12. \A n \in files : /\ life'[new[n]] = "live" /\ m_parent'[new[n]] = b
                        /\ m_refcount'[new[n]] = m_refcount[new[n]]
  <2> SUFFICES ASSUME NEW n \in files
               PROVE  /\ life'[new[n]] = "live" /\ m_parent'[new[n]] = b
                      /\ m_refcount'[new[n]] = m_refcount[new[n]]
    OBVIOUS
  <2>1. life'[new[n]] = "live"
    BY <1>s, <1>3, <1>8
  <2>2. m_parent'[new[n]] = b
    BY <1>p, <1>8, <1>2
  <2>3. m_refcount'[new[n]] = m_refcount[new[n]]
    BY <1>r, <1>8, <1>2 DEF ObjectsOK
  <2> QED
    BY <2>1, <2>2, <2>3
<1>13. /\ life' \in [Objs -> {"unused", "live", "freed"}]
       /\ m_name' \in [Objs -> Names \cup {None}]
       /\ m_parent' \in [Objs -> Objs \cup {Root, None}]
       /\ m_refcount' \in [Objs -> Nat]
  <2>1. life' \in [Objs -> {"unused", "live", "freed"}]
    BY <1>s DEF ObjectsOK
  <2>2. m_name' \in [Objs -> Names \cup {None}]
    <3>1. \A o \in Objs : m_name'[o] \in Names \cup {None}
      BY <1>6, <1>7, <1>c, <1>1 DEF ObjectsOK
    <3> QED
      BY <3>1, <1>n
  <2>3. m_parent' \in [Objs -> Objs \cup {Root, None}]
    BY <1>p, <1>8 DEF ObjectsOK
  <2>4. m_refcount' \in [Objs -> Nat]
    BY <1>r, <1>1, <1>8 DEF ObjectsOK
  <2> QED
    BY <2>1, <2>2, <2>3, <2>4
<1>14. ObjectsOK' <=> /\ m_objs' \in [Objs \cup {Root} -> NameMaps]
                      /\ m_deleted' \in [Objs -> BOOLEAN]
  BY <1>13 DEF ObjectsOK, NameMaps
<1> HIDE DEF F
<1>15. \A m, n \in files : new[m] = new[n] => m = n
  BY <1>1
<1>16. m_name'[b] = w /\ \A n \in files : m_name'[new[n]] = n
  BY <1>6
<1> QED
  BY <1>2, <1>7, <1>9, <1>10, <1>11, <1>12, <1>14, <1>15, <1>16 DEF F, new, NewOf, FilesOf

-----------------------------------------------------------------------------
(* The lookup.                                                             *)

(***************************************************************************)
(* Natural numbers are well-founded.                                       *)
(***************************************************************************)
LEMMA Least ==
    ASSUME NEW S \in SUBSET Nat, S # {}
    PROVE  \E n \in S : \A m \in S : n <= m
<1>1. IsWellFoundedOn(OpToRel(<, Nat), Nat)
  BY NatLessThanWellFounded
<1>2. PICK n \in S : \A m \in S : <<m, n>> \notin OpToRel(<, Nat)
  BY <1>1, WFMin
<1>3. \A m \in S : ~(m < n)
  BY <1>2 DEF OpToRel
<1> QED
  BY <1>3

IsPath(path) == path \in Seq(Names \cup {"/"}) /\ path # <<>> /\ path[1] = "/"

(***************************************************************************)
(* The next slash, or the end.                                             *)
(***************************************************************************)
LEMMA SlashFound ==
    ASSUME NEW path, IsPath(path), NEW start \in 1 .. Len(path)
    PROVE  /\ FindSlash(path, start) \in start .. Len(path)
           /\ FindSlash(path, start) < Len(path) => path[FindSlash(path, start) + 1] = "/"
           /\ \A i \in start + 1 .. FindSlash(path, start) : path[i] # "/"
<1> DEFINE S == {i \in start .. Len(path) - 1 : path[i + 1] = "/"}
           end == FindSlash(path, start)
<1>1. Len(path) \in Nat
  BY DEF IsPath
<1>2. CASE S = {}
  <2>1. end = Len(path)
    BY <1>2 DEF FindSlash
  <2>2. ASSUME NEW i \in start + 1 .. Len(path) PROVE path[i] # "/"
    <3>1. i - 1 \in start .. Len(path) - 1 /\ (i - 1) + 1 = i
      BY <1>1
    <3> QED
      BY <3>1, <1>2
  <2> HIDE DEF end
  <2> QED
    BY <1>1, <2>1, <2>2 DEF end
<1>3. CASE S # {}
  <2>1. S \in SUBSET Nat
    BY <1>1
  <2>2. \E i \in S : \A j \in S : i <= j
    BY <1>3, <2>1, Least
  <2>3. end = CHOOSE i \in S : \A j \in S : i <= j
    BY <1>3 DEF FindSlash
  <2>4. end \in S /\ \A j \in S : end <= j
    BY <2>2, <2>3
  <2> HIDE DEF end
  <2>5. ASSUME NEW i \in start + 1 .. end PROVE path[i] # "/"
    <3>1. i - 1 \in start .. Len(path) - 1 /\ (i - 1) + 1 = i /\ ~(end <= i - 1)
      BY <1>1, <2>4
    <3> QED
      BY <3>1, <2>4
  <2> QED
    BY <1>1, <2>4, <2>5 DEF end
<1> QED
  BY <1>2, <1>3

(***************************************************************************)
(* One turn of the loop of findEntry, where f is what the others do.       *)
(***************************************************************************)
Look(f, path, start) ==
    [cur_dir \in Objs \cup {Root} |->
        LET end   == FindSlash(path, start)
            entry == getEntry(cur_dir, SubSeq(path, start + 1, end))
            next  == tryCastDirEntry(entry)
        IN  IF start = Len(path) THEN TrailingSlash(cur_dir)
            ELSE IF end = Len(path) THEN entry
            ELSE IF next = None THEN None
            ELSE f[end + 1][next]]

(***************************************************************************)
(* It only depends on the turns for the rest of the path.                  *)
(***************************************************************************)
LEMMA LookAhead ==
    ASSUME NEW path, IsPath(path), NEW start \in 1 .. Len(path), NEW f, NEW g,
           \A s \in start + 1 .. Len(path) : f[s] = g[s]
    PROVE  Look(f, path, start) = Look(g, path, start)
<1>1. Len(path) \in Nat
  BY DEF IsPath
<1>2. FindSlash(path, start) # Len(path) => FindSlash(path, start) + 1 \in start + 1 .. Len(path)
  BY <1>1, SlashFound
<1>3. FindSlash(path, start) # Len(path) =>
          f[FindSlash(path, start) + 1] = g[FindSlash(path, start) + 1]
  BY <1>2
<1> QED
  BY <1>3 DEF Look

(***************************************************************************)
(* So the turns define a function.                                         *)
(***************************************************************************)
LEMMA LookExists ==
    ASSUME NEW path, IsPath(path)
    PROVE  \E f : f = [start \in 1 .. Len(path) |-> Look(f, path, start)]
<1> DEFINE npos == Len(path)
           Good(k) == \E f : f = [start \in k .. npos |-> Look(f, path, start)]
           B == {j \in Nat : j <= npos /\ ~Good(npos + 1 - j)}
<1>1. npos \in Nat /\ npos > 0
  BY DEF IsPath
<1> HIDE DEF npos
<1> SUFFICES Good(1)
  BY DEF npos
<1> SUFFICES ASSUME ~Good(1) PROVE FALSE
  OBVIOUS
<1>2. npos \in B
  <2>1. npos + 1 - npos = 1
    BY <1>1
  <2> QED
    BY <1>1, <2>1
<1>3. PICK j \in B : \A i \in B : j <= i
  <2>1. B \in SUBSET Nat /\ B # {}
    BY <1>2
  <2> HIDE DEF B
  <2> QED
    BY <2>1, Least
<1> DEFINE k == npos + 1 - j
<1>4. k \in 1 .. npos + 1 /\ ~Good(k)
  BY <1>1, <1>3
<1> HIDE DEF k
<1>5. CASE k = npos + 1
  <2> DEFINE g == [start \in k .. npos |-> Look(<<>>, path, start)]
  <2>1. k .. npos = {}
    BY <1>1, <1>5
  <2>2. g = [start \in k .. npos |-> Look(g, path, start)]
    BY <2>1
  <2> QED
    BY <1>4, <2>2
<1>6. CASE k <= npos
  <2>1. j # 0 /\ j - 1 \in Nat /\ j - 1 <= npos /\ npos + 1 - (j - 1) = k + 1
    BY <1>1, <1>3, <1>4, <1>6 DEF k
  <2>2. j - 1 \notin B
    BY <1>3, <2>1
  <2>3. Good(k + 1)
    BY <2>1, <2>2
  <2>4. PICK f : f = [start \in k + 1 .. npos |-> Look(f, path, start)]
    BY <2>3
  <2> DEFINE g == [start \in k .. npos |-> Look(f, path, start)]
  <2>5. \A s \in k + 1 .. npos : g[s] = f[s]
    <3> SUFFICES ASSUME NEW s \in k + 1 .. npos PROVE g[s] = f[s]
      OBVIOUS
    <3>1. s \in k .. npos
      BY <1>1, <1>4
    <3>2. f[s] = Look(f, path, s)
      BY <2>4
    <3> QED
      BY <3>1, <3>2
  <2> HIDE DEF g
  <2>6. ASSUME NEW s \in k .. npos PROVE Look(f, path, s) = Look(g, path, s)
    <3>1. s \in 1 .. Len(path)
      BY <1>1, <1>4 DEF npos
    <3>2. \A r \in s + 1 .. Len(path) : f[r] = g[r]
      BY <1>1, <1>4, <2>5 DEF npos
    <3> QED
      BY <3>1, <3>2, LookAhead
  <2>7. g = [start \in k .. npos |-> Look(g, path, start)]
    BY <2>6 DEF g
  <2> QED
    BY <1>4, <2>7
<1> QED
  BY <1>1, <1>4, <1>5, <1>6

(***************************************************************************)
(* And findEntry is its value for the beginning of the path.               *)
(***************************************************************************)
LEMMA Looked ==
    ASSUME NEW path, IsPath(path)
    PROVE  \E f : /\ \A start \in 1 .. Len(path) : f[start] = Look(f, path, start)
                  /\ findEntry(path) = f[1][Root]
<1> DEFINE f == CHOOSE f : f = [start \in 1 .. Len(path) |-> Look(f, path, start)]
<1>1. f = [start \in 1 .. Len(path) |-> Look(f, path, start)]
  BY LookExists
<1>2. findEntry(path) = f[1][Root]
  BY DEF findEntry, Look
<1> HIDE DEF f
<1>3. \A start \in 1 .. Len(path) : f[start] = Look(f, path, start)
  BY <1>1
<1> QED
  BY <1>2, <1>3

(***************************************************************************)
(* An element of a path names an entry if it is one name.                  *)
(***************************************************************************)
LEMMA Entries ==
    ASSUME NEW path, IsPath(path), NEW start \in 1 .. Len(path), NEW end \in start .. Len(path),
           NEW first, first = start + 1, NEW d, None \notin Children(d)
    PROVE  /\ getEntry(d, SubSeq(path, first, end)) # None =>
                  end = start + 1 /\ path[end] \in DOMAIN m_objs[d]
           /\ end = start + 1 /\ path[end] \in DOMAIN m_objs[d] =>
                  getEntry(d, SubSeq(path, first, end)) = m_objs[d][path[end]]
<1> DEFINE element == SubSeq(path, start + 1, end)
<1>1. Len(path) \in Nat /\ path \in Seq(Names \cup {"/"})
  BY DEF IsPath
<1>2. /\ Len(element) = end - start
      /\ end = start + 1 => element[1] = path[end]
  <2>1. CASE end = start
    BY <1>1, <2>1
  <2>2. CASE end # start
    <3>1. /\ start + 1 \in 1 .. Len(path) /\ end \in start + 1 .. Len(path)
          /\ end - (start + 1) + 1 = end - start
      BY <1>1, <2>2
    <3>2. Len(element) = end - (start + 1) + 1
      BY <1>1, <3>1
    <3>3. ASSUME end = start + 1 PROVE element[1] = path[end]
      BY <1>1, <3>1, <3>3
    <3> QED
      BY <3>1, <3>2, <3>3
  <2> QED
    BY <2>1, <2>2
<1> HIDE DEF element
<1>3. end - start = 1 <=> end = start + 1
  BY <1>1
<1> QED
  BY <1>2, <1>3 DEF getEntry, element

(***************************************************************************)
(* Only directories in the root are directories.                           *)
(***************************************************************************)
LEMMA LinkedKinds ==
    ASSUME TypeOK, Links
    PROVE  /\ \A n \in DOMAIN m_objs[Root] :
                 LET d == m_objs[Root][n]
                 IN  /\ d \in Objs /\ d # None /\ d # Root /\ m_parent[d] = Root /\ m_name[d] = n
                     /\ n \in Names /\ Linked(d)
                     /\ \A k \in DOMAIN m_objs[d] :
                           LET c == m_objs[d][k]
                           IN  /\ c \in Objs /\ c # None /\ c # Root
                               /\ m_parent[c] = d /\ m_name[c] = k
                               /\ k \in Names /\ Linked(c)
           /\ \A d \in Dirs : None \notin Children(d)
<1>1. ASSUME NEW n \in DOMAIN m_objs[Root], NEW d, d = m_objs[Root][n]
      PROVE  /\ d \in Objs /\ d # None /\ d # Root /\ m_parent[d] = Root /\ m_name[d] = n
             /\ n \in Names /\ Linked(d)
             /\ \A k \in DOMAIN m_objs[d] :
                   LET c == m_objs[d][k]
                   IN  /\ c \in Objs /\ c # None /\ c # Root /\ m_parent[c] = d /\ m_name[c] = k
                       /\ k \in Names /\ Linked(c)
  <2>1. LinkRight(Root, n)
    BY DEF Links
  <2>2. d \in Objs /\ m_parent[d] = Root /\ m_name[d] = n /\ n \in Names
    BY <1>1, <2>1, Constants DEF LinkRight, IsLive
  <2>3. d \in Children(Root)
    BY <1>1, ChildrenAre
  <2>4. ASSUME NEW k \in DOMAIN m_objs[d], NEW c, c = m_objs[d][k]
        PROVE  /\ c \in Objs /\ m_parent[c] = d /\ m_name[c] = k
               /\ k \in Names /\ Linked(c)
    <3>1. LinkRight(d, k)
      BY <2>2 DEF Links
    <3>2. c \in Children(d)
      BY <2>4, ChildrenAre
    <3>3. Linked(c)
      BY <3>2, <2>3 DEF Linked
    <3> QED
      BY <3>1, <3>3, <2>2, <2>4, Constants DEF LinkRight, IsLive
  <2> QED
    BY <2>2, <2>3, <2>4, Constants DEF Linked
<1>2. \A d \in Dirs : None \notin Children(d)
  BY ChildrenType, Constants
<1> QED
  BY <1>1, <1>2

(***************************************************************************)
(* What the lookup finds is linked and has this path.                      *)
(***************************************************************************)
LEMMA FoundRight ==
    ASSUME TypeOK, Links, NEW path, IsPath(path), findEntry(path) # None
    PROVE  Linked(findEntry(path)) /\ path \in PathsOf(findEntry(path))
<1> DEFINE found == findEntry(path)
           npos  == Len(path)
<1>1. npos \in Nat /\ npos >= 1 /\ path \in Seq(Names \cup {"/"}) /\ path[1] = "/"
  BY DEF IsPath
<1>2. PICK f : /\ \A start \in 1 .. npos : f[start] = Look(f, path, start)
               /\ found = f[1][Root]
  BY Looked
<1> HIDE DEF found
<1>3. found = Look(f, path, 1)[Root]
  BY <1>1, <1>2
<1>4. CASE npos = 1
  <2>1. found = Root
    BY <1>3, <1>4 DEF Look, TrailingSlash
  <2>2. path = <<"/">> /\ Append(<<>>, "/") = <<"/">>
    BY <1>1, <1>4
  <2>3. IsDir(Root)
    BY DEF IsDir
  <2> QED
    BY <2>1, <2>2, <2>3 DEF Linked, PathsOf, found
<1>5. CASE npos # 1
  <2> DEFINE end == FindSlash(path, 1)
             d   == getEntry(Root, SubSeq(path, 1 + 1, end))
  <2>1. end \in 1 .. npos /\ (end < npos => path[end + 1] = "/") /\ 1 \in 1 .. npos
    BY <1>1, SlashFound
  <2>2. found = IF end = npos THEN d
                ELSE IF tryCastDirEntry(d) = None THEN None ELSE f[end + 1][tryCastDirEntry(d)]
    BY <1>3, <1>5 DEF Look
  <2>3. d # None => end = 2 /\ path[2] \in DOMAIN m_objs[Root] /\ d = m_objs[Root][path[2]]
    BY <2>1, Entries, LinkedKinds
  <2> HIDE DEF end, d
  <2>4. d # None
    BY <2>2 DEF tryCastDirEntry, found
  <2>5. /\ d \in Objs /\ d # None /\ d # Root /\ m_parent[d] = Root
        /\ m_name[d] = path[2] /\ Linked(d) /\ end = 2
        /\ path[2] \in DOMAIN m_objs[Root] /\ d = m_objs[Root][path[2]]
    BY <2>3, <2>4, LinkedKinds
  <2>6. IsDir(d) /\ tryCastDirEntry(d) = d
    BY <2>5 DEF IsDir, tryCastDirEntry
  <2>7. CASE npos = 2
    <3>1. found = d
      BY <2>2, <2>5, <2>7
    <3>2. path = <<"/", m_name[d]>>
      BY <1>1, <2>5, <2>7
    <3> QED
      BY <2>5, <3>1, <3>2 DEF PathsOf, found
  <2>8. CASE npos # 2
    <3>1. npos >= 3 /\ path[3] = "/" /\ 3 \in 1 .. npos
      <4>1. npos >= 3 /\ 3 \in 1 .. npos
        <5>1. npos \in Nat /\ npos >= 1 /\ npos # 1 /\ npos # 2
          BY <1>1, <1>5, <2>8
        <5> HIDE DEF npos
        <5> QED
          BY <5>1
      <4>2. end < npos /\ end + 1 = 3
        BY <1>1, <2>5, <4>1
      <4> QED
        BY <2>1, <4>1, <4>2
    <3>2. found = Look(f, path, 3)[d]
      BY <1>2, <2>2, <2>5, <2>6, <2>8, <3>1
    <3>3. CASE npos = 3
      <4>1. found = d
        BY <2>5, <3>2, <3>3 DEF Look, TrailingSlash
      <4>2. path = Append(<<"/", m_name[d]>>, "/")
        <5>1. path = <<"/", m_name[d], "/">>
          BY <1>1, <2>5, <3>1, <3>3
        <5> QED
          BY <5>1
      <4> QED
        BY <2>5, <2>6, <4>1, <4>2 DEF PathsOf, found
    <3>4. CASE npos # 3
      <4> DEFINE last == FindSlash(path, 3)
                 c    == getEntry(d, SubSeq(path, 3 + 1, last))
      <4>1. last \in 3 .. npos
        BY <3>1, SlashFound
      <4>2. found = IF last = npos THEN c
                    ELSE IF tryCastDirEntry(c) = None THEN None
                    ELSE f[last + 1][tryCastDirEntry(c)]
        BY <2>5, <3>2, <3>4 DEF Look
      <4>3. c # None => last = 4 /\ path[4] \in DOMAIN m_objs[d] /\ c = m_objs[d][path[4]]
        BY <3>1, <4>1, <2>5, Entries, LinkedKinds
      <4> HIDE DEF last, c
      <4>4. c # None
        BY <4>2 DEF tryCastDirEntry, found
      <4>5. /\ c \in Objs /\ c # Root /\ m_parent[c] = d /\ m_name[c] = path[4] /\ Linked(c)
            /\ last = 4
        BY <4>3, <4>4, <2>5, LinkedKinds
      <4>6. ~IsDir(c) /\ tryCastDirEntry(c) = None
        BY <4>5, <2>5 DEF IsDir, tryCastDirEntry
      <4>7. found = c /\ npos = 4
        BY <4>2, <4>5, <4>6 DEF found
      <4>8. path = <<"/", m_name[d], "/", m_name[c]>>
        BY <1>1, <2>5, <3>1, <4>5, <4>7
      <4> QED
        BY <2>5, <4>5, <4>7, <4>8 DEF PathsOf, found
    <3> QED
      BY <3>3, <3>4
  <2> QED
    BY <2>7, <2>8
<1> QED
  BY <1>4, <1>5

(***************************************************************************)
(* And what is linked is found by its paths.                               *)
(***************************************************************************)
LEMMA AllFound ==
    ASSUME TypeOK, Links, NEW path, IsPath(path), NEW o \in Dirs, Linked(o), path \in PathsOf(o)
    PROVE  findEntry(path) = o
<1> DEFINE found == findEntry(path)
           npos  == Len(path)
<1>1. /\ npos \in Nat /\ npos >= 1 /\ path \in Seq(Names \cup {"/"}) /\ path[1] = "/"
      /\ "/" \notin Names
  BY EntryTreeAssumption DEF IsPath
<1>2. PICK f : /\ \A start \in 1 .. npos : f[start] = Look(f, path, start)
               /\ found = f[1][Root]
  BY Looked
<1> HIDE DEF found
<1>3. found = Look(f, path, 1)[Root]
  BY <1>1, <1>2
<1> SUFFICES found = o
  BY DEF found
<1>s. FindSlash(path, 1) \in 1 .. npos /\ 1 \in 1 .. npos
      /\ (FindSlash(path, 1) < npos => path[FindSlash(path, 1) + 1] = "/")
      /\ \A i \in 1 + 1 .. FindSlash(path, 1) : path[i] # "/"
  BY <1>1, SlashFound
<1>4. CASE o = Root
  <2>1. path = <<"/">>
    <3>1. path = Append(<<>>, "/")
      BY <1>4 DEF PathsOf
    <3> QED
      BY <3>1
  <2> QED
    BY <1>3, <1>4, <2>1 DEF Look, TrailingSlash
<1>5. ASSUME NEW d \in Children(Root), d = o \/ o \in Children(d), o # Root PROVE found = o
  <2>1. PICK n \in DOMAIN m_objs[Root] : m_objs[Root][n] = d
    BY <1>5, ChildrenAre
  <2>2. d \in Objs /\ d # None /\ d # Root /\ m_parent[d] = Root /\ m_name[d] = n /\ n \in Names
    BY <2>1, LinkedKinds
  <2>3. IsDir(d) /\ tryCastDirEntry(d) = d
    BY <2>2 DEF IsDir, tryCastDirEntry
  <2>4. CASE o = d
    <3>1. path = <<"/", n>> \/ path = Append(<<"/", n>>, "/")
      BY <2>2, <2>4, <2>3 DEF PathsOf
    <3>2. path = <<"/", n>> \/ path = <<"/", n, "/">>
      BY <3>1
    <3>3. path[2] = n /\ npos \in {2, 3} /\ (npos = 3 => path[3] = "/") /\ n # "/"
      BY <3>2, <2>2, <1>1
    <3>4. FindSlash(path, 1) = 2
      BY <1>s, <3>3
    <3>5. getEntry(Root, SubSeq(path, 1 + 1, 2)) = d
      BY <3>3, <2>1, Entries, LinkedKinds
    <3>6. CASE npos = 2
      BY <1>3, <3>4, <3>5, <3>6, <2>4 DEF Look
    <3>7. CASE npos = 3
      <4>1. found = f[2 + 1][d]
        BY <1>3, <3>4, <3>5, <3>7, <2>2, <2>3 DEF Look
      <4>2. 3 \in 1 .. npos /\ 2 + 1 = 3
        BY <3>7
      <4>3. found = Look(f, path, 3)[d]
        BY <4>1, <4>2, <1>2
      <4> QED
        BY <4>3, <3>7, <2>2, <2>4 DEF Look, TrailingSlash
    <3> QED
      BY <3>3, <3>6, <3>7
  <2>5. CASE o # d
    <3>1. PICK k \in DOMAIN m_objs[d] : m_objs[d][k] = o
      BY <1>5, <2>5, ChildrenAre
    <3>2. o \in Objs /\ m_parent[o] = d /\ m_name[o] = k /\ k \in Names
      BY <2>1, <3>1, LinkedKinds
    <3>3. path = <<"/", n, "/", k>>
      BY <1>5, <2>2, <3>2 DEF PathsOf, IsDir
    <3>4. npos = 4 /\ 2 \in 1 .. npos /\ 3 \in 1 .. npos /\ 4 \in 1 .. npos
          /\ path[2] = n /\ path[3] = "/" /\ path[4] = k /\ n # "/" /\ k # "/"
      <4>1. npos = 4 /\ path[2] = n /\ path[3] = "/" /\ path[4] = k
        BY <3>3
      <4> QED
        BY <4>1, <2>2, <3>2, <1>1
    <3>5. FindSlash(path, 1) = 2
      BY <1>s, <3>4
    <3>6. getEntry(Root, SubSeq(path, 1 + 1, 2)) = d
      <4>1. 1 \in 1 .. npos /\ 2 \in 1 .. npos /\ 2 = 1 + 1 /\ path[2] \in DOMAIN m_objs[Root]
        BY <1>s, <3>4
      <4>2. None \notin Children(Root)
        BY LinkedKinds
      <4>3. getEntry(Root, SubSeq(path, 1 + 1, 2)) = m_objs[Root][path[2]]
        BY <4>1, <4>2, Entries
      <4> QED
        BY <4>3, <3>4, <2>1
    <3>7. found = f[2 + 1][d]
      BY <1>3, <3>4, <3>5, <3>6, <2>2, <2>3 DEF Look
    <3>8. found = Look(f, path, 3)[d]
      <4>1. 2 + 1 = 3
        OBVIOUS
      <4> QED
        BY <3>7, <4>1, <1>2, <3>4
    <3>9. FindSlash(path, 3) = 4
      <4>1. FindSlash(path, 3) \in 3 .. npos
            /\ (FindSlash(path, 3) < npos => path[FindSlash(path, 3) + 1] = "/")
        BY <3>4, SlashFound
      <4> QED
        BY <4>1, <3>4
    <3>10. getEntry(d, SubSeq(path, 3 + 1, 4)) = o
      BY <3>4, <3>1, <2>2, Entries, LinkedKinds
    <3> QED
      BY <3>8, <3>9, <3>10, <3>4, <2>2 DEF Look
  <2> QED
    BY <2>4, <2>5
<1> QED
  BY <1>4, <1>5 DEF Linked

-----------------------------------------------------------------------------
(* FUSE workers.                                                           *)

Places == {"idle", "found", "stat", "read", "blocked", "delete"}

(***************************************************************************)
(* A worker that moves is the only one.                                    *)
(***************************************************************************)
LEMMA Continued ==
    ASSUME WorkersOK, NEW t \in Threads, NEW place \in Places, NEW o \in Dirs \cup {None},
           NEW h \in Handles \cup {None}, Continue(t, place, o, h)
    PROVE  /\ WorkersOK'
           /\ pc'[t] = place /\ target'[t] = o /\ using'[t] = h
           /\ \A u \in Threads \ {t} :
                 pc'[u] = pc[u] /\ target'[u] = target[u] /\ using'[u] = using[u]
<1>1. pc' = [pc EXCEPT ![t] = place] /\ pc \in [Threads -> Places]
  BY DEF Continue, WorkersOK, Places
<1>2. target' = [target EXCEPT ![t] = o] /\ target \in [Threads -> Objs \cup {Root, None}]
  BY DEF Continue, WorkersOK
<1>3. using' = [using EXCEPT ![t] = h] /\ using \in [Threads -> Handles \cup {None}]
  BY DEF Continue, WorkersOK
<1>4. pc' \in [Threads -> Places] /\ pc'[t] = place /\ \A u \in Threads \ {t} : pc'[u] = pc[u]
  BY <1>1
<1>5. /\ target' \in [Threads -> Objs \cup {Root, None}] /\ target'[t] = o
      /\ \A u \in Threads \ {t} : target'[u] = target[u]
  BY <1>2
<1>6. /\ using' \in [Threads -> Handles \cup {None}] /\ using'[t] = h
      /\ \A u \in Threads \ {t} : using'[u] = using[u]
  BY <1>3
<1> QED
  BY <1>4, <1>5, <1>6 DEF WorkersOK, Places

(***************************************************************************)
(* What the tree rests on when nobody changes it.                          *)
(***************************************************************************)
LEMMA TreeFrame ==
    ASSUME TreeInv, UNCHANGED <<life, m_name, m_parent, m_objs, m_deleted, evthr>>
    PROVE  Links' /\ Nodes' /\ Unmarked'
<1> Links /\ Nodes /\ Unmarked
  BY DEF TreeInv
<1>1. Links'
  BY DEF Links, LinkRight, IsLive
<1>2. Nodes'
  BY DEF Nodes, Node, IsLive, Top
<1>3. Unmarked'
  BY DEF Unmarked, Held, Top, Children
<1> QED
  BY <1>1, <1>2, <1>3

(***************************************************************************)
(* What else stays when only the workers move.                             *)
(***************************************************************************)
LEMMA RestFrame ==
    ASSUME TreeInv, UNCHANGED <<objects, handle, evthr>>
    PROVE  /\ ObjectsOK' /\ HandlesOK' /\ EventsOK'
           /\ Unborn' /\ ToDelete' /\ Opened' /\ RefcountExact'
<1> ObjectsOK /\ HandlesOK /\ EventsOK /\ Unborn /\ ToDelete /\ Opened /\ RefcountExact
  BY Types DEF TreeInv
<1>1. ObjectsOK' /\ HandlesOK' /\ EventsOK'
  BY DEF ObjectsOK, HandlesOK, EventsOK, NameMaps
<1>2. Unborn' /\ ToDelete'
  BY DEF Unborn, ToDelete, Children, IsLive
<1>3. Opened' /\ RefcountExact'
  BY DEF Opened, RefcountExact, IsLive, HandlesOf, ChildrenOf
<1> QED
  BY <1>1, <1>2, <1>3

(***************************************************************************)
(* A worker that moves without deleting keeps the rest, if it is where it  *)
(* may be.                                                                 *)
(***************************************************************************)
LEMMA WorkerMoves ==
    ASSUME TreeInv, NEW t \in Threads, UNCHANGED <<objects, handle, evthr>>, WorkersOK',
           \A u \in Threads \ {t} :
               pc'[u] = pc[u] /\ target'[u] = target[u] /\ using'[u] = using[u],
           pc[t] # "delete", pc'[t] # "delete",
           ev = "idle" \/ pc'[t] \in {"idle", "blocked"},
           pc'[t] = "found" => Linked(target'[t]),
           pc'[t] \in {"stat", "read", "blocked"} =>
               using'[t] \in Handles /\ handle[using'[t]] = target'[t] /\ target'[t] \in Objs,
           pc'[t] = "read" => m_name[target'[t]] \in EventFiles \/ ~m_deleted[target'[t]],
           pc'[t] = "blocked" => m_name[target'[t]] \in EventFiles
    PROVE  TreeInv'
<1>1. TypeOK'
  BY RestFrame, Types
<1>2. Removal'
  <2>1. Removal
    BY DEF TreeInv
  <2>2. ev # "idle" => \A u \in Threads : pc'[u] \in {"idle", "blocked"}
    BY <2>1 DEF Removal
  <2> QED
    BY <2>1, <2>2 DEF Removal, IsLive, Top, Children
<1>3. Dying'
  <2>1. Dying
    BY DEF TreeInv
  <2>2. \A u \in Threads : pc'[u] = "delete" => pc[u] = "delete" /\ target'[u] = target[u]
    OBVIOUS
  <2>3. \A u \in Threads : pc[u] = "delete" => pc'[u] = "delete" /\ target'[u] = target[u]
    OBVIOUS
  <2> QED
    BY <2>1, <2>2, <2>3 DEF Dying, Deletes, IsLive
<1>4. Working'
  <2>1. Working
    BY DEF TreeInv
  <2>2. \A o : Linked(o)' <=> Linked(o)
    BY DEF Linked, Children
  <2> SUFFICES ASSUME NEW u \in Threads
               PROVE  /\ pc'[u] = "found" => Linked(target[u])'
                      /\ pc'[u] \in {"stat", "read", "blocked"} =>
                            /\ using'[u] \in Handles /\ handle[using'[u]] = target'[u]
                            /\ target'[u] \in Objs
                      /\ pc'[u] = "read" => \/ m_name[target'[u]] \in EventFiles
                                            \/ ~m_deleted[target'[u]]
                      /\ pc'[u] = "blocked" => m_name[target'[u]] \in EventFiles
    BY DEF Working
  <2>3. pc'[u] = "found" => Linked(target'[u])
    <3>1. CASE u = t
      BY <3>1
    <3>2. CASE u # t
      BY <2>1, <3>2 DEF Working
    <3> QED
      BY <3>1, <3>2
  <2>4. CASE u = t
    BY <2>2, <2>3, <2>4 DEF Linked, Children
  <2>5. CASE u # t
    BY <2>1, <2>2, <2>3, <2>5 DEF Working, Linked, Children
  <2> QED
    BY <2>4, <2>5
<1> QED
  BY <1>1, <1>2, <1>3, <1>4, TreeFrame, RestFrame DEF TreeInv

(***************************************************************************)
(* What is linked is alive and, unless it is being removed, not marked.    *)
(***************************************************************************)
LEMMA LinkedAlive ==
    ASSUME TypeOK, Links
    PROVE  /\ \A d \in Dirs : \A c \in Children(d) :
                 /\ IsLive(c) /\ m_parent[c] = d
                 /\ m_deleted[c] => ev = "clear" /\ d = ev_dir
                 /\ m_name[c] \in (IF d = Root THEN Windows ELSE Files)
           /\ \A o : Linked(o) /\ o # Root =>
                 /\ IsLive(o)
                 /\ m_parent[o] = Root \/ (m_parent[o] \in Objs /\ m_parent[m_parent[o]] = Root)
                 /\ ev # "clear" => ~m_deleted[o]
<1>1. ASSUME NEW d \in Dirs, NEW c \in Children(d)
      PROVE  /\ IsLive(c) /\ m_parent[c] = d
             /\ m_deleted[c] => ev = "clear" /\ d = ev_dir
             /\ m_name[c] \in (IF d = Root THEN Windows ELSE Files)
  <2>1. PICK n \in DOMAIN m_objs[d] : m_objs[d][n] = c
    BY ChildrenAre
  <2>2. LinkRight(d, n)
    BY DEF Links
  <2> QED
    BY <2>1, <2>2 DEF LinkRight
<1>2. ASSUME NEW o, Linked(o), o # Root
      PROVE  /\ IsLive(o)
             /\ m_parent[o] = Root \/ (m_parent[o] \in Objs /\ m_parent[m_parent[o]] = Root)
             /\ ev # "clear" => ~m_deleted[o]
  <2>1. CASE o \in Children(Root)
    BY <1>1, <2>1
  <2>2. ASSUME NEW d \in Children(Root), o \in Children(d)
        PROVE  /\ IsLive(o)
               /\ m_parent[o] = Root \/ (m_parent[o] \in Objs /\ m_parent[m_parent[o]] = Root)
               /\ ev # "clear" => ~m_deleted[o]
    <3>1. IsLive(d) /\ m_parent[d] = Root
      BY <1>1
    <3> QED
      BY <1>1, <2>2, <3>1 DEF IsLive
  <2> QED
    BY <1>2, <2>1, <2>2 DEF Linked
<1> QED
  BY <1>1, <1>2

(***************************************************************************)
(* What is open is linked or marked.                                       *)
(***************************************************************************)
LEMMA UnmarkedLinked ==
    ASSUME TypeOK, Unmarked, Nodes, Removal, ev = "idle",
           NEW o \in Objs, life[o] = "live", ~m_deleted[o]
    PROVE  Linked(o)
<1>1. Held(o) /\ ev_dir = None /\ o # None
  BY Constants DEF Unmarked, Removal
<1>2. CASE Top(o)
  BY <1>1, <1>2, Constants DEF Held, Linked, Top
<1>3. CASE ~Top(o)
  <2>1. /\ m_parent[o] \in Objs /\ o \in Children(m_parent[o]) /\ ~m_deleted[m_parent[o]]
        /\ IsLive(m_parent[o]) /\ Top(m_parent[o]) /\ m_parent[o] # None
    BY <1>1, <1>3, Constants DEF Held, Nodes, Node
  <2>2. Held(m_parent[o])
    BY <2>1 DEF Unmarked, IsLive
  <2>3. m_parent[o] \in Children(Root)
    BY <1>1, <2>1, <2>2, Constants DEF Held, Top
  <2> QED
    BY <2>1, <2>3 DEF Linked
<1> QED
  BY <1>2, <1>3

(***************************************************************************)
(* The calls that change no entry.                                         *)
(***************************************************************************)
LEMMA LookUpKeeps ==
    ASSUME TreeInv, NEW t \in Threads, NEW path \in Paths, lookUp(t, path)
    PROVE  TreeInv'
<1> DEFINE o == findEntry(path)
<1>1. /\ ReadLockFree /\ pc[t] = "idle" /\ o # None /\ Continue(t, "found", o, None)
      /\ UNCHANGED <<objects, handle, evthr>>
  BY DEF lookUp
<1>2. Linked(o)
  BY FoundRight, <1>1, EntryTreeAssumption DEF TreeInv, IsPath
<1> HIDE DEF o
<1>3. o \in Dirs /\ WorkersOK
  BY <1>2, LinkedAlive, Types DEF TreeInv, IsLive
<1>4. /\ WorkersOK' /\ pc'[t] = "found" /\ target'[t] = o
      /\ \A u \in Threads \ {t} :
            pc'[u] = pc[u] /\ target'[u] = target[u] /\ using'[u] = using[u]
  BY <1>1, <1>3, Continued DEF Places
<1> QED
  BY <1>1, <1>2, <1>4, WorkerMoves DEF ReadLockFree

(***************************************************************************)
(* And those after which the worker is idle.                               *)
(***************************************************************************)
LEMMA GoIdleKeeps ==
    ASSUME TreeInv, NEW t \in Threads, pc[t] # "delete", GoIdle(t),
           UNCHANGED <<objects, handle, evthr>>
    PROVE  TreeInv'
<1>1. WorkersOK
  BY Types DEF TreeInv
<1>2. /\ WorkersOK' /\ pc'[t] = "idle"
      /\ \A u \in Threads \ {t} :
            pc'[u] = pc[u] /\ target'[u] = target[u] /\ using'[u] = using[u]
  BY <1>1, Continued DEF GoIdle, Places
<1> QED
  BY <1>2, WorkerMoves

(***************************************************************************)
(* An operation through an open context.                                   *)
(***************************************************************************)
LEMMA BeginOperationKeeps ==
    ASSUME TreeInv, NEW t \in Threads, NEW h \in Handles, beginOperation(t, h)
    PROVE  TreeInv'
<1>1. /\ ReadLockFree /\ pc[t] = "idle" /\ handle[h] # None /\ isOperationAllowed(handle[h])
      /\ Continue(t, "read", handle[h], h) /\ UNCHANGED <<objects, handle, evthr>>
  BY DEF beginOperation
<1>2. WorkersOK /\ handle[h] \in Objs
  BY <1>1, Types DEF TreeInv, HandlesOK
<1>3. /\ WorkersOK' /\ pc'[t] = "read" /\ target'[t] = handle[h] /\ using'[t] = h
      /\ \A u \in Threads \ {t} :
            pc'[u] = pc[u] /\ target'[u] = target[u] /\ using'[u] = using[u]
  BY <1>1, <1>2, Continued DEF Places
<1> QED
  BY <1>1, <1>2, <1>3, WorkerMoves DEF isOperationAllowed, ReadLockFree

(***************************************************************************)
(* A stat through an open context, of an entry that may be removed.        *)
(***************************************************************************)
LEMMA StatHandleKeeps ==
    ASSUME TreeInv, NEW t \in Threads, NEW h \in Handles, statHandle(t, h)
    PROVE  TreeInv'
<1>1. /\ ReadLockFree /\ pc[t] = "idle" /\ handle[h] # None
      /\ Continue(t, "stat", handle[h], h) /\ UNCHANGED <<objects, handle, evthr>>
  BY DEF statHandle
<1>2. WorkersOK /\ handle[h] \in Objs
  BY <1>1, Types DEF TreeInv, HandlesOK
<1>3. /\ WorkersOK' /\ pc'[t] = "stat" /\ target'[t] = handle[h] /\ using'[t] = h
      /\ \A u \in Threads \ {t} :
            pc'[u] = pc[u] /\ target'[u] = target[u] /\ using'[u] = using[u]
  BY <1>1, <1>2, Continued DEF Places
<1> QED
  BY <1>1, <1>2, <1>3, WorkerMoves DEF ReadLockFree

(***************************************************************************)
(* The wait for events.                                                    *)
(***************************************************************************)
LEMMA ReadEventKeeps ==
    ASSUME TreeInv, NEW t \in Threads, readEvent(t)
    PROVE  TreeInv'
<1>1. /\ UNCHANGED <<objects, handle, target, using, evthr>>
      /\ \/ /\ pc[t] = "read" /\ m_name[target[t]] \in EventFiles
            /\ pc' = [pc EXCEPT ![t] = "blocked"]
         \/ /\ pc[t] = "blocked" /\ ReadLockFree /\ pc' = [pc EXCEPT ![t] = "read"]
  BY DEF readEvent
<1>2. WorkersOK /\ Working
  BY Types DEF TreeInv
<1>3. /\ WorkersOK'
      /\ \A u \in Threads \ {t} :
            pc'[u] = pc[u] /\ target'[u] = target[u] /\ using'[u] = using[u]
      /\ target'[t] = target[t] /\ using'[t] = using[t]
      /\ \/ pc[t] = "read" /\ m_name[target[t]] \in EventFiles /\ pc'[t] = "blocked"
         \/ pc[t] = "blocked" /\ ev = "idle" /\ pc'[t] = "read"
  <2>1. pc \in [Threads -> Places]
    BY <1>2 DEF WorkersOK, Places
  <2>2. /\ pc' \in [Threads -> Places] /\ \A u \in Threads \ {t} : pc'[u] = pc[u]
        /\ \/ pc[t] = "read" /\ m_name[target[t]] \in EventFiles /\ pc'[t] = "blocked"
           \/ pc[t] = "blocked" /\ ev = "idle" /\ pc'[t] = "read"
    BY <1>1, <2>1 DEF Places, ReadLockFree
  <2> QED
    BY <1>1, <1>2, <2>2 DEF WorkersOK, Places
<1>4. /\ using[t] \in Handles /\ handle[using[t]] = target[t] /\ target[t] \in Objs
      /\ m_name[target[t]] \in EventFiles
  BY <1>2, <1>3 DEF Working
<1> QED
  BY <1>1, <1>3, <1>4, WorkerMoves

(***************************************************************************)
(* An entry that somebody holds has references; one without any is marked  *)
(* and nobody has it.                                                      *)
(***************************************************************************)
LEMMA HeldIsReferenced ==
    ASSUME TreeInv, NEW o, IsLive(o)
    PROVE  /\ m_refcount[o] \in Nat
           /\ HandlesOf(o) # {} \/ ChildrenOf(o) # {} \/ ~m_deleted[o] => m_refcount[o] > 0
           /\ m_refcount[o] = 1 /\ (HandlesOf(o) # {} \/ ChildrenOf(o) # {}) => m_deleted[o]
<1>1. o \in Objs /\ life[o] = "live"
  BY DEF IsLive
<1>2. m_refcount[o] \in Nat
  BY <1>1, Types DEF TreeInv, ObjectsOK
<1>3. m_refcount[o] = (IF m_deleted[o] THEN 0 ELSE 1)
                      + Cardinality(HandlesOf(o)) + Cardinality(ChildrenOf(o))
  BY <1>1 DEF TreeInv, RefcountExact
<1> DEFINE a == Cardinality(HandlesOf(o))
           b == Cardinality(ChildrenOf(o))
<1>4. /\ a \in Nat /\ b \in Nat
      /\ a = 0 <=> HandlesOf(o) = {}
      /\ b = 0 <=> ChildrenOf(o) = {}
  BY Counts
<1> HIDE DEF a, b
<1>5. CASE m_deleted[o]
  <2>1. m_refcount[o] = a + b
    BY <1>3, <1>4, <1>5 DEF a, b
  <2> QED
    BY <1>2, <1>4, <1>5, <2>1
<1>6. CASE ~m_deleted[o]
  <2>1. m_refcount[o] = 1 + a + b
    BY <1>3, <1>4, <1>6 DEF a, b
  <2> QED
    BY <1>2, <1>4, <1>6, <2>1
<1> QED
  BY <1>5, <1>6

(***************************************************************************)
(* An open context is one reference more ...                               *)
(***************************************************************************)
LEMMA CreateOpenContextKeeps ==
    ASSUME TreeInv, NEW t \in Threads, NEW h \in Handles, createOpenContext(t, h)
    PROVE  TreeInv'
<1> DEFINE o == target[t]
<1>1. /\ pc[t] = "found" /\ ~IsDir(o) /\ handle[h] = None
      /\ handle' = [handle EXCEPT ![h] = o]
      /\ m_refcount' = [m_refcount EXCEPT ![o] = @ + 1]
      /\ GoIdle(t)
      /\ UNCHANGED <<life, m_name, m_parent, m_objs, m_deleted, evthr>>
  BY DEF createOpenContext, ContextRef
<1>t. ObjectsOK /\ HandlesOK /\ WorkersOK /\ EventsOK
  BY Types DEF TreeInv
<1>i. /\ TypeOK /\ Links /\ Removal /\ Working /\ Dying /\ Opened /\ RefcountExact /\ Unborn
      /\ ToDelete
  BY DEF TreeInv
<1>2. ev = "idle"
  BY <1>1, <1>i DEF Removal
<1>3. /\ o \in Objs /\ IsLive(o) /\ ~m_deleted[o] /\ o # None
      /\ m_parent[o] \in Objs /\ m_parent[m_parent[o]] = Root
  <2>1. Linked(o) /\ o # Root /\ m_parent[o] # Root
    BY <1>1, <1>i DEF Working, IsDir
  <2> QED
    BY <2>1, <1>2, <1>i, LinkedAlive, Constants DEF IsLive
<1> HIDE DEF o
<1>4. /\ WorkersOK' /\ pc'[t] = "idle"
      /\ \A u \in Threads \ {t} :
            pc'[u] = pc[u] /\ target'[u] = target[u] /\ using'[u] = using[u]
  <2>1. "idle" \in Places /\ Continue(t, "idle", None, None)
    BY <1>1 DEF GoIdle, Places
  <2> QED
    BY <2>1, <1>t, Continued
<1>5. /\ m_refcount' \in [Objs -> Nat] /\ m_refcount'[o] = m_refcount[o] + 1
      /\ \A x \in Objs \ {o} : m_refcount'[x] = m_refcount[x]
      /\ m_refcount[o] \in Nat /\ m_refcount[o] > 0
  <2>1. m_refcount \in [Objs -> Nat] /\ m_refcount[o] > 0
    BY <1>t, <1>3, HeldIsReferenced DEF ObjectsOK
  <2> QED
    BY <1>1, <1>3, <2>1
<1>6. /\ handle' \in [Handles -> Objs \cup {None}] /\ handle'[h] = o
      /\ \A k \in Handles \ {h} : handle'[k] = handle[k]
  BY <1>1, <1>3, <1>t DEF HandlesOK
<1>7. TypeOK'
  <2>1. ObjectsOK'
    BY <1>1, <1>5, <1>t DEF ObjectsOK, NameMaps
  <2>2. HandlesOK' /\ EventsOK'
    BY <1>1, <1>6, <1>t DEF HandlesOK, EventsOK
  <2> QED
    BY <2>1, <2>2, <1>4, Types
<1>8. Links' /\ Nodes' /\ Unmarked'
  BY <1>1, TreeFrame
<1>9. Unborn' /\ ToDelete'
  <2>1. \A x \in Objs : x # o => m_refcount'[x] = m_refcount[x]
    BY <1>5
  <2>2. Unborn'
    BY <1>1, <1>3, <1>i, <2>1 DEF Unborn, Children, IsLive
  <2>3. ToDelete'
    BY <1>1, <1>2, <1>i DEF ToDelete
  <2> QED
    BY <2>2, <2>3
<1>10. Removal'
  BY <1>1, <1>2, <1>i DEF Removal
<1>11. Dying'
  <2>1. \A x \in Objs : m_refcount'[x] = 0 => m_refcount[x] = 0 /\ x # o
    BY <1>5
  <2>2. \A u \in Threads : pc'[u] = "delete" =>
            pc[u] = "delete" /\ target'[u] = target[u] /\ IsLive(target[u]) /\ target[u] # o
    BY <1>4, <1>5, <1>i DEF Dying
  <2>3. \A u \in Threads : pc[u] = "delete" => pc'[u] = "delete" /\ target'[u] = target[u]
    BY <1>1, <1>4
  <2>4. \A x \in Objs : life'[x] = "live" /\ m_refcount'[x] = 0 =>
            \E u \in Threads : Deletes(u, x)'
    BY <2>1, <2>3, <1>1, <1>2, <1>i DEF Dying, Deletes, ToDelete
  <2>5. \A u \in Threads : pc'[u] = "delete" =>
            IsLive(target[u])' /\ m_deleted'[target'[u]] /\ m_refcount'[target'[u]] = 0
    BY <2>2, <1>1, <1>5, <1>i DEF Dying, IsLive
  <2>6. \A u, v \in Threads : pc'[u] = "delete" /\ Deletes(v, target[u])' => u = v
    BY <2>2, <1>i DEF Dying, Deletes
  <2> QED
    BY <2>2, <2>4, <2>5, <2>6 DEF Dying, IsLive
<1>12. Opened'
  BY <1>1, <1>3, <1>6, <1>i DEF Opened, IsLive
<1>13. Working'
  <2> SUFFICES ASSUME NEW u \in Threads
               PROVE  /\ pc'[u] = "found" => Linked(target[u])'
                      /\ pc'[u] \in {"stat", "read", "blocked"} =>
                            /\ using'[u] \in Handles /\ handle'[using'[u]] = target'[u]
                            /\ target'[u] \in Objs
                      /\ pc'[u] = "read" => \/ m_name'[target'[u]] \in EventFiles
                                            \/ ~m_deleted'[target'[u]]
                      /\ pc'[u] = "blocked" => m_name'[target'[u]] \in EventFiles
    BY DEF Working
  <2>1. CASE u = t
    BY <1>4, <2>1
  <2>2. CASE u # t
    <3>1. pc[u] \in {"stat", "read", "blocked"} => using[u] # h
      BY <1>1, <1>i, Constants DEF Working
    <3>2. Linked(target[u])' <=> Linked(target[u])
      BY <1>1, <1>4, <2>2 DEF Linked, Children
    <3> QED
      BY <1>1, <1>4, <1>6, <1>i, <2>2, <3>1, <3>2 DEF Working
  <2> QED
    BY <2>1, <2>2
<1>14. RefcountExact'
  <2> SUFFICES ASSUME NEW x \in Objs, life[x] = "live"
               PROVE  m_refcount'[x] = (IF m_deleted'[x] THEN 0 ELSE 1)
                           + Cardinality(HandlesOf(x)') + Cardinality(ChildrenOf(x)')
    BY <1>1 DEF RefcountExact
  <2>0. /\ m_refcount[x] = (IF m_deleted[x] THEN 0 ELSE 1)
                           + Cardinality(HandlesOf(x)) + Cardinality(ChildrenOf(x))
        /\ m_deleted'[x] = m_deleted[x]
    BY <1>1, <1>i DEF RefcountExact
  <2>1. ChildrenOf(x)' = ChildrenOf(x)
    BY <1>1 DEF ChildrenOf
  <2>2. CASE x = o
    <3>1. HandlesOf(x)' = HandlesOf(x) \cup {h} /\ h \notin HandlesOf(x)
      BY <1>1, <1>3, <1>6, <2>2 DEF HandlesOf
    <3>2. Cardinality(HandlesOf(x)') = Cardinality(HandlesOf(x)) + 1
      BY <3>1, Counts, OneMore
    <3> QED
      BY <2>0, <2>1, <2>2, <3>2, <1>5, Counts
  <2>3. CASE x # o
    <3>1. HandlesOf(x)' = HandlesOf(x)
      BY <1>1, <1>6, <2>3, Constants DEF HandlesOf
    <3> QED
      BY <2>0, <2>1, <2>3, <3>1, <1>5
  <2> QED
    BY <2>2, <2>3
<1> QED
  BY <1>7, <1>8, <1>9, <1>10, <1>11, <1>12, <1>13, <1>14 DEF TreeInv

(***************************************************************************)
(* ... until its release, after which somebody has to delete the entry.    *)
(***************************************************************************)
LEMMA DestroyOpenContextKeeps ==
    ASSUME TreeInv, NEW t \in Threads, NEW h \in Handles, destroyOpenContext(t, h)
    PROVE  TreeInv'
<1> DEFINE o == handle[h]
<1>1. /\ ev = "idle" /\ pc[t] = "idle" /\ o # None
      /\ \A u \in Threads : using[u] # h
      /\ handle' = [handle EXCEPT ![h] = None]
      /\ m_refcount' = [m_refcount EXCEPT ![o] = @ - 1]
      /\ DeleteOrGoIdle(t, o, LastRef(o))
      /\ UNCHANGED <<life, m_name, m_parent, m_objs, m_deleted, evthr>>
  <2>1. \A u \in Threads : using[u] # h
    BY Zenon DEF destroyOpenContext
  <2> QED
    BY <2>1 DEF destroyOpenContext, ReadLockFree
<1>t. ObjectsOK /\ HandlesOK /\ WorkersOK /\ EventsOK
  BY Types DEF TreeInv
<1>i. /\ TypeOK /\ Links /\ Removal /\ Working /\ Dying /\ Opened /\ RefcountExact /\ Unborn
      /\ ToDelete
  BY DEF TreeInv
<1>3. o \in Objs /\ IsLive(o) /\ h \in HandlesOf(o) /\ (m_refcount[o] = 1 => m_deleted[o])
      /\ m_refcount[o] \in Nat /\ m_refcount[o] > 0
  <2>1. IsLive(o) /\ h \in HandlesOf(o)
    BY <1>1, <1>i DEF Opened, HandlesOf
  <2> QED
    BY <2>1, HeldIsReferenced DEF IsLive
<1> HIDE DEF o
<1>4. /\ WorkersOK'
      /\ m_refcount[o] = 1 => pc'[t] = "delete" /\ target'[t] = o
      /\ m_refcount[o] # 1 => pc'[t] = "idle"
      /\ \A u \in Threads \ {t} :
            pc'[u] = pc[u] /\ target'[u] = target[u] /\ using'[u] = using[u]
  <2>1. CASE m_refcount[o] = 1
    <3>1. Continue(t, "delete", o, None)
      BY <1>1, <2>1 DEF DeleteOrGoIdle, LastRef
    <3> QED
      BY <3>1, <1>t, <1>3, <2>1, Continued DEF Places
  <2>2. CASE m_refcount[o] # 1
    <3>1. Continue(t, "idle", None, None)
      BY <1>1, <2>2 DEF DeleteOrGoIdle, LastRef, GoIdle
    <3> QED
      BY <3>1, <1>t, <2>2, Continued DEF Places
  <2> QED
    BY <2>1, <2>2
<1>5. /\ m_refcount' \in [Objs -> Nat] /\ m_refcount'[o] = m_refcount[o] - 1
      /\ \A x \in Objs \ {o} : m_refcount'[x] = m_refcount[x]
  <2>1. m_refcount \in [Objs -> Nat]
    BY <1>t DEF ObjectsOK
  <2> QED
    BY <1>1, <1>3, <2>1
<1>6. /\ handle' \in [Handles -> Objs \cup {None}] /\ handle'[h] = None
      /\ \A k \in Handles \ {h} : handle'[k] = handle[k]
  BY <1>1, <1>t DEF HandlesOK
<1>7. TypeOK'
  <2>1. ObjectsOK'
    BY <1>1, <1>5, <1>t DEF ObjectsOK, NameMaps
  <2>2. HandlesOK' /\ EventsOK'
    BY <1>1, <1>6, <1>t DEF HandlesOK, EventsOK
  <2> QED
    BY <2>1, <2>2, <1>4, Types
<1>8. Links' /\ Nodes' /\ Unmarked'
  BY <1>1, TreeFrame
<1>9. Unborn' /\ ToDelete'
  <2>1. \A x \in Objs : x # o => m_refcount'[x] = m_refcount[x]
    BY <1>5
  <2>2. Unborn'
    BY <1>1, <1>3, <1>i, <2>1 DEF Unborn, Children, IsLive
  <2>3. ToDelete'
    BY <1>1, <1>i DEF ToDelete
  <2> QED
    BY <2>2, <2>3
<1>10. Removal'
  BY <1>1, <1>i DEF Removal
<1>11. Dying'
  <2>1. \A x \in Objs : m_refcount'[x] = 0 => m_refcount[x] = 0 \/ (x = o /\ m_refcount[o] = 1)
    BY <1>3, <1>5
  <2>2. \A u \in Threads \ {t} : pc'[u] = "delete" =>
            pc[u] = "delete" /\ target'[u] = target[u] /\ IsLive(target[u]) /\ target[u] # o
    BY <1>3, <1>4, <1>i DEF Dying
  <2>3. \A u \in Threads : pc[u] = "delete" => pc'[u] = "delete" /\ target'[u] = target[u]
    BY <1>1, <1>4
  <2>4. \A x \in Objs : life'[x] = "live" /\ m_refcount'[x] = 0 =>
            \E u \in Threads : Deletes(u, x)'
    BY <2>1, <2>3, <1>1, <1>4, <1>i DEF Dying, Deletes, ToDelete
  <2>5. \A u \in Threads : pc'[u] = "delete" =>
            IsLive(target[u])' /\ m_deleted'[target'[u]] /\ m_refcount'[target'[u]] = 0
    <3>1. ASSUME NEW u \in Threads \ {t}, pc'[u] = "delete"
          PROVE  IsLive(target[u])' /\ m_deleted'[target'[u]] /\ m_refcount'[target'[u]] = 0
      BY <2>2, <3>1, <1>1, <1>5, <1>i DEF Dying, IsLive
    <3>2. ASSUME pc'[t] = "delete"
          PROVE  IsLive(target[t])' /\ m_deleted'[target'[t]] /\ m_refcount'[target'[t]] = 0
      BY <3>2, <1>1, <1>3, <1>4, <1>5 DEF IsLive
    <3> QED
      BY <3>1, <3>2
  <2>6. \A u, v \in Threads : pc'[u] = "delete" /\ Deletes(v, target[u])' => u = v
    <3> SUFFICES ASSUME NEW u \in Threads, NEW v \in Threads,
                        pc'[u] = "delete", pc'[v] = "delete", target'[u] = target'[v]
                 PROVE  u = v
      BY DEF Deletes
    <3>1. CASE u # t /\ v # t
      BY <3>1, <2>2, <1>i DEF Dying, Deletes
    <3>2. CASE u = t \/ v = t
      BY <3>2, <2>2, <1>4
    <3> QED
      BY <3>1, <3>2
  <2> QED
    BY <2>4, <2>5, <2>6 DEF Dying, IsLive
<1>12. Opened'
  BY <1>1, <1>6, <1>i DEF Opened, IsLive
<1>13. Working'
  <2> SUFFICES ASSUME NEW u \in Threads
               PROVE  /\ pc'[u] = "found" => Linked(target[u])'
                      /\ pc'[u] \in {"stat", "read", "blocked"} =>
                            /\ using'[u] \in Handles /\ handle'[using'[u]] = target'[u]
                            /\ target'[u] \in Objs
                      /\ pc'[u] = "read" => \/ m_name'[target'[u]] \in EventFiles
                                            \/ ~m_deleted'[target'[u]]
                      /\ pc'[u] = "blocked" => m_name'[target'[u]] \in EventFiles
    BY DEF Working
  <2>1. CASE u = t
    BY <1>4, <2>1
  <2>2. CASE u # t
    <3>2. Linked(target[u])' <=> Linked(target[u])
      BY <1>1, <1>4, <2>2 DEF Linked, Children
    <3> QED
      BY <1>1, <1>4, <1>6, <1>i, <2>2, <3>2 DEF Working
  <2> QED
    BY <2>1, <2>2
<1>14. RefcountExact'
  <2> SUFFICES ASSUME NEW x \in Objs, life[x] = "live"
               PROVE  m_refcount'[x] = (IF m_deleted'[x] THEN 0 ELSE 1)
                           + Cardinality(HandlesOf(x)') + Cardinality(ChildrenOf(x)')
    BY <1>1 DEF RefcountExact
  <2>0. /\ m_refcount[x] = (IF m_deleted[x] THEN 0 ELSE 1)
                           + Cardinality(HandlesOf(x)) + Cardinality(ChildrenOf(x))
        /\ m_deleted'[x] = m_deleted[x]
    BY <1>1, <1>i DEF RefcountExact
  <2>1. ChildrenOf(x)' = ChildrenOf(x)
    BY <1>1 DEF ChildrenOf
  <2>2. CASE x = o
    <3>1. HandlesOf(x)' = HandlesOf(x) \ {h}
      BY <1>1, <1>3, <1>6, <2>2 DEF HandlesOf
    <3>2. Cardinality(HandlesOf(x)') = Cardinality(HandlesOf(x)) - 1
      BY <3>1, <2>2, <1>3, Counts, OneLess
    <3> QED
      BY <2>0, <2>1, <2>2, <3>2, <1>5, Counts
  <2>3. CASE x # o
    <3>1. HandlesOf(x)' = HandlesOf(x)
      BY <1>1, <1>3, <1>6, <2>3, Constants DEF HandlesOf, o
    <3> QED
      BY <2>0, <2>1, <2>3, <3>1, <1>5
  <2> QED
    BY <2>2, <2>3
<1> QED
  BY <1>7, <1>8, <1>9, <1>10, <1>11, <1>12, <1>13, <1>14 DEF TreeInv

-----------------------------------------------------------------------------
(* Deletions.                                                              *)

(***************************************************************************)
(* An entry without references that is not linked can be destroyed.        *)
(***************************************************************************)
LEMMA Destroyed ==
    ASSUME TreeInv, NEW o, IsLive(o), HandlesOf(o) = {}, ChildrenOf(o) = {},
           \A d \in Dirs : o \notin Children(d), ev # "clear", Destroy(o),
           UNCHANGED <<m_name, m_parent, m_objs, m_deleted, handle>>,
           UNCHANGED <<ev, ev_dir>> \/ ev_dir = o
    PROVE  /\ life'[o] = "freed" /\ \A x \in Objs \ {o} : life'[x] = life[x]
           /\ \A x \in Objs : /\ x # m_parent[o] => m_refcount'[x] = m_refcount[x]
                              /\ x = m_parent[o] => /\ m_refcount'[x] = m_refcount[x] - 1
                                                    /\ m_refcount[x] \in Nat /\ m_refcount[x] > 0
                                                    /\ IsLive(x)
                                                    /\ m_refcount[x] = 1 => m_deleted[x]
           /\ ObjectsOK' /\ HandlesOK' /\ Unborn' /\ Links' /\ Nodes' /\ Unmarked'
           /\ Opened' /\ RefcountExact'
<1> DEFINE p == m_parent[o]
<1>t. ObjectsOK /\ HandlesOK
  BY Types DEF TreeInv
<1>i. TypeOK /\ Unborn /\ Links /\ Nodes /\ Unmarked /\ Opened /\ RefcountExact
  BY DEF TreeInv
<1>0. o \in Objs /\ life[o] = "live"
  BY DEF IsLive
<1>1. /\ life' \in [Objs -> {"unused", "live", "freed"}]
      /\ life'[o] = "freed" /\ \A x \in Objs \ {o} : life'[x] = life[x]
  BY <1>0, <1>t DEF Destroy, ObjectsOK
<1>2. p \in Objs => /\ IsLive(p) /\ o \in ChildrenOf(p)
                    /\ m_refcount[p] \in Nat /\ m_refcount[p] > 0
                    /\ m_refcount[p] = 1 => m_deleted[p]
  <2> SUFFICES ASSUME p \in Objs
               PROVE  /\ IsLive(p) /\ o \in ChildrenOf(p)
                      /\ m_refcount[p] \in Nat /\ m_refcount[p] > 0
                      /\ m_refcount[p] = 1 => m_deleted[p]
    OBVIOUS
  <2>1. IsLive(p)
    BY <1>0, <1>i, Constants DEF Nodes, Node, Top
  <2>2. o \in ChildrenOf(p)
    BY <1>0 DEF ChildrenOf
  <2> QED
    BY <2>1, <2>2, HeldIsReferenced
<1>3. /\ m_refcount' \in [Objs -> Nat]
      /\ \A x \in Objs : /\ x # p => m_refcount'[x] = m_refcount[x]
                         /\ x = p => m_refcount'[x] = m_refcount[x] - 1
  <2>1. m_refcount \in [Objs -> Nat] /\ p \in Objs \cup {Root, None}
    BY <1>0, <1>t DEF ObjectsOK
  <2>2. m_refcount' = IF p \in {Root, None} THEN m_refcount ELSE [m_refcount EXCEPT ![p] = @ - 1]
    BY DEF Destroy, UnrefParent
  <2> HIDE DEF p
  <2>3. CASE p \in Objs
    BY <1>2, <2>1, <2>2, <2>3, Constants
  <2>4. CASE p \notin Objs
    BY <2>1, <2>2, <2>4
  <2> QED
    BY <2>3, <2>4
<1>4. ObjectsOK' /\ HandlesOK'
  BY <1>1, <1>3, <1>t DEF ObjectsOK, HandlesOK, NameMaps
<1> HIDE DEF p
<1>l. \A x : IsLive(x)' <=> IsLive(x) /\ x # o
  BY <1>0, <1>1 DEF IsLive
<1>5. Unborn'
  <2> SUFFICES ASSUME NEW x \in Objs, life'[x] = "unused"
               PROVE  m_refcount'[x] = 1 /\ ~m_deleted'[x] /\ Children(x)' = {}
    BY DEF Unborn
  <2>1. x # o /\ life[x] = "unused" /\ x # p
    BY <1>1, <1>2 DEF IsLive
  <2>2. Children(x)' = Children(x) /\ (m_deleted'[x] <=> m_deleted[x])
    BY DEF Children
  <2> QED
    BY <1>3, <1>i, <2>1, <2>2 DEF Unborn
<1>6. Links'
  <2> SUFFICES ASSUME NEW d \in Dirs, NEW n \in DOMAIN m_objs[d] PROVE LinkRight(d, n)'
    BY DEF Links
  <2>1. LinkRight(d, n)
    BY <1>i DEF Links
  <2>2. m_objs[d][n] # o
    BY ChildrenAre
  <2> QED
    BY <2>1, <2>2, <1>l DEF LinkRight
<1>7. Nodes'
  <2> SUFFICES ASSUME NEW x \in Objs, life'[x] = "live" PROVE Node(x)'
    BY DEF Nodes
  <2>1. x # o /\ life[x] = "live" /\ Node(x)
    BY <1>1, <1>i DEF Nodes
  <2>2. m_parent[x] # o
    BY <2>1 DEF ChildrenOf
  <2>3. IsLive(m_parent[x])' <=> IsLive(m_parent[x])
    BY <2>2, <1>1 DEF IsLive
  <2> QED
    BY <2>1, <2>3 DEF Node, Top
<1>8. Unmarked'
  <2> SUFFICES ASSUME NEW x \in Objs, life'[x] = "live", ~m_deleted'[x] PROVE Held(x)'
    BY DEF Unmarked
  <2>1. x # o /\ Held(x)
    BY <1>1, <1>i DEF Unmarked
  <2> QED
    BY <2>1 DEF Held, Top, Children
<1>9. Opened'
  <2>1. \A h \in Handles : handle[h] # o
    BY DEF HandlesOf
  <2> QED
    BY <2>1, <1>i, <1>l DEF Opened
<1>10. RefcountExact'
  <2> SUFFICES ASSUME NEW x \in Objs, life'[x] = "live"
               PROVE  m_refcount'[x] = (IF m_deleted'[x] THEN 0 ELSE 1)
                           + Cardinality(HandlesOf(x)') + Cardinality(ChildrenOf(x)')
    BY DEF RefcountExact
  <2>0. /\ x # o /\ life[x] = "live"
        /\ m_refcount[x] = (IF m_deleted[x] THEN 0 ELSE 1)
                           + Cardinality(HandlesOf(x)) + Cardinality(ChildrenOf(x))
        /\ m_deleted'[x] = m_deleted[x]
    BY <1>1, <1>i DEF RefcountExact
  <2>1. HandlesOf(x)' = HandlesOf(x)
    BY DEF HandlesOf
  <2>2. CASE x = p
    <3>1. ChildrenOf(x)' = ChildrenOf(x) \ {o} /\ o \in ChildrenOf(x)
      BY <1>1, <1>2, <2>2 DEF ChildrenOf
    <3>2. Cardinality(ChildrenOf(x)') = Cardinality(ChildrenOf(x)) - 1
      BY <3>1, Counts, OneLess
    <3> QED
      BY <2>0, <2>1, <2>2, <3>2, <1>3, Counts
  <2>3. CASE x # p
    <3>1. ChildrenOf(x)' = ChildrenOf(x)
      BY <1>1, <2>3 DEF ChildrenOf, p
    <3> QED
      BY <2>0, <2>1, <2>3, <3>1, <1>3
  <2> QED
    BY <2>2, <2>3
<1> QED
  BY <1>1, <1>2, <1>3, <1>4, <1>5, <1>6, <1>7, <1>8, <1>9, <1>10 DEF p

(***************************************************************************)
(* A worker deletes the entry whose last reference it dropped, then maybe  *)
(* the directory.                                                          *)
(***************************************************************************)
LEMMA DeleteEntryKeeps ==
    ASSUME TreeInv, NEW t \in Threads, deleteEntry(t)
    PROVE  TreeInv'
<1> DEFINE o == target[t]
           p == m_parent[o]
           more == p # Root /\ LastRef(p)
<1>1. /\ pc[t] = "delete" /\ Destroy(o) /\ DeleteOrGoIdle(t, p, more)
      /\ UNCHANGED <<m_name, m_parent, m_objs, m_deleted, handle, evthr>>
  BY DEF deleteEntry
<1>t. WorkersOK /\ EventsOK
  BY Types DEF TreeInv
<1>i. TypeOK /\ Links /\ Removal /\ Nodes /\ Working /\ Dying /\ ToDelete
  BY DEF TreeInv
<1>2. ev = "idle" /\ ev_dir = None
  BY <1>1, <1>i DEF Removal
<1>3. IsLive(o) /\ m_deleted[o] /\ m_refcount[o] = 0
  BY <1>1, <1>i DEF Dying
<1>4. /\ HandlesOf(o) = {} /\ ChildrenOf(o) = {}
      /\ \A d \in Dirs : o \notin Children(d)
  BY <1>2, <1>3, <1>i, HeldIsReferenced, LinkedAlive
<1>5. p \in Objs \cup {Root} /\ p # None
  BY <1>2, <1>3, <1>i, Constants DEF Nodes, Node, Top, IsLive
<1>6. /\ life'[o] = "freed" /\ \A x \in Objs \ {o} : life'[x] = life[x]
      /\ \A x \in Objs : /\ x # p => m_refcount'[x] = m_refcount[x]
                         /\ x = p => /\ m_refcount'[x] = m_refcount[x] - 1
                                     /\ m_refcount[x] \in Nat /\ m_refcount[x] > 0
                                     /\ IsLive(x)
                                     /\ m_refcount[x] = 1 => m_deleted[x]
      /\ ObjectsOK' /\ HandlesOK' /\ Unborn' /\ Links' /\ Nodes' /\ Unmarked'
      /\ Opened' /\ RefcountExact'
  BY <1>1, <1>2, <1>3, <1>4, Destroyed
<1>m. p = o => FALSE
  BY <1>3, <1>6 DEF IsLive
<1> HIDE DEF o, p
<1>7. /\ WorkersOK'
      /\ p \in Objs /\ m_refcount[p] = 1 => pc'[t] = "delete" /\ target'[t] = p
      /\ ~(p \in Objs /\ m_refcount[p] = 1) => pc'[t] = "idle"
      /\ \A u \in Threads \ {t} :
            pc'[u] = pc[u] /\ target'[u] = target[u] /\ using'[u] = using[u]
  <2>1. CASE p \in Objs /\ m_refcount[p] = 1
    <3>1. Continue(t, "delete", p, None)
      BY <1>1, <2>1, Constants DEF DeleteOrGoIdle, LastRef
    <3> QED
      BY <3>1, <1>t, <2>1, Continued DEF Places
  <2>2. CASE ~(p \in Objs /\ m_refcount[p] = 1)
    <3>1. Continue(t, "idle", None, None)
      BY <1>1, <1>5, <2>2 DEF DeleteOrGoIdle, LastRef, GoIdle
    <3> QED
      BY <3>1, <1>t, <2>2, Continued DEF Places
  <2> QED
    BY <2>1, <2>2
<1>8. TypeOK'
  <2>1. EventsOK'
    BY <1>1, <1>t DEF EventsOK
  <2> QED
    BY <2>1, <1>6, <1>7, Types
<1>9. Removal' /\ ToDelete'
  BY <1>1, <1>2, <1>i DEF Removal, ToDelete
<1>10. Dying'
  <2>1. ASSUME NEW x \in Objs, life'[x] = "live", m_refcount'[x] = 0
        PROVE  \E u \in Threads : Deletes(u, x)'
    <3>0. x # o /\ life[x] = "live"
      BY <1>6, <2>1
    <3>1. CASE x = p
      BY <3>1, <1>6, <1>7, <2>1 DEF Deletes
    <3>2. CASE x # p
      <4>1. m_refcount[x] = 0
        BY <3>2, <1>6, <2>1
      <4>2. PICK u \in Threads : Deletes(u, x)
        BY <4>1, <3>0, <1>2, <1>i DEF Dying, ToDelete
      <4>3. u # t
        BY <4>2, <3>0 DEF Deletes, o
      <4> QED
        BY <4>2, <4>3, <1>7 DEF Deletes
    <3> QED
      BY <3>1, <3>2
  <2>2. ASSUME NEW u \in Threads \ {t}, pc'[u] = "delete"
        PROVE  /\ pc[u] = "delete" /\ target'[u] = target[u] /\ target[u] # o
               /\ IsLive(target[u]) /\ m_deleted[target[u]] /\ m_refcount[target[u]] = 0
               /\ target[u] # p
    <3>1. /\ pc[u] = "delete" /\ target'[u] = target[u]
          /\ IsLive(target[u]) /\ m_deleted[target[u]] /\ m_refcount[target[u]] = 0
      BY <2>2, <1>7, <1>i DEF Dying
    <3>2. target[u] # o
      BY <3>1, <1>1, <1>i DEF Dying, Deletes, o
    <3>3. target[u] # p
      BY <3>1, <1>6 DEF IsLive
    <3> QED
      BY <3>1, <3>2, <3>3
  <2>3. \A u \in Threads : pc'[u] = "delete" =>
            IsLive(target[u])' /\ m_deleted'[target'[u]] /\ m_refcount'[target'[u]] = 0
    <3>1. ASSUME NEW u \in Threads \ {t}, pc'[u] = "delete"
          PROVE  IsLive(target[u])' /\ m_deleted'[target'[u]] /\ m_refcount'[target'[u]] = 0
      BY <2>2, <3>1, <1>1, <1>6 DEF IsLive
    <3>2. ASSUME pc'[t] = "delete"
          PROVE  IsLive(target[t])' /\ m_deleted'[target'[t]] /\ m_refcount'[target'[t]] = 0
      <4>1. p \in Objs /\ m_refcount[p] = 1 /\ target'[t] = p
        BY <3>2, <1>7
      <4>2. IsLive(p) /\ m_deleted[p] /\ m_refcount'[p] = 0 /\ p # o
        BY <4>1, <1>6, <1>m
      <4> QED
        BY <4>1, <4>2, <1>1, <1>6 DEF IsLive
    <3> QED
      BY <3>1, <3>2
  <2>4. \A u, v \in Threads : pc'[u] = "delete" /\ Deletes(v, target[u])' => u = v
    <3> SUFFICES ASSUME NEW u \in Threads, NEW v \in Threads,
                        pc'[u] = "delete", pc'[v] = "delete", target'[u] = target'[v]
                 PROVE  u = v
      BY DEF Deletes
    <3>1. CASE u # t /\ v # t
      BY <3>1, <2>2, <1>i DEF Dying, Deletes
    <3>2. CASE u = t \/ v = t
      <4>1. pc'[t] = "delete" => target'[t] = p
        BY <1>7
      <4> QED
        BY <4>1, <3>2, <2>2
    <3> QED
      BY <3>1, <3>2
  <2> QED
    BY <2>1, <2>3, <2>4 DEF Dying, IsLive
<1>11. Working'
  <2> SUFFICES ASSUME NEW u \in Threads
               PROVE  /\ pc'[u] = "found" => Linked(target[u])'
                      /\ pc'[u] \in {"stat", "read", "blocked"} =>
                            /\ using'[u] \in Handles /\ handle'[using'[u]] = target'[u]
                            /\ target'[u] \in Objs
                      /\ pc'[u] = "read" => \/ m_name'[target'[u]] \in EventFiles
                                            \/ ~m_deleted'[target'[u]]
                      /\ pc'[u] = "blocked" => m_name'[target'[u]] \in EventFiles
    BY DEF Working
  <2>1. CASE u = t
    BY <1>7, <2>1
  <2>2. CASE u # t
    <3>2. Linked(target[u])' <=> Linked(target[u])
      BY <1>1, <1>7, <2>2 DEF Linked, Children
    <3> QED
      BY <1>1, <1>7, <1>i, <2>2, <3>2 DEF Working
  <2> QED
    BY <2>1, <2>2
<1> QED
  BY <1>6, <1>8, <1>9, <1>10, <1>11 DEF TreeInv

-----------------------------------------------------------------------------
(* The event thread.                                                       *)

Alone == \A t \in Threads : pc[t] \in {"idle", "blocked"}

(***************************************************************************)
(* The event thread holds the write lock: workers do nothing, and who      *)
(* waits does not notice.                                                  *)
(***************************************************************************)
LEMMA Undisturbed ==
    ASSUME TreeInv, Alone, UNCHANGED <<handle, workers>>,
           \A o \in Objs : life[o] = "live" => m_name'[o] = m_name[o]
    PROVE  WorkersOK' /\ HandlesOK' /\ Working' /\ Alone'
<1> WorkersOK /\ HandlesOK /\ Working /\ Opened
  BY Types DEF TreeInv
<1>1. WorkersOK' /\ HandlesOK' /\ Alone'
  BY DEF WorkersOK, HandlesOK, Alone
<1>2. ASSUME NEW t \in Threads, pc[t] = "blocked"
      PROVE  /\ using[t] \in Handles /\ handle[using[t]] = target[t] /\ target[t] \in Objs
             /\ m_name'[target[t]] \in EventFiles
  <2>1. /\ using[t] \in Handles /\ handle[using[t]] = target[t] /\ target[t] \in Objs
        /\ m_name[target[t]] \in EventFiles
    BY <1>2 DEF Working
  <2>2. life[target[t]] = "live"
    BY <2>1, Constants DEF Opened, IsLive
  <2> QED
    BY <2>1, <2>2
<1>3. \A t \in Threads : pc[t] = "idle" \/ pc[t] = "blocked"
  BY DEF Alone
<1> QED
  BY <1>1, <1>2, <1>3 DEF Working

(***************************************************************************)
(* While the event thread changes the tree, no worker deletes anything.    *)
(***************************************************************************)
LEMMA NobodyDies ==
    ASSUME Alone', \A o \in Objs : life'[o] = "live" /\ m_refcount'[o] = 0 =>
                       o \in to_delete' \/ (ev' = "delete" /\ o = ev_dir')
    PROVE  Dying'
BY DEF Dying, Alone

(***************************************************************************)
(* An entry without references waits for the event thread.                 *)
(***************************************************************************)
LEMMA DyingAlone ==
    ASSUME Dying, Alone
    PROVE  \A o \in Objs : life[o] = "live" /\ m_refcount[o] = 0 =>
               o \in to_delete \/ (ev = "delete" /\ o = ev_dir)
BY DEF Dying, Deletes, Alone

(***************************************************************************)
(* clear deletes a child.                                                  *)
(***************************************************************************)
LEMMA DeleteChildKeeps ==
    ASSUME TreeInv, NEW c \in Objs, deleteChild(c)
    PROVE  TreeInv'
<1>1. /\ ev = "reap" /\ c \in to_delete /\ Destroy(c) /\ to_delete' = to_delete \ {c}
      /\ UNCHANGED <<m_name, m_parent, m_objs, m_deleted, handle, workers, ev, ev_dir, to_mark>>
  BY DEF deleteChild
<1>t. EventsOK
  BY Types DEF TreeInv
<1>i. TypeOK /\ Links /\ Removal /\ Dying /\ ToDelete
  BY DEF TreeInv
<1>2. /\ IsLive(ev_dir) /\ Top(ev_dir) /\ ev_dir \notin Children(Root) /\ Alone
      /\ ~m_deleted[ev_dir] /\ to_mark = {} /\ Children(ev_dir) = {}
  BY <1>1, <1>i DEF Removal, Alone
<1>3. IsLive(c) /\ m_parent[c] = ev_dir /\ m_deleted[c] /\ m_refcount[c] = 0
  BY <1>1, <1>i DEF ToDelete
<1>4. /\ HandlesOf(c) = {} /\ ChildrenOf(c) = {}
      /\ \A d \in Dirs : c \notin Children(d)
  BY <1>1, <1>3, <1>i, HeldIsReferenced, LinkedAlive
<1>5. /\ life'[c] = "freed" /\ \A x \in Objs \ {c} : life'[x] = life[x]
      /\ \A x \in Objs : /\ x # ev_dir => m_refcount'[x] = m_refcount[x]
                         /\ x = ev_dir => /\ m_refcount'[x] = m_refcount[x] - 1
                                          /\ m_refcount[x] \in Nat /\ m_refcount[x] > 0
                                          /\ m_refcount[x] = 1 => m_deleted[x]
      /\ ObjectsOK' /\ HandlesOK' /\ Unborn' /\ Links' /\ Nodes' /\ Unmarked'
      /\ Opened' /\ RefcountExact'
  BY <1>1, <1>3, <1>4, Destroyed
<1>6. WorkersOK' /\ Working' /\ Alone'
  BY <1>1, <1>2, Undisturbed
<1>7. TypeOK'
  <2>1. EventsOK'
    BY <1>1, <1>t DEF EventsOK
  <2> QED
    BY <2>1, <1>5, <1>6, Types
<1>8. ev_dir # c
  BY <1>2, <1>3, Constants DEF Top, IsLive
<1>9. Removal'
  <2>1. IsLive(ev_dir)'
    BY <1>1, <1>2, <1>5, <1>8 DEF IsLive
  <2>2. Top(ev_dir)' /\ (ev_dir \notin Children(Root))' /\ Children(ev_dir)' = {}
    BY <1>1, <1>2 DEF Top, Children
  <2> QED
    BY <1>1, <1>2, <1>6, <2>1, <2>2 DEF Removal, Alone
<1>10. ToDelete'
  BY <1>1, <1>5, <1>8, <1>2, <1>i DEF ToDelete, IsLive
<1>11. Dying'
  <2>1. \A x \in Objs : m_refcount'[x] = 0 => m_refcount[x] = 0
    BY <1>2, <1>5
  <2>2. \A x \in Objs : life'[x] = "live" /\ m_refcount'[x] = 0 => x \in to_delete'
    BY <2>1, <1>1, <1>2, <1>5, <1>i, DyingAlone
  <2> QED
    BY <2>2, <1>6, NobodyDies
<1> QED
  BY <1>5, <1>6, <1>7, <1>9, <1>10, <1>11 DEF TreeInv

(***************************************************************************)
(* The directory goes when it has no references any more, the duplicate    *)
(* when its children are gone, which nobody had open.                      *)
(***************************************************************************)
LEMMA DeleteDirectoryKeeps ==
    ASSUME TreeInv, deleteDirectory
    PROVE  TreeInv'
<1> DEFINE d == ev_dir
<1>1. /\ ev = "delete" \/ (ev = "reap" /\ to_delete = {} /\ m_parent[d] = None)
      /\ Destroy(d) /\ ev' = "idle" /\ ev_dir' = None
      /\ UNCHANGED <<m_name, m_parent, m_objs, m_deleted, handle, workers, to_mark, to_delete>>
  BY DEF deleteDirectory
<1>t. EventsOK
  BY Types DEF TreeInv
<1>i. TypeOK /\ Links /\ Removal /\ Dying /\ ToDelete /\ Nodes /\ Unmarked /\ Opened
  BY DEF TreeInv
<1>2. /\ IsLive(d) /\ Top(d) /\ d \notin Children(Root) /\ Alone /\ to_mark = {} /\ to_delete = {}
      /\ ev = "reap" => Children(d) = {}
      /\ ev = "delete" => m_refcount[d] = 0
  BY <1>1, <1>i DEF Removal, Alone, ToDelete
<1>3. \A e \in Dirs : d \notin Children(e)
  BY <1>2, <1>i, LinkedAlive, Constants DEF Top
<1>4. HandlesOf(d) = {}
  BY <1>2, <1>i, Constants DEF HandlesOf, Opened, Top, IsLive
<1>5. ChildrenOf(d) = {}
  <2>1. CASE ev = "delete"
    BY <2>1, <1>2, HeldIsReferenced
  <2>2. CASE ev = "reap"
    <3> SUFFICES ASSUME NEW c \in ChildrenOf(d) PROVE FALSE
      OBVIOUS
    <3>1. IsLive(c) /\ m_parent[c] = d /\ d \in Objs /\ m_parent[d] = None
      BY <1>1, <1>2, <2>2 DEF ChildrenOf, IsLive
    <3>2. m_deleted[c]
      BY <3>1, <1>2, <2>2, <1>i, Constants DEF Unmarked, Held, Top, IsLive
    <3>3. HandlesOf(c) = {}
      BY <3>1, Constants, <1>i DEF HandlesOf, Opened, IsLive
    <3>4. ChildrenOf(c) = {}
      <4> SUFFICES ASSUME NEW x \in ChildrenOf(c) PROVE FALSE
        OBVIOUS
      <4>1. Node(x) /\ m_parent[x] = c /\ c \in Objs
        BY <3>1, <1>i DEF ChildrenOf, Nodes, IsLive
      <4>2. Top(c)
        BY <4>1, Constants DEF Node, Top
      <4> QED
        BY <4>2, <3>1, Constants DEF Top
    <3>5. m_refcount[c] = 0
      <4>1. m_refcount[c] = Cardinality(HandlesOf(c)) + Cardinality(ChildrenOf(c))
        <5>1. m_refcount[c] = 0 + Cardinality(HandlesOf(c)) + Cardinality(ChildrenOf(c))
          BY <3>1, <3>2 DEF TreeInv, RefcountExact, IsLive
        <5> QED
          BY <5>1, Counts
      <4> QED
        BY <4>1, <3>3, <3>4, Counts
    <3>6. c \in to_delete
      BY <3>1, <3>5, <1>2, <2>2, <1>i, DyingAlone DEF IsLive
    <3> QED
      BY <3>6, <1>2
  <2> QED
    BY <2>1, <2>2, <1>1
<1>6. /\ life'[d] = "freed" /\ \A x \in Objs \ {d} : life'[x] = life[x]
      /\ \A x \in Objs : x # m_parent[d] => m_refcount'[x] = m_refcount[x]
      /\ ObjectsOK' /\ HandlesOK' /\ Unborn' /\ Links' /\ Nodes' /\ Unmarked'
      /\ Opened' /\ RefcountExact'
  BY <1>1, <1>2, <1>3, <1>4, <1>5, Destroyed
<1>7. WorkersOK' /\ Working' /\ Alone'
  BY <1>1, <1>2, Undisturbed
<1>8. TypeOK'
  <2>1. EventsOK'
    BY <1>1, <1>t DEF EventsOK
  <2> QED
    BY <2>1, <1>6, <1>7, Types
<1>9. Removal' /\ ToDelete'
  BY <1>1, <1>2 DEF Removal, ToDelete
<1>10. Dying'
  <2>1. \A x \in Objs : m_refcount'[x] = m_refcount[x]
    BY <1>2, <1>6, Constants DEF Top
  <2>2. \A x \in Objs : life'[x] = "live" /\ m_refcount'[x] = 0 => FALSE
    <3> SUFFICES ASSUME NEW x \in Objs, life'[x] = "live", m_refcount'[x] = 0 PROVE FALSE
      OBVIOUS
    <3>1. x # d /\ life[x] = "live" /\ m_refcount[x] = 0
      BY <2>1, <1>6
    <3> QED
      BY <3>1, <1>2, <1>i, DyingAlone
  <2> QED
    BY <2>2, <1>7, NobodyDies
<1> QED
  BY <1>6, <1>7, <1>8, <1>9, <1>10 DEF TreeInv

(***************************************************************************)
(* The duplicate is cleared first.                                         *)
(***************************************************************************)
LEMMA DeleteDuplicateKeeps ==
    ASSUME TreeInv, deleteDuplicate
    PROVE  TreeInv'
<1>1. /\ ev = "update" /\ ev' = "clear" /\ to_mark' = Children(ev_dir)
      /\ UNCHANGED <<objects, handle, workers, ev_dir, to_delete>>
  BY DEF deleteDuplicate
<1>t. ObjectsOK /\ HandlesOK /\ WorkersOK /\ EventsOK
  BY Types DEF TreeInv
<1>i. /\ TypeOK /\ Unborn /\ Links /\ Nodes /\ Unmarked /\ Removal /\ Dying /\ ToDelete /\ Opened
      /\ RefcountExact
  BY DEF TreeInv
<1>2. /\ IsLive(ev_dir) /\ ev_dir \in Objs /\ Top(ev_dir) /\ ev_dir \notin Children(Root) /\ Alone
      /\ ~m_deleted[ev_dir] /\ to_delete = {}
  BY <1>1, <1>i DEF Removal, Alone, ToDelete, IsLive
<1>3. \A c \in Children(ev_dir) : c \in Objs /\ ~m_deleted[c]
  BY <1>1, <1>2, <1>i, LinkedAlive DEF IsLive
<1>4. WorkersOK' /\ HandlesOK' /\ Working' /\ Alone'
  BY <1>1, <1>2, Undisturbed
<1>5. TypeOK'
  <2>1. ObjectsOK'
    BY <1>1, <1>t DEF ObjectsOK, NameMaps
  <2>2. EventsOK'
    BY <1>1, <1>3, <1>t DEF EventsOK
  <2> QED
    BY <2>1, <2>2, <1>4, Types
<1>6. Unborn' /\ Opened' /\ RefcountExact'
  BY <1>1, <1>i DEF Unborn, Opened, RefcountExact, IsLive, HandlesOf, ChildrenOf, Children
<1>7. Links'
  BY <1>1, <1>i DEF Links, LinkRight, IsLive
<1>8. Nodes' /\ Unmarked'
  BY <1>1, <1>i DEF Nodes, Node, Unmarked, Held, IsLive, Top, Children
<1>9. Removal'
  <2>1. to_mark' = {c \in Children(ev_dir)' : ~m_deleted'[c]}
    BY <1>1, <1>3 DEF Children
  <2> QED
    BY <2>1, <1>1, <1>2, <1>4 DEF Removal, IsLive, Top, Children, Alone
<1>10. ToDelete' /\ Dying'
  <2>1. ToDelete'
    BY <1>1, <1>2 DEF ToDelete
  <2>2. \A x \in Objs : life'[x] = "live" /\ m_refcount'[x] = 0 => x \in to_delete'
    BY <1>1, <1>2, <1>i, DyingAlone
  <2> QED
    BY <2>1, <2>2, <1>4, NobodyDies
<1> QED
  BY <1>4, <1>5, <1>6, <1>7, <1>8, <1>9, <1>10 DEF TreeInv

(***************************************************************************)
(* A directory is taken out of the root.                                   *)
(***************************************************************************)
LEMMA RemoveEntryKeeps ==
    ASSUME TreeInv, NEW w \in Windows, removeEntry(w)
    PROVE  TreeInv'
<1> DEFINE d == m_objs[Root][w]
<1>1. /\ WriteLockFree /\ w \in DOMAIN m_objs[Root]
      /\ m_objs' = [m_objs EXCEPT ![Root] = Restrict(m_objs[Root], DOMAIN m_objs[Root] \ {w})]
      /\ ev' = "clear" /\ ev_dir' = d /\ to_mark' = Children(d)
      /\ UNCHANGED <<life, m_name, m_parent, m_refcount, m_deleted, handle, workers, to_delete>>
  BY DEF removeEntry
<1>t. ObjectsOK /\ HandlesOK /\ WorkersOK /\ EventsOK
  BY Types DEF TreeInv
<1>i. /\ TypeOK /\ Unborn /\ Links /\ Nodes /\ Unmarked /\ Removal /\ Dying /\ ToDelete /\ Opened
      /\ RefcountExact
  BY DEF TreeInv
<1>2. ev = "idle" /\ ev_dir = None /\ to_delete = {} /\ Alone
  BY <1>1, <1>i DEF Removal, Alone, ToDelete, WriteLockFree
<1>3. /\ d \in Children(Root) /\ IsLive(d) /\ d \in Objs /\ m_parent[d] = Root /\ ~m_deleted[d]
      /\ m_name[d] = w
  <2>1. LinkRight(Root, w)
    BY <1>1, <1>i DEF Links
  <2> QED
    BY <2>1, <1>1, <1>2, ChildrenAre DEF LinkRight, IsLive
<1> HIDE DEF d
<1>m. d = m_objs[Root][w]
  BY DEF d
<1>4. \A c \in Children(d) : c \in Objs /\ ~m_deleted[c]
  BY <1>2, <1>3, <1>i, LinkedAlive DEF IsLive
<1>5. /\ m_objs' \in [Objs \cup {Root} -> NameMaps]
      /\ DOMAIN m_objs'[Root] = DOMAIN m_objs[Root] \ {w}
      /\ \A n \in DOMAIN m_objs[Root] \ {w} : m_objs'[Root][n] = m_objs[Root][n]
      /\ \A e \in Objs : m_objs'[e] = m_objs[e]
  <2> DEFINE f == m_objs[Root]
             g == Restrict(f, DOMAIN f \ {w})
  <2>1. m_objs \in [Objs \cup {Root} -> NameMaps]
    BY <1>t DEF ObjectsOK
  <2>2. DOMAIN f \subseteq Names /\ \A n \in DOMAIN f : f[n] \in Objs
    BY <2>1, NameMap
  <2>3. g \in [DOMAIN f \ {w} -> Objs] /\ \A n \in DOMAIN f \ {w} : g[n] = f[n]
    BY <2>2 DEF Restrict
  <2>4. g \in NameMaps
    BY <2>2, <2>3, NameMap
  <2>5. m_objs' = [m_objs EXCEPT ![Root] = g]
    BY <1>1
  <2> HIDE DEF g
  <2> QED
    BY <2>1, <2>3, <2>4, <2>5, Constants
<1>6. /\ \A e \in Objs : Children(e)' = Children(e)
      /\ Children(Root)' = Children(Root) \ {d}
  <2>1. \A e \in Objs : Children(e)' = Children(e)
    BY <1>5 DEF Children
  <2>2. ASSUME NEW c, c \in Children(Root)' PROVE c \in Children(Root) /\ c # d
    <3>1. PICK n \in DOMAIN m_objs'[Root] : m_objs'[Root][n] = c
      BY <2>2, ChildrenAre
    <3>2. n \in DOMAIN m_objs[Root] /\ n # w /\ m_objs[Root][n] = c
      BY <3>1, <1>5
    <3>3. LinkRight(Root, n)
      BY <3>2, <1>i DEF Links
    <3> QED
      BY <3>2, <3>3, <1>3, ChildrenAre DEF LinkRight
  <2>3. ASSUME NEW c \in Children(Root), c # d PROVE c \in Children(Root)'
    <3>1. PICK n \in DOMAIN m_objs[Root] : m_objs[Root][n] = c
      BY ChildrenAre
    <3>2. n # w
      BY <3>1, <2>3, <1>m
    <3> QED
      BY <3>1, <3>2, <1>5, ChildrenAre
  <2> QED
    BY <2>1, <2>2, <2>3
<1>7. WorkersOK' /\ HandlesOK' /\ Working' /\ Alone'
  BY <1>1, <1>2, Undisturbed
<1>8. TypeOK'
  <2>1. ObjectsOK'
    BY <1>1, <1>5, <1>t DEF ObjectsOK, NameMaps
  <2>2. EventsOK'
    BY <1>1, <1>3, <1>4, <1>t DEF EventsOK
  <2> QED
    BY <2>1, <2>2, <1>7, Types
<1>9. Unborn' /\ Opened' /\ RefcountExact'
  <2>1. Unborn'
    BY <1>1, <1>6, <1>i DEF Unborn
  <2>2. Opened' /\ RefcountExact'
    BY <1>1, <1>i DEF Opened, RefcountExact, IsLive, HandlesOf, ChildrenOf
  <2> QED
    BY <2>1, <2>2
<1>10. Links'
  <2> SUFFICES ASSUME NEW e \in Dirs, NEW n \in DOMAIN m_objs'[e] PROVE LinkRight(e, n)'
    BY DEF Links
  <2>1. n \in DOMAIN m_objs[e] /\ m_objs'[e][n] = m_objs[e][n]
    BY <1>5
  <2>2. LinkRight(e, n)
    BY <2>1, <1>i DEF Links
  <2> QED
    BY <2>1, <2>2, <1>1, <1>2 DEF LinkRight, IsLive
<1>11. Nodes'
  BY <1>1, <1>2, <1>i, Constants DEF Nodes, Node, IsLive, Top
<1>12. Unmarked'
  <2> SUFFICES ASSUME NEW x \in Objs, life'[x] = "live", ~m_deleted'[x] PROVE Held(x)'
    BY DEF Unmarked
  <2>1. Held(x) /\ x # None
    BY <1>1, <1>i, Constants DEF Unmarked
  <2>2. CASE Top(x)
    BY <2>1, <2>2, <1>1, <1>2, <1>6, Constants DEF Held, Top
  <2>3. CASE ~Top(x)
    BY <2>1, <2>3, <1>1, <1>6 DEF Held, Top
  <2> QED
    BY <2>2, <2>3
<1>13. Removal'
  <2>1. to_mark' = {c \in Children(ev_dir)' : ~m_deleted'[c]}
    BY <1>1, <1>3, <1>4, <1>6
  <2>2. IsLive(ev_dir)' /\ Top(ev_dir)' /\ (ev_dir \notin Children(Root))' /\ ~m_deleted'[ev_dir']
    BY <1>1, <1>3, <1>6 DEF IsLive, Top
  <2> QED
    BY <2>1, <2>2, <1>1, <1>7 DEF Removal, Alone
<1>14. ToDelete' /\ Dying'
  <2>1. ToDelete'
    BY <1>1, <1>2 DEF ToDelete
  <2>2. \A x \in Objs : life'[x] = "live" /\ m_refcount'[x] = 0 => x \in to_delete'
    BY <1>1, <1>2, <1>i, DyingAlone
  <2> QED
    BY <2>1, <2>2, <1>7, NobodyDies
<1> QED
  BY <1>7, <1>8, <1>9, <1>10, <1>11, <1>12, <1>13, <1>14 DEF TreeInv

(***************************************************************************)
(* clear marks a child.                                                    *)
(***************************************************************************)
LEMMA MarkChildKeeps ==
    ASSUME TreeInv, NEW c \in Objs, markChild(c)
    PROVE  TreeInv'
<1>1. /\ ev = "clear" /\ c \in to_mark
      /\ m_deleted' = [m_deleted EXCEPT ![c] = TRUE]
      /\ m_refcount' = [m_refcount EXCEPT ![c] = @ - 1]
      /\ to_mark' = to_mark \ {c}
      /\ to_delete' = IF m_refcount[c] = 1 THEN to_delete \cup {c} ELSE to_delete
      /\ UNCHANGED <<life, m_name, m_parent, m_objs, handle, workers, ev, ev_dir>>
  BY DEF markChild, Marked, LastRef
<1>t. ObjectsOK /\ HandlesOK /\ WorkersOK /\ EventsOK
  BY Types DEF TreeInv
<1>i. /\ TypeOK /\ Unborn /\ Links /\ Nodes /\ Unmarked /\ Removal /\ Dying /\ ToDelete /\ Opened
      /\ RefcountExact
  BY DEF TreeInv
<1>2. /\ IsLive(ev_dir) /\ ev_dir \in Objs /\ Top(ev_dir) /\ ev_dir \notin Children(Root) /\ Alone
      /\ ~m_deleted[ev_dir] /\ to_mark = {x \in Children(ev_dir) : ~m_deleted[x]}
  BY <1>1, <1>i DEF Removal, Alone, IsLive
<1>3. /\ c \in Children(ev_dir) /\ ~m_deleted[c] /\ IsLive(c) /\ m_parent[c] = ev_dir
      /\ ~Top(c) /\ c # ev_dir /\ c \notin to_delete
      /\ m_refcount[c] \in Nat /\ m_refcount[c] > 0
  <2>1. c \in Children(ev_dir) /\ ~m_deleted[c]
    BY <1>1, <1>2
  <2>2. IsLive(c) /\ m_parent[c] = ev_dir
    BY <2>1, <1>2, <1>i, LinkedAlive
  <2>3. ~Top(c) /\ c # ev_dir
    BY <2>2, <1>2, Constants DEF Top
  <2>4. c \notin to_delete
    BY <2>1, <1>i DEF ToDelete
  <2>5. m_refcount[c] \in Nat /\ m_refcount[c] > 0
    BY <2>1, <2>2, HeldIsReferenced
  <2> QED
    BY <2>1, <2>2, <2>3, <2>4, <2>5
<1>4. /\ m_deleted' \in [Objs -> BOOLEAN] /\ m_deleted'[c]
      /\ \A x \in Objs \ {c} : m_deleted'[x] = m_deleted[x]
  BY <1>1, <1>t DEF ObjectsOK
<1>5. /\ m_refcount' \in [Objs -> Nat] /\ m_refcount'[c] = m_refcount[c] - 1
      /\ \A x \in Objs \ {c} : m_refcount'[x] = m_refcount[x]
  <2>1. m_refcount \in [Objs -> Nat]
    BY <1>t DEF ObjectsOK
  <2> QED
    BY <1>1, <1>3, <2>1
<1>6. WorkersOK' /\ HandlesOK' /\ Working' /\ Alone'
  BY <1>1, <1>2, Undisturbed
<1>7. TypeOK'
  <2>1. ObjectsOK'
    BY <1>1, <1>4, <1>5, <1>t DEF ObjectsOK, NameMaps
  <2>2. EventsOK'
    BY <1>1, <1>t DEF EventsOK
  <2> QED
    BY <2>1, <2>2, <1>6, Types
<1>8. Unborn' /\ Opened'
  <2>1. Unborn'
    BY <1>1, <1>3, <1>4, <1>5, <1>i DEF Unborn, Children, IsLive
  <2>2. Opened'
    BY <1>1, <1>i DEF Opened, IsLive
  <2> QED
    BY <2>1, <2>2
<1>9. Links'
  <2> SUFFICES ASSUME NEW d \in Dirs, NEW n \in DOMAIN m_objs[d] PROVE LinkRight(d, n)'
    BY <1>1 DEF Links
  <2>1. LinkRight(d, n)
    BY <1>i DEF Links
  <2>2. CASE m_objs[d][n] = c
    BY <2>1, <2>2, <1>1, <1>3 DEF LinkRight, IsLive
  <2>3. CASE m_objs[d][n] # c
    BY <2>1, <2>3, <1>1, <1>4 DEF LinkRight, IsLive
  <2> QED
    BY <2>2, <2>3
<1>10. Nodes'
  BY <1>1, <1>i DEF Nodes, Node, IsLive, Top
<1>11. Unmarked'
  <2> SUFFICES ASSUME NEW x \in Objs, life'[x] = "live", ~m_deleted'[x] PROVE Held(x)'
    BY DEF Unmarked
  <2>1. x # c /\ life[x] = "live" /\ ~m_deleted[x]
    BY <1>1, <1>4
  <2>2. Held(x) /\ Node(x)
    BY <2>1, <1>i DEF Unmarked, Nodes
  <2>3. m_parent[x] # c
    BY <2>2, <1>3, Constants DEF Node, Top
  <2> QED
    BY <2>2, <2>3, <1>1, <1>4 DEF Held, Top, Children
<1>12. Removal'
  <2>1. to_mark' = {x \in Children(ev_dir)' : ~m_deleted'[x]}
    <3>1. \A x \in Children(ev_dir) : x \in Objs
      BY <1>2, <1>i, LinkedAlive DEF IsLive
    <3>2. \A x \in Children(ev_dir) : ~m_deleted'[x] <=> ~m_deleted[x] /\ x # c
      BY <3>1, <1>4
    <3> QED
      BY <3>2, <1>1, <1>2 DEF Children
  <2>2. ~m_deleted'[ev_dir]
    BY <1>2, <1>3, <1>4
  <2> QED
    BY <2>1, <2>2, <1>1, <1>2, <1>6 DEF Removal, IsLive, Top, Children, Alone
<1>13. ToDelete'
  <2> SUFFICES ASSUME NEW x \in to_delete'
               PROVE  /\ IsLive(x)' /\ m_parent'[x] = ev_dir'
                      /\ m_deleted'[x] /\ m_refcount'[x] = 0
    BY <1>1 DEF ToDelete
  <2>1. CASE x = c
    BY <2>1, <1>1, <1>3, <1>4, <1>5 DEF IsLive
  <2>2. CASE x # c
    <3>1. x \in to_delete
      BY <2>2, <1>1
    <3> QED
      BY <3>1, <2>2, <1>1, <1>4, <1>5, <1>i DEF ToDelete, IsLive
  <2> QED
    BY <2>1, <2>2
<1>14. Dying'
  <2>1. ASSUME NEW x \in Objs, life'[x] = "live", m_refcount'[x] = 0 PROVE x \in to_delete'
    <3>1. CASE x = c
      BY <3>1, <2>1, <1>1, <1>3, <1>5
    <3>2. CASE x # c
      BY <3>2, <2>1, <1>1, <1>2, <1>5, <1>i, DyingAlone
    <3> QED
      BY <3>1, <3>2
  <2> QED
    BY <2>1, <1>6, NobodyDies
<1>15. RefcountExact'
  <2> SUFFICES ASSUME NEW x \in Objs, life[x] = "live"
               PROVE  m_refcount'[x] = (IF m_deleted'[x] THEN 0 ELSE 1)
                           + Cardinality(HandlesOf(x)') + Cardinality(ChildrenOf(x)')
    BY <1>1 DEF RefcountExact
  <2>0. /\ m_refcount[x] = (IF m_deleted[x] THEN 0 ELSE 1)
                           + Cardinality(HandlesOf(x)) + Cardinality(ChildrenOf(x))
    BY <1>1, <1>i DEF RefcountExact
  <2>1. ChildrenOf(x)' = ChildrenOf(x) /\ HandlesOf(x)' = HandlesOf(x)
    BY <1>1 DEF ChildrenOf, HandlesOf
  <2>2. CASE x = c
    <3>1. m_refcount[x] = 1 + Cardinality(HandlesOf(x)) + Cardinality(ChildrenOf(x))
      BY <2>0, <2>2, <1>3
    <3>2. m_refcount[x] - 1 = 0 + Cardinality(HandlesOf(x)) + Cardinality(ChildrenOf(x))
      BY <3>1, Counts
    <3> QED
      BY <2>1, <2>2, <3>2, <1>4, <1>5
  <2>3. CASE x # c
    BY <2>0, <2>1, <2>3, <1>4, <1>5
  <2> QED
    BY <2>2, <2>3
<1> QED
  BY <1>6, <1>7, <1>8, <1>9, <1>10, <1>11, <1>12, <1>13, <1>14, <1>15 DEF TreeInv

(***************************************************************************)
(* clear forgets the children, all of them marked.                         *)
(***************************************************************************)
LEMMA ClearMapKeeps ==
    ASSUME TreeInv, clearMap
    PROVE  TreeInv'
<1> DEFINE d == ev_dir
<1>1. /\ ev = "clear" /\ to_mark = {} /\ m_objs' = [m_objs EXCEPT ![d] = <<>>] /\ ev' = "reap"
      /\ UNCHANGED <<life, m_name, m_parent, m_refcount, m_deleted, handle, workers, ev_dir,
                     to_mark, to_delete>>
  BY DEF clearMap
<1>t. ObjectsOK /\ HandlesOK /\ WorkersOK /\ EventsOK
  BY Types DEF TreeInv
<1>i. /\ TypeOK /\ Unborn /\ Links /\ Nodes /\ Unmarked /\ Removal /\ Dying /\ ToDelete /\ Opened
      /\ RefcountExact
  BY DEF TreeInv
<1>2. /\ IsLive(d) /\ d \in Objs /\ Top(d) /\ d \notin Children(Root) /\ Alone
      /\ ~m_deleted[d] /\ to_mark = {x \in Children(d) : ~m_deleted[x]}
  BY <1>1, <1>i DEF Removal, Alone, IsLive
<1>3. /\ m_objs' \in [Objs \cup {Root} -> NameMaps] /\ DOMAIN m_objs'[d] = {}
      /\ \A e \in Dirs \ {d} : m_objs'[e] = m_objs[e]
  <2>1. m_objs \in [Objs \cup {Root} -> NameMaps] /\ d \in Objs \cup {Root}
    BY <1>t, <1>2 DEF ObjectsOK
  <2>2. <<>> \in NameMaps /\ DOMAIN <<>> = {}
    BY NameMap
  <2>3. m_objs' \in [Objs \cup {Root} -> NameMaps] /\ \A e \in Dirs \ {d} : m_objs'[e] = m_objs[e]
    BY <1>1, <2>1, <2>2
  <2>4. m_objs'[d] = <<>>
    BY <1>1, <2>1
  <2> QED
    BY <2>2, <2>3, <2>4
<1>4. /\ Children(d)' = {} /\ \A e \in Dirs \ {d} : Children(e)' = Children(e)
      /\ Root # d
  <2>1. Children(d)' = {}
    BY <1>1, <1>3 DEF Children, Range
  <2>2. \A e \in Dirs \ {d} : Children(e)' = Children(e)
    BY <1>3 DEF Children
  <2> QED
    BY <2>1, <2>2, <1>2, Constants
<1>5. WorkersOK' /\ HandlesOK' /\ Working' /\ Alone'
  BY <1>1, <1>2, Undisturbed
<1>6. TypeOK'
  <2>1. ObjectsOK'
    BY <1>1, <1>3, <1>t DEF ObjectsOK, NameMaps
  <2>2. EventsOK'
    BY <1>1, <1>t DEF EventsOK
  <2> QED
    BY <2>1, <2>2, <1>5, Types
<1>7. Unborn' /\ Opened' /\ RefcountExact'
  <2>1. Unborn'
    BY <1>1, <1>4, <1>i DEF Unborn
  <2>2. Opened' /\ RefcountExact'
    BY <1>1, <1>i DEF Opened, RefcountExact, IsLive, HandlesOf, ChildrenOf
  <2> QED
    BY <2>1, <2>2
<1>8. Links'
  <2> SUFFICES ASSUME NEW e \in Dirs, NEW n \in DOMAIN m_objs'[e] PROVE LinkRight(e, n)'
    BY DEF Links
  <2>1. e # d /\ m_objs'[e] = m_objs[e] /\ n \in DOMAIN m_objs[e]
    BY <1>3
  <2>2. LinkRight(e, n)
    BY <2>1, <1>i DEF Links
  <2> QED
    BY <2>1, <2>2, <1>1 DEF LinkRight, IsLive
<1>9. Nodes'
  BY <1>1, <1>i DEF Nodes, Node, IsLive, Top
<1>10. Unmarked'
  <2> SUFFICES ASSUME NEW x \in Objs, life[x] = "live", ~m_deleted[x] PROVE Held(x)'
    BY <1>1 DEF Unmarked
  <2>1. Held(x)
    BY <1>i DEF Unmarked
  <2>2. x \notin Children(d)
    BY <1>1, <1>2
  <2> QED
    BY <2>1, <2>2, <1>1, <1>4 DEF Held, Top
<1>11. Removal'
  BY <1>1, <1>2, <1>4, <1>5 DEF Removal, IsLive, Top, Alone
<1>12. ToDelete' /\ Dying'
  <2>1. ToDelete'
    BY <1>1, <1>i DEF ToDelete, IsLive
  <2>2. \A x \in Objs : life'[x] = "live" /\ m_refcount'[x] = 0 => x \in to_delete'
    BY <1>1, <1>2, <1>i, DyingAlone
  <2> QED
    BY <2>1, <2>2, <1>5, NobodyDies
<1> QED
  BY <1>5, <1>6, <1>7, <1>8, <1>9, <1>10, <1>11, <1>12 DEF TreeInv

(***************************************************************************)
(* The directory itself is marked.                                         *)
(***************************************************************************)
LEMMA MarkDirectoryKeeps ==
    ASSUME TreeInv, markDirectory
    PROVE  TreeInv'
<1> DEFINE d == ev_dir
<1>1. /\ ev = "reap" /\ to_delete = {} /\ m_parent[d] = Root
      /\ m_deleted' = [m_deleted EXCEPT ![d] = TRUE]
      /\ m_refcount' = [m_refcount EXCEPT ![d] = @ - 1]
      /\ \/ m_refcount[d] = 1 /\ ev' = "delete" /\ ev_dir' = d
         \/ m_refcount[d] # 1 /\ ev' = "idle" /\ ev_dir' = None
      /\ UNCHANGED <<life, m_name, m_parent, m_objs, handle, workers, to_mark, to_delete>>
  BY DEF markDirectory, Marked, LastRef
<1>t. ObjectsOK /\ HandlesOK /\ WorkersOK /\ EventsOK
  BY Types DEF TreeInv
<1>i. /\ TypeOK /\ Unborn /\ Links /\ Nodes /\ Unmarked /\ Removal /\ Dying /\ ToDelete /\ Opened
      /\ RefcountExact
  BY DEF TreeInv
<1>2. /\ IsLive(d) /\ d \in Objs /\ Top(d) /\ d \notin Children(Root) /\ Alone
      /\ ~m_deleted[d] /\ to_mark = {} /\ Children(d) = {} /\ d # None
  BY <1>1, <1>i, Constants DEF Removal, Alone, IsLive
<1>3. /\ m_refcount[d] \in Nat /\ m_refcount[d] > 0
      /\ \A e \in Dirs : d \notin Children(e)
  BY <1>2, <1>i, HeldIsReferenced, LinkedAlive, Constants DEF Top
<1> HIDE DEF d
<1>4. /\ m_deleted' \in [Objs -> BOOLEAN] /\ m_deleted'[d]
      /\ \A x \in Objs \ {d} : m_deleted'[x] = m_deleted[x]
  BY <1>1, <1>2, <1>t DEF ObjectsOK
<1>5. /\ m_refcount' \in [Objs -> Nat] /\ m_refcount'[d] = m_refcount[d] - 1
      /\ \A x \in Objs \ {d} : m_refcount'[x] = m_refcount[x]
  <2>1. m_refcount \in [Objs -> Nat]
    BY <1>t DEF ObjectsOK
  <2> QED
    BY <1>1, <1>2, <1>3, <2>1
<1>6. WorkersOK' /\ HandlesOK' /\ Working' /\ Alone'
  BY <1>1, <1>2, Undisturbed
<1>7. TypeOK'
  <2>1. ObjectsOK'
    BY <1>1, <1>4, <1>5, <1>t DEF ObjectsOK, NameMaps
  <2>2. EventsOK'
    BY <1>1, <1>2, <1>t DEF EventsOK
  <2> QED
    BY <2>1, <2>2, <1>6, Types
<1>8. Unborn' /\ Opened'
  <2>1. Unborn'
    BY <1>1, <1>2, <1>4, <1>5, <1>i DEF Unborn, Children, IsLive
  <2>2. Opened'
    BY <1>1, <1>i DEF Opened, IsLive
  <2> QED
    BY <2>1, <2>2
<1>9. Links'
  <2> SUFFICES ASSUME NEW e \in Dirs, NEW n \in DOMAIN m_objs[e] PROVE LinkRight(e, n)'
    BY <1>1 DEF Links
  <2>1. LinkRight(e, n) /\ m_objs[e][n] # d
    BY <1>3, <1>i, ChildrenAre DEF Links
  <2> QED
    BY <2>1, <1>1, <1>4 DEF LinkRight, IsLive
<1>10. Nodes'
  BY <1>1, <1>2, <1>i, Constants DEF Nodes, Node, IsLive, Top, d
<1>11. Unmarked'
  <2> SUFFICES ASSUME NEW x \in Objs, life'[x] = "live", ~m_deleted'[x] PROVE Held(x)'
    BY DEF Unmarked
  <2>1. x # d /\ life[x] = "live" /\ ~m_deleted[x]
    BY <1>1, <1>4
  <2>2. Held(x)
    BY <2>1, <1>i DEF Unmarked
  <2> QED
    BY <2>1, <2>2, <1>1, <1>2, <1>4 DEF Held, Top, Children, d
<1>12. Removal'
  <2>1. Children(Root)' = Children(Root)
    BY <1>1 DEF Children
  <2>2. ev' = "delete" => /\ IsLive(ev_dir)' /\ Top(ev_dir)' /\ ev_dir' \notin Children(Root)'
                          /\ m_parent'[ev_dir'] = Root
                          /\ m_deleted'[ev_dir'] /\ m_refcount'[ev_dir'] = 0
    BY <2>1, <1>1, <1>2, <1>4, <1>5 DEF IsLive, Top
  <2>3. ev' \in {"idle", "delete"} /\ (ev' = "idle" => ev_dir' = None) /\ to_mark' = {}
    BY <1>1, <1>2
  <2> QED
    BY <2>2, <2>3, <1>6 DEF Removal, Alone
<1>13. ToDelete' /\ Dying'
  <2>1. ToDelete'
    BY <1>1 DEF ToDelete
  <2>2. ASSUME NEW x \in Objs, life'[x] = "live", m_refcount'[x] = 0
        PROVE  ev' = "delete" /\ x = ev_dir'
    <3>1. CASE x = d
      BY <3>1, <2>2, <1>1, <1>3, <1>5
    <3>2. CASE x # d
      BY <3>2, <2>2, <1>1, <1>2, <1>5, <1>i, DyingAlone
    <3> QED
      BY <3>1, <3>2
  <2> QED
    BY <2>1, <2>2, <1>6, NobodyDies
<1>14. RefcountExact'
  <2> SUFFICES ASSUME NEW x \in Objs, life[x] = "live"
               PROVE  m_refcount'[x] = (IF m_deleted'[x] THEN 0 ELSE 1)
                           + Cardinality(HandlesOf(x)') + Cardinality(ChildrenOf(x)')
    BY <1>1 DEF RefcountExact
  <2>0. /\ m_refcount[x] = (IF m_deleted[x] THEN 0 ELSE 1)
                           + Cardinality(HandlesOf(x)) + Cardinality(ChildrenOf(x))
    BY <1>1, <1>i DEF RefcountExact
  <2>1. ChildrenOf(x)' = ChildrenOf(x) /\ HandlesOf(x)' = HandlesOf(x)
    BY <1>1 DEF ChildrenOf, HandlesOf
  <2>2. CASE x = d
    <3>1. m_refcount[x] = 1 + Cardinality(HandlesOf(x)) + Cardinality(ChildrenOf(x))
      BY <2>0, <2>2, <1>2
    <3>2. m_refcount[x] - 1 = 0 + Cardinality(HandlesOf(x)) + Cardinality(ChildrenOf(x))
      BY <3>1, Counts
    <3> QED
      BY <2>1, <2>2, <3>2, <1>4, <1>5
  <2>3. CASE x # d
    BY <2>0, <2>1, <2>3, <1>4, <1>5
  <2> QED
    BY <2>2, <2>3
<1> QED
  BY <1>6, <1>7, <1>8, <1>9, <1>10, <1>11, <1>12, <1>13, <1>14 DEF TreeInv

(***************************************************************************)
(* Nobody knows an object that was never used.                             *)
(***************************************************************************)
LEMMA NobodyKnows ==
    ASSUME TreeInv, NEW o \in Unused
    PROVE  /\ o \in Objs /\ life[o] = "unused" /\ o # Root /\ o # None
           /\ m_refcount[o] = 1 /\ ~m_deleted[o] /\ Children(o) = {} /\ HandlesOf(o) = {}
           /\ \A x \in Objs : life[x] = "live" => m_parent[x] # o
           /\ \A d \in Dirs : o \notin Children(d)
<1> Unborn /\ Links /\ Nodes /\ Opened /\ TypeOK
  BY DEF TreeInv
<1>1. o \in Objs /\ life[o] = "unused" /\ o # Root /\ o # None
  BY Constants DEF Unused
<1>2. m_refcount[o] = 1 /\ ~m_deleted[o] /\ Children(o) = {}
  BY <1>1 DEF Unborn
<1>3. HandlesOf(o) = {}
  BY <1>1 DEF HandlesOf, Opened, IsLive
<1>4. \A x \in Objs : life[x] = "live" => m_parent[x] # o
  BY <1>1 DEF Nodes, Node, Top, IsLive
<1>5. \A d \in Dirs : o \notin Children(d)
  BY <1>1, LinkedAlive DEF IsLive
<1> QED
  BY <1>1, <1>2, <1>3, <1>4, <1>5

(***************************************************************************)
(* A directory gets a new file.                                            *)
(***************************************************************************)
LEMMA AddFileKeeps ==
    ASSUME TreeInv, NEW d \in Objs, NEW n \in Files, addFile(d, n)
    PROVE  TreeInv'
<1> DEFINE o == New({n})[n]
<1>1. /\ WriteLockFree \/ ev = "update"
      /\ d \in Children(Root) /\ n \notin DOMAIN m_objs[d] /\ ExistsInjection({n}, Unused)
      /\ life' = [life EXCEPT ![o] = "live"]
      /\ m_name' = [m_name EXCEPT ![o] = n]
      /\ m_parent' = [m_parent EXCEPT ![o] = d]
      /\ m_objs' = [m_objs EXCEPT ![d] = [k \in DOMAIN m_objs[d] \cup {n} |->
                                              IF k = n THEN o ELSE m_objs[d][k]]]
      /\ m_refcount' = [m_refcount EXCEPT ![d] = @ + 1]
      /\ UNCHANGED <<m_deleted, handle, workers, evthr>>
  BY DEF addFile
<1>t. ObjectsOK /\ HandlesOK /\ WorkersOK /\ EventsOK
  BY Types DEF TreeInv
<1>i. /\ TypeOK /\ Unborn /\ Links /\ Nodes /\ Unmarked /\ Removal /\ Dying /\ ToDelete /\ Opened
      /\ RefcountExact
  BY DEF TreeInv
<1>2. ev \in {"idle", "update"} /\ Alone /\ to_mark = {} /\ to_delete = {}
  BY <1>1, <1>i DEF Removal, Alone, ToDelete, WriteLockFree
<1>3. /\ IsLive(d) /\ m_parent[d] = Root /\ Top(d) /\ ~m_deleted[d] /\ d # ev_dir /\ d # Root
  <2>1. IsLive(d) /\ m_parent[d] = Root /\ ~m_deleted[d]
    BY <1>1, <1>2, <1>i, LinkedAlive
  <2>2. d # ev_dir
    BY <1>1, <1>2, <1>i, Constants DEF Removal
  <2> QED
    BY <2>1, <2>2, Constants DEF Top
<1>4. /\ o \in Objs /\ life[o] = "unused" /\ o # d /\ o # Root /\ o # None
      /\ m_refcount[o] = 1 /\ ~m_deleted[o] /\ Children(o) = {} /\ HandlesOf(o) = {}
      /\ \A x \in Objs : life[x] = "live" => m_parent[x] # o
      /\ \A e \in Dirs : o \notin Children(e)
  <2>1. o \in Unused
    BY <1>1, NewObjects
  <2> HIDE DEF o
  <2> QED
    BY <2>1, <1>3, NobodyKnows DEF IsLive
<1> HIDE DEF o
<1>5. /\ life' \in [Objs -> {"unused", "live", "freed"}]
      /\ life'[o] = "live" /\ \A x \in Objs \ {o} : life'[x] = life[x]
      /\ m_name' \in [Objs -> Names \cup {None}]
      /\ m_name'[o] = n /\ \A x \in Objs \ {o} : m_name'[x] = m_name[x]
      /\ m_parent' \in [Objs -> Objs \cup {Root, None}]
      /\ m_parent'[o] = d /\ \A x \in Objs \ {o} : m_parent'[x] = m_parent[x]
  BY <1>1, <1>4, <1>t, Constants DEF ObjectsOK
<1>6. /\ m_refcount' \in [Objs -> Nat] /\ m_refcount'[d] = m_refcount[d] + 1
      /\ \A x \in Objs \ {d} : m_refcount'[x] = m_refcount[x]
      /\ \A x \in Objs : m_refcount[x] \in Nat
  <2>1. m_refcount \in [Objs -> Nat]
    BY <1>t DEF ObjectsOK
  <2> QED
    BY <1>1, <2>1
<1>7. /\ m_objs' \in [Objs \cup {Root} -> NameMaps]
      /\ DOMAIN m_objs'[d] = DOMAIN m_objs[d] \cup {n} /\ m_objs'[d][n] = o
      /\ \A k \in DOMAIN m_objs[d] : m_objs'[d][k] = m_objs[d][k]
      /\ \A e \in Dirs \ {d} : m_objs'[e] = m_objs[e]
  <2> DEFINE f == m_objs[d]
             g == [k \in DOMAIN f \cup {n} |-> IF k = n THEN o ELSE f[k]]
  <2>1. m_objs \in [Objs \cup {Root} -> NameMaps] /\ d \in Objs \cup {Root}
    BY <1>t DEF ObjectsOK
  <2>2. DOMAIN f \subseteq Names /\ \A k \in DOMAIN f : f[k] \in Objs
    BY <2>1, NameMap
  <2>3. /\ g \in [DOMAIN f \cup {n} -> Objs] /\ g[n] = o /\ \A k \in DOMAIN f : k # n => g[k] = f[k]
        /\ DOMAIN g = DOMAIN f \cup {n} /\ n \notin DOMAIN f
    BY <2>2, <1>1, <1>4
  <2>4. g \in NameMaps
    BY <2>2, <2>3, NameMap, Constants
  <2>5. m_objs' = [m_objs EXCEPT ![d] = g]
    BY <1>1
  <2> HIDE DEF g
  <2>6. m_objs' \in [Objs \cup {Root} -> NameMaps] /\ \A e \in Dirs \ {d} : m_objs'[e] = m_objs[e]
    BY <2>1, <2>4, <2>5
  <2>7. m_objs'[d] = g
    BY <2>1, <2>5
  <2> QED
    BY <2>3, <2>6, <2>7
<1>8. /\ \A e \in Dirs \ {d} : Children(e)' = Children(e)
      /\ Children(d)' = Children(d) \cup {o}
  <2>1. \A e \in Dirs \ {d} : Children(e)' = Children(e)
    BY <1>7 DEF Children
  <2>2. \A c : c \in Children(d)' <=> c \in Children(d) \/ c = o
    BY <1>7, ChildrenAre
  <2> QED
    BY <2>1, <2>2
<1>9. WorkersOK' /\ HandlesOK' /\ Working' /\ Alone'
  <2>1. \A x \in Objs : life[x] = "live" => m_name'[x] = m_name[x]
    BY <1>4, <1>5
  <2> QED
    BY <2>1, <1>1, <1>2, Undisturbed
<1>10. TypeOK'
  <2>1. ObjectsOK'
    BY <1>1, <1>5, <1>6, <1>7, <1>t DEF ObjectsOK, NameMaps
  <2>2. EventsOK'
    BY <1>1, <1>t DEF EventsOK
  <2> QED
    BY <2>1, <2>2, <1>9, Types
<1>11. Unborn'
  <2> SUFFICES ASSUME NEW x \in Objs, life'[x] = "unused"
               PROVE  m_refcount'[x] = 1 /\ ~m_deleted'[x] /\ Children(x)' = {}
    BY DEF Unborn
  <2>1. x # o /\ x # d /\ life[x] = "unused"
    BY <1>3, <1>4, <1>5 DEF IsLive
  <2> QED
    BY <2>1, <1>1, <1>6, <1>8, <1>i DEF Unborn
<1>12. Links'
  <2> SUFFICES ASSUME NEW e \in Dirs, NEW k \in DOMAIN m_objs'[e] PROVE LinkRight(e, k)'
    BY DEF Links
  <2>1. CASE e = d /\ k = n
    BY <2>1, <1>1, <1>3, <1>4, <1>5, <1>7 DEF LinkRight, IsLive
  <2>2. CASE ~(e = d /\ k = n)
    <3>1. k \in DOMAIN m_objs[e] /\ m_objs'[e][k] = m_objs[e][k]
      BY <2>2, <1>7
    <3>2. LinkRight(e, k) /\ m_objs[e][k] # o
      BY <3>1, <1>4, <1>i, ChildrenAre DEF Links
    <3> QED
      BY <3>1, <3>2, <1>1, <1>5 DEF LinkRight, IsLive
  <2> QED
    BY <2>1, <2>2
<1>13. Nodes'
  <2> SUFFICES ASSUME NEW x \in Objs, life'[x] = "live" PROVE Node(x)'
    BY DEF Nodes
  <2>1. CASE x = o
    BY <2>1, <1>3, <1>4, <1>5 DEF Node, IsLive, Top
  <2>2. CASE x # o
    <3>1. Node(x) /\ m_parent[x] # o
      BY <2>2, <1>4, <1>5, <1>i DEF Nodes
    <3> QED
      BY <3>1, <2>2, <1>1, <1>5 DEF Node, IsLive, Top
  <2> QED
    BY <2>1, <2>2
<1>14. Unmarked'
  <2> SUFFICES ASSUME NEW x \in Objs, life'[x] = "live", ~m_deleted'[x] PROVE Held(x)'
    BY DEF Unmarked
  <2>1. CASE x = o
    BY <2>1, <1>1, <1>3, <1>5, <1>8 DEF Held
  <2>2. CASE x # o
    <3>1. Held(x)
      BY <2>2, <1>1, <1>5, <1>i DEF Unmarked
    <3> QED
      BY <3>1, <2>2, <1>1, <1>3, <1>5, <1>8 DEF Held, Top
  <2> QED
    BY <2>1, <2>2
<1>15. Removal'
  <2>1. Children(Root)' = Children(Root)
    BY <1>3, <1>8
  <2>2. ev = "update" => /\ IsLive(ev_dir)' /\ m_parent'[ev_dir'] = None /\ ~m_deleted'[ev_dir']
                         /\ Top(ev_dir)' /\ ev_dir' \notin Children(Root)'
    <3>1. ev = "update" => /\ IsLive(ev_dir) /\ m_parent[ev_dir] = None /\ ~m_deleted[ev_dir]
                           /\ ev_dir \notin Children(Root) /\ ev_dir # o
      BY <1>4, <1>i DEF Removal, IsLive
    <3> QED
      BY <3>1, <2>1, <1>1, <1>5 DEF IsLive, Top
  <2> QED
    BY <2>2, <1>1, <1>2, <1>9, <1>i DEF Removal, Alone
<1>16. ToDelete'
  BY <1>1, <1>2 DEF ToDelete
<1>17. Dying'
  <2>1. ASSUME NEW x \in Objs, life'[x] = "live", m_refcount'[x] = 0 PROVE FALSE
    <3>1. CASE x = d
      BY <3>1, <2>1, <1>6
    <3>2. CASE x = o
      BY <3>2, <2>1, <1>4, <1>6
    <3>3. CASE x # o /\ x # d
      <4>1. life[x] = "live" /\ m_refcount[x] = 0
        BY <3>3, <2>1, <1>5, <1>6
      <4> QED
        BY <4>1, <1>2, <1>i, DyingAlone
    <3> QED
      BY <3>1, <3>2, <3>3
  <2> QED
    BY <2>1, <1>9, NobodyDies
<1>18. Opened'
  BY <1>1, <1>4, <1>5, <1>i DEF Opened, IsLive
<1>19. RefcountExact'
  <2> SUFFICES ASSUME NEW x \in Objs, life'[x] = "live"
               PROVE  m_refcount'[x] = (IF m_deleted'[x] THEN 0 ELSE 1)
                           + Cardinality(HandlesOf(x)') + Cardinality(ChildrenOf(x)')
    BY DEF RefcountExact
  <2>1. HandlesOf(x)' = HandlesOf(x) /\ m_deleted'[x] = m_deleted[x]
    BY <1>1 DEF HandlesOf
  <2>2. \A c : c \in ChildrenOf(x)' <=> c \in ChildrenOf(x) \/ (c = o /\ x = d)
    BY <1>4, <1>5 DEF ChildrenOf
  <2>3. o \notin ChildrenOf(x)
    BY <1>4 DEF ChildrenOf
  <2>4. x # o => m_refcount[x] = (IF m_deleted[x] THEN 0 ELSE 1)
                           + Cardinality(HandlesOf(x)) + Cardinality(ChildrenOf(x))
    BY <1>5, <1>i DEF RefcountExact
  <2>5. CASE x = d
    <3>1. ChildrenOf(x)' = ChildrenOf(x) \cup {o}
      BY <2>2, <2>5
    <3>2. Cardinality(ChildrenOf(x)') = Cardinality(ChildrenOf(x)) + 1
      BY <3>1, <2>3, OneMore, Counts
    <3>3. m_refcount[x] = 1 + Cardinality(HandlesOf(x)) + Cardinality(ChildrenOf(x))
      BY <2>4, <2>5, <1>3, <1>4
    <3>4. m_refcount[x] + 1 = 1 + Cardinality(HandlesOf(x)) + (Cardinality(ChildrenOf(x)) + 1)
      BY <3>3, Counts
    <3> QED
      BY <2>1, <2>5, <3>2, <3>4, <1>3, <1>6
  <2>6. CASE x = o
    <3>1. ChildrenOf(x)' = {} /\ HandlesOf(x)' = {}
      <4>1. \A c \in Objs : m_parent[c] = o => life[c] # "live"
        BY <1>4
      <4>2. ChildrenOf(x) = {}
        BY <4>1, <2>6 DEF ChildrenOf
      <4> QED
        BY <4>2, <2>1, <2>2, <2>6, <1>4
    <3>2. Cardinality({}) = 0
      BY FS_EmptySet
    <3> QED
      BY <3>1, <3>2, <2>1, <2>6, <1>4, <1>6
  <2>7. CASE x # d /\ x # o
    <3>1. ChildrenOf(x)' = ChildrenOf(x)
      BY <2>2, <2>7
    <3> QED
      BY <3>1, <2>1, <2>4, <2>7, <1>6
  <2> QED
    BY <2>5, <2>6, <2>7
<1> QED
  BY <1>9, <1>10, <1>11, <1>12, <1>13, <1>14, <1>15, <1>16, <1>17, <1>18, <1>19 DEF TreeInv

(***************************************************************************)
(* A directory with its files is built, and linked or a duplicate.         *)
(***************************************************************************)
LEMMA Built ==
    ASSUME TreeInv, WriteLockFree, NEW w \in Windows, NEW files \in SUBSET Files,
           NEW parent \in {Root, None}, Construct(w, files, NewOf(w, files), parent),
           NEW b, b = NewOf(w, files)[w],
           m_objs' \in [Objs \cup {Root} -> NameMaps],
           m_objs'[b] = Restrict(NewOf(w, files), files),
           \A e \in Objs : e # b => m_objs'[e] = m_objs[e],
           UNCHANGED <<m_deleted, handle, workers, to_mark, to_delete>>,
           \/ /\ parent = Root /\ w \notin DOMAIN m_objs[Root]
              /\ DOMAIN m_objs'[Root] = DOMAIN m_objs[Root] \cup {w} /\ m_objs'[Root][w] = b
              /\ \A n \in DOMAIN m_objs[Root] : m_objs'[Root][n] = m_objs[Root][n]
              /\ UNCHANGED <<ev, ev_dir>>
           \/ /\ parent = None /\ m_objs'[Root] = m_objs[Root]
              /\ ev' = "update" /\ ev_dir' = b
    PROVE  TreeInv'
<1> DEFINE new == NewOf(w, files)
           F   == FilesOf(w, files)
<1>t. ObjectsOK /\ HandlesOK /\ WorkersOK /\ EventsOK
  BY Types DEF TreeInv
<1>i. /\ TypeOK /\ Unborn /\ Links /\ Nodes /\ Unmarked /\ Removal /\ Dying /\ ToDelete /\ Opened
      /\ RefcountExact
  BY DEF TreeInv
<1>0. b = new[w]
  OBVIOUS
<1>1. /\ b \in Unused /\ F \subseteq Unused /\ b \notin F
      /\ \A o \in Objs \ F : o # b =>
            /\ life'[o] = life[o] /\ m_name'[o] = m_name[o]
            /\ m_parent'[o] = m_parent[o] /\ m_refcount'[o] = m_refcount[o]
      /\ life'[b] = "live" /\ m_name'[b] = w /\ m_parent'[b] = parent
      /\ m_refcount'[b] = 1 + Cardinality(F)
  BY <1>0, <1>i, Constructed
<1>m. ObjectsOK' /\ DOMAIN m_objs'[b] = files /\ \A n \in files : m_objs'[b][n] = new[n]
  <2>1. /\ ObjectsOK' <=> m_objs' \in [Objs \cup {Root} -> NameMaps]
                          /\ m_deleted' \in [Objs -> BOOLEAN]
        /\ DOMAIN Restrict(new, files) = files
        /\ \A n \in files : Restrict(new, files)[n] = new[n]
    BY <1>i, Constructed
  <2> QED
    BY <2>1, <1>t DEF ObjectsOK
<1>n. \A n \in files : /\ life'[new[n]] = "live" /\ m_name'[new[n]] = n /\ m_parent'[new[n]] = b
                       /\ m_refcount'[new[n]] = m_refcount[new[n]]
  BY <1>0, <1>i, Constructed
<1>f. (\A n \in files : new[n] \in F) /\ \A o \in F : \E n \in files : o = new[n]
  BY DEF FilesOf
<1>u. m_deleted' = m_deleted /\ handle' = handle
  OBVIOUS
<1> HIDE DEF new, F
<1>2. \A o \in F : /\ life'[o] = "live" /\ m_name'[o] \in files /\ m_parent'[o] = b
                   /\ m_refcount'[o] = m_refcount[o]
                   /\ o \in Children(b)'
  <2>1. \A n \in files : new[n] \in Children(b)'
    BY <1>m, ChildrenAre
  <2> QED
    BY <2>1, <1>n, <1>f
<1>b. /\ b \in Objs /\ life[b] = "unused" /\ b # Root /\ b # None
      /\ m_refcount[b] = 1 /\ ~m_deleted[b] /\ Children(b) = {} /\ HandlesOf(b) = {}
      /\ \A x \in Objs : life[x] = "live" => m_parent[x] # b
      /\ \A d \in Dirs : b \notin Children(d)
  BY <1>1, NobodyKnows
<1>3. \A o \in F :
         /\ o \in Objs /\ life[o] = "unused" /\ o # Root /\ o # None
         /\ m_refcount[o] = 1 /\ ~m_deleted[o] /\ Children(o) = {} /\ HandlesOf(o) = {}
         /\ \A x \in Objs : life[x] = "live" => m_parent[x] # o
         /\ \A d \in Dirs : o \notin Children(d)
  BY <1>1, NobodyKnows
<1>4. ev = "idle" /\ ev_dir = None /\ Alone /\ to_mark = {} /\ to_delete = {}
  BY <1>i DEF Removal, Alone, ToDelete, WriteLockFree
<1>5. /\ \A e \in Objs : e # b => Children(e)' = Children(e)
      /\ \A c \in Children(b)' : c \in F
      /\ parent = Root => Children(Root)' = Children(Root) \cup {b}
      /\ parent = None => Children(Root)' = Children(Root)
  <2>1. \A e \in Objs : e # b => Children(e)' = Children(e)
    BY DEF Children
  <2>2. \A c \in Children(b)' : c \in F
    <3> SUFFICES ASSUME NEW c \in Children(b)' PROVE c \in F
      OBVIOUS
    <3>1. PICK n \in DOMAIN m_objs'[b] : m_objs'[b][n] = c
      BY ChildrenAre
    <3> QED
      BY <3>1, <1>m, <1>f
  <2>3. ASSUME parent = Root PROVE Children(Root)' = Children(Root) \cup {b}
    <3>1. /\ DOMAIN m_objs'[Root] = DOMAIN m_objs[Root] \cup {w} /\ m_objs'[Root][w] = b
          /\ \A n \in DOMAIN m_objs[Root] : m_objs'[Root][n] = m_objs[Root][n]
      BY <2>3, Constants
    <3>2. \A c : c \in Children(Root)' <=> c \in Children(Root) \/ c = b
      BY <3>1, ChildrenAre
    <3> QED
      BY <3>2
  <2>4. ASSUME parent = None PROVE Children(Root)' = Children(Root)
    BY <2>4, Constants DEF Children
  <2> QED
    BY <2>1, <2>2, <2>3, <2>4
<1>6. \A x \in Objs : life'[x] = "live" => life[x] = "live" \/ x = b \/ x \in F
  BY <1>1
<1>7. \A x \in Objs : life[x] = "live" =>
         /\ x # b /\ x \notin F /\ life'[x] = "live" /\ m_name'[x] = m_name[x]
         /\ m_parent'[x] = m_parent[x] /\ m_refcount'[x] = m_refcount[x]
  BY <1>1, <1>b, <1>3
<1>8. WorkersOK' /\ HandlesOK' /\ Working' /\ Alone'
  BY <1>4, <1>7, Undisturbed
<1>9. TypeOK'
  <2>1. EventsOK'
    BY <1>b, <1>t DEF EventsOK
  <2> QED
    BY <2>1, <1>m, <1>8, Types
<1>10. Unborn'
  <2> SUFFICES ASSUME NEW x \in Objs, life'[x] = "unused"
               PROVE  m_refcount'[x] = 1 /\ ~m_deleted'[x] /\ Children(x)' = {}
    BY DEF Unborn
  <2>1. x # b /\ x \notin F
    BY <1>1, <1>2
  <2>2. life[x] = "unused" /\ m_refcount'[x] = m_refcount[x] /\ Children(x)' = Children(x)
    BY <2>1, <1>1, <1>5
  <2> QED
    BY <2>2, <1>i DEF Unborn
<1>11. Links'
  <2> SUFFICES ASSUME NEW e \in Dirs, NEW n \in DOMAIN m_objs'[e] PROVE LinkRight(e, n)'
    BY DEF Links
  <2>1. CASE e = b
    <3>1. n \in files /\ m_objs'[b][n] = new[n] /\ new[n] \in F
      BY <2>1, <1>m, <1>f
    <3>2. /\ new[n] \in Objs /\ life'[new[n]] = "live" /\ m_name'[new[n]] = n
          /\ m_parent'[new[n]] = b /\ ~m_deleted[new[n]] /\ b # Root /\ n \in Files
      BY <3>1, <1>n, <1>b, <1>3, Constants
    <3> QED
      BY <2>1, <3>1, <3>2 DEF LinkRight, IsLive
  <2>2. CASE parent = Root /\ e = Root /\ n = w
    <3>1. m_objs'[e][n] = b /\ b \in Objs /\ ~m_deleted[b]
      BY <2>2, <1>b, Constants
    <3> QED
      BY <2>2, <3>1, <1>1 DEF LinkRight, IsLive
  <2>3. CASE e # b /\ ~(parent = Root /\ e = Root /\ n = w)
    <3>1. n \in DOMAIN m_objs[e] /\ m_objs'[e][n] = m_objs[e][n]
      BY <2>3
    <3>2. LinkRight(e, n)
      BY <3>1, <1>i DEF Links
    <3>3. ~m_deleted[m_objs[e][n]]
      BY <3>2, <1>4 DEF LinkRight
    <3> QED
      BY <3>1, <3>2, <3>3, <1>7 DEF LinkRight, IsLive
  <2> QED
    BY <2>1, <2>2, <2>3
<1>12. Nodes'
  <2> SUFFICES ASSUME NEW x \in Objs, life'[x] = "live" PROVE Node(x)'
    BY DEF Nodes
  <2>1. CASE x = b
    <3>1. m_name'[b] \in Windows /\ m_parent'[b] \in {Root, None}
      BY <1>1
    <3>2. m_parent'[b] = None => b = ev_dir' /\ ev' # "delete"
      BY <1>1, Constants
    <3> QED
      BY <2>1, <3>1, <3>2 DEF Node, Top
  <2>2. CASE x \in F
    BY <2>2, <1>1, <1>2, <1>b DEF Node, IsLive, Top
  <2>3. CASE life[x] = "live"
    <3>1. Node(x) /\ m_parent[x] # None
      BY <2>3, <1>4, <1>i, Constants DEF Nodes, Node, IsLive
    <3>2. /\ m_name'[x] = m_name[x] /\ m_parent'[x] = m_parent[x]
          /\ IsLive(m_parent[x]) => /\ life'[m_parent[x]] = "live"
                                    /\ m_parent'[m_parent[x]] = m_parent[m_parent[x]]
      BY <2>3, <1>7 DEF IsLive
    <3> QED
      BY <3>1, <3>2 DEF Node, Top, IsLive
  <2> QED
    BY <1>6, <2>1, <2>2, <2>3
<1>13. Unmarked'
  <2> SUFFICES ASSUME NEW x \in Objs, life'[x] = "live", ~m_deleted'[x] PROVE Held(x)'
    BY DEF Unmarked
  <2>1. CASE x = b
    <3>1. m_parent'[b] \in {Root, None} /\ (b \in Children(Root)' \/ b = ev_dir')
      BY <1>1, <1>5
    <3> QED
      BY <2>1, <3>1 DEF Held, Top
  <2>2. CASE x \in F
    BY <2>2, <1>2, <1>b DEF Held
  <2>3. CASE life[x] = "live"
    <3>1. Held(x) /\ x # None
      BY <2>3, <1>i, Constants DEF Unmarked
    <3>2. Top(x) => x \in Children(Root)'
      BY <3>1, <1>4, <1>5, Constants DEF Held, Top
    <3>3. ASSUME ~Top(x) PROVE Held(x)'
      <4>1. PICK d \in Objs : d = m_parent[x] /\ x \in Children(d) /\ ~m_deleted[d]
        BY <3>1, <3>3 DEF Held
      <4>2. m_parent'[x] = d /\ x \in Children(d)'
        BY <4>1, <2>3, <1>b, <1>5, <1>7
      <4> QED
        BY <4>1, <4>2, <1>u DEF Held
    <3> QED
      BY <2>3, <3>2, <3>3, <1>7 DEF Held, Top
  <2> QED
    BY <1>6, <2>1, <2>2, <2>3
<1>14. Removal'
  <2>1. CASE parent = Root
    <3>1. ev' = "idle" /\ ev_dir' = None
      BY <2>1, <1>4, Constants
    <3> QED
      BY <3>1, <1>4 DEF Removal
  <2>2. CASE parent = None
    <3>1. ev' = "update" /\ ev_dir' = b
      BY <2>2, Constants
    <3>2. b \notin Children(Root)'
      BY <2>2, <1>b, <1>5
    <3>3. IsLive(b)' /\ m_parent'[b] = None
      BY <2>2, <1>1, <1>b DEF IsLive
    <3>4. ~m_deleted'[b]
      BY <1>b, <1>u
    <3> QED
      BY <3>1, <3>2, <3>3, <3>4, <1>4, <1>8 DEF Removal, Alone, Top, IsLive
  <2> QED
    BY <2>1, <2>2
<1>15. ToDelete'
  BY <1>4 DEF ToDelete
<1>c. IsFiniteSet(F) /\ Cardinality(F) \in Nat
  <2>1. F \in SUBSET Objs
    BY <1>3
  <2>2. IsFiniteSet(F)
    BY <2>1, FS_Subset, EntryTreeAssumption
  <2> QED
    BY <2>2, FS_CardinalityType
<1>16. Dying'
  <2>1. ASSUME NEW x \in Objs, life'[x] = "live", m_refcount'[x] = 0 PROVE FALSE
    <3>1. CASE x = b
      BY <3>1, <2>1, <1>1, <1>c
    <3>2. CASE x \in F
      BY <3>2, <2>1, <1>2, <1>3
    <3>3. CASE life[x] = "live"
      BY <3>3, <2>1, <1>4, <1>7, <1>i, DyingAlone
    <3> QED
      BY <2>1, <1>6, <3>1, <3>2, <3>3
  <2> QED
    BY <2>1, <1>8, NobodyDies
<1>17. Opened'
  <2> SUFFICES ASSUME NEW h \in Handles, handle[h] # None
               PROVE  /\ IsLive(handle[h])' /\ m_parent'[handle[h]] \in Objs
                      /\ m_parent'[m_parent'[handle[h]]] = Root
    BY DEF Opened, IsLive
  <2>1. IsLive(handle[h]) /\ m_parent[handle[h]] \in Objs /\ m_parent[m_parent[handle[h]]] = Root
    BY <1>i DEF Opened
  <2>2. m_parent[handle[h]] # b /\ m_parent[handle[h]] \notin F
    BY <2>1, <1>b, <1>3 DEF IsLive
  <2>3. m_parent'[m_parent[handle[h]]] = Root
    BY <2>1, <2>2, <1>1
  <2> QED
    BY <2>1, <2>3, <1>7 DEF IsLive
<1>18. RefcountExact'
  <2> SUFFICES ASSUME NEW x \in Objs, life'[x] = "live"
               PROVE  m_refcount'[x] = (IF m_deleted'[x] THEN 0 ELSE 1)
                           + Cardinality(HandlesOf(x)') + Cardinality(ChildrenOf(x)')
    BY DEF RefcountExact
  <2>1. HandlesOf(x)' = HandlesOf(x) /\ m_deleted'[x] = m_deleted[x]
    BY DEF HandlesOf
  <2>2. Cardinality({}) = 0
    BY FS_EmptySet
  <2>3. CASE x = b
    <3>1. ChildrenOf(b)' = F
      <4>1. ASSUME NEW c \in Objs, life'[c] = "live", m_parent'[c] = b PROVE c \in F
        <5>1. CASE c = b
          BY <4>1, <5>1, <1>1, <1>b
        <5>2. CASE life[c] = "live"
          BY <4>1, <5>2, <1>b, <1>7
        <5> QED
          BY <4>1, <5>1, <5>2, <1>6
      <4>2. \A c \in F : c \in Objs /\ life'[c] = "live" /\ m_parent'[c] = b
        BY <1>2, <1>3
      <4> QED
        BY <4>1, <4>2 DEF ChildrenOf
    <3>2. HandlesOf(b)' = {} /\ ~m_deleted'[b]
      BY <2>1, <2>3, <1>b, <1>u
    <3>3. m_refcount'[b] = 1 + 0 + Cardinality(F)
      BY <1>1, <1>c
    <3> QED
      BY <2>2, <2>3, <3>1, <3>2, <3>3
  <2>4. CASE x \in F
    <3>1. ChildrenOf(x)' = {}
      <4>1. ASSUME NEW c \in Objs, life'[c] = "live", m_parent'[c] = x PROVE FALSE
        <5>1. CASE c = b
          BY <4>1, <5>1, <2>4, <1>1, <1>3
        <5>2. CASE c \in F
          BY <4>1, <5>2, <2>4, <1>1, <1>2
        <5>3. CASE life[c] = "live"
          BY <4>1, <5>3, <2>4, <1>3, <1>7
        <5> QED
          BY <4>1, <5>1, <5>2, <5>3, <1>6
      <4> QED
        BY <4>1 DEF ChildrenOf
    <3>2. HandlesOf(x)' = {} /\ ~m_deleted'[x] /\ m_refcount'[x] = 1
      BY <2>1, <2>4, <1>2, <1>3
    <3> QED
      BY <2>2, <3>1, <3>2
  <2>5. CASE life[x] = "live"
    <3>1. ChildrenOf(x)' = ChildrenOf(x)
      <4>1. ASSUME NEW c \in Objs, life'[c] = "live", m_parent'[c] = x
            PROVE  life[c] = "live" /\ m_parent[c] = x
        <5>1. CASE c = b
          BY <4>1, <5>1, <1>1, <2>5, Constants
        <5>2. CASE c \in F
          BY <4>1, <5>2, <2>5, <1>2, <1>7
        <5>3. CASE life[c] = "live"
          BY <4>1, <5>3, <1>7
        <5> QED
          BY <4>1, <5>1, <5>2, <5>3, <1>6
      <4> QED
        BY <4>1, <1>7 DEF ChildrenOf
    <3>2. m_refcount[x] = (IF m_deleted[x] THEN 0 ELSE 1)
                          + Cardinality(HandlesOf(x)) + Cardinality(ChildrenOf(x))
      BY <2>5, <1>i DEF RefcountExact
    <3> QED
      BY <2>1, <2>5, <3>1, <3>2, <1>7
  <2> QED
    BY <1>6, <2>3, <2>4, <2>5
<1> QED
  BY <1>8, <1>9, <1>10, <1>11, <1>12, <1>13, <1>14, <1>15, <1>16, <1>17, <1>18 DEF TreeInv

(***************************************************************************)
(* A window directory is added, under a name that is free ...              *)
(***************************************************************************)
LEMMA AddWindowKeeps ==
    ASSUME TreeInv, NEW w \in Windows, NEW files \in SUBSET Files, addWindow(w, files)
    PROVE  TreeInv'
<1> DEFINE new == NewOf(w, files)
           b   == new[w]
           f   == m_objs[Root]
           g   == [n \in DOMAIN f \cup {w} |-> IF n = w THEN b ELSE f[n]]
           h   == Restrict(new, files)
<1>1. /\ WriteLockFree /\ w \notin DOMAIN m_objs[Root]
      /\ Construct(w, files, NewOf(w, files), Root)
      /\ m_objs' = [d \in Objs \cup {Root} |-> IF d = Root THEN g
                                               ELSE IF d = b THEN h ELSE m_objs[d]]
      /\ UNCHANGED <<m_deleted, handle, workers, evthr>>
  BY DEF addWindow, NewOf
<1>2. TypeOK /\ m_objs \in [Objs \cup {Root} -> NameMaps]
  BY Types DEF TreeInv, ObjectsOK
<1>3. b \in Unused /\ h \in NameMaps
  BY <1>1, <1>2, Constructed
<1>4. b \in Objs /\ b # Root
  BY <1>3, Constants DEF Unused
<1> HIDE DEF b, h
<1>5. /\ DOMAIN g = DOMAIN f \cup {w} /\ g[w] = b /\ \A n \in DOMAIN f : g[n] = f[n]
      /\ g \in NameMaps
  <2>1. DOMAIN f \subseteq Names /\ \A n \in DOMAIN f : f[n] \in Objs
    BY <1>2, NameMap
  <2>2. g \in [DOMAIN f \cup {w} -> Objs] /\ DOMAIN f \cup {w} \in SUBSET Names
    BY <2>1, <1>4, Constants
  <2> QED
    BY <2>2, <1>1, NameMap
<1> HIDE DEF g
<1>6. /\ m_objs' \in [Objs \cup {Root} -> NameMaps]
      /\ m_objs'[Root] = g /\ m_objs'[b] = h
      /\ \A e \in Objs : e # b => m_objs'[e] = m_objs[e]
  BY <1>1, <1>2, <1>3, <1>4, <1>5, Constants
<1>7. /\ DOMAIN m_objs'[Root] = DOMAIN m_objs[Root] \cup {w} /\ m_objs'[Root][w] = b
      /\ \A n \in DOMAIN m_objs[Root] : m_objs'[Root][n] = m_objs[Root][n]
  BY <1>5, <1>6
<1>8. b = NewOf(w, files)[w] /\ m_objs'[b] = Restrict(NewOf(w, files), files)
  BY <1>6 DEF b, h
<1>9. Root \in {Root, None} /\ UNCHANGED <<ev, ev_dir, to_mark, to_delete>>
  BY <1>1
<1> HIDE DEF f
<1> QED
  BY <1>1, <1>6, <1>7, <1>8, <1>9, Built

(***************************************************************************)
(* ... or not.                                                             *)
(***************************************************************************)
LEMMA DoubleAddKeeps ==
    ASSUME TreeInv, NEW w \in Windows, NEW files \in SUBSET Files, doubleAdd(w, files)
    PROVE  TreeInv'
<1> DEFINE new == NewOf(w, files)
           b   == new[w]
           h   == Restrict(new, files)
<1>1. /\ WriteLockFree
      /\ Construct(w, files, NewOf(w, files), None)
      /\ m_objs' = [m_objs EXCEPT ![b] = h]
      /\ ev' = "update" /\ ev_dir' = b
      /\ UNCHANGED <<m_deleted, handle, workers, to_mark, to_delete>>
  BY DEF doubleAdd, NewOf
<1>2. TypeOK /\ m_objs \in [Objs \cup {Root} -> NameMaps]
  BY Types DEF TreeInv, ObjectsOK
<1>3. b \in Unused /\ h \in NameMaps
  BY <1>1, <1>2, Constructed
<1>4. b \in Objs /\ b # Root
  BY <1>3, Constants DEF Unused
<1> HIDE DEF b, h
<1>5. /\ m_objs' \in [Objs \cup {Root} -> NameMaps]
      /\ m_objs'[Root] = m_objs[Root] /\ m_objs'[b] = h
      /\ \A e \in Objs : e # b => m_objs'[e] = m_objs[e]
  BY <1>1, <1>2, <1>3, <1>4
<1> QED
  BY <1>1, <1>5, Built DEF b, h

-----------------------------------------------------------------------------
(* The theorems.                                                           *)

(***************************************************************************)
(* The empty tree has the invariant ...                                    *)
(***************************************************************************)
LEMMA TreeInit == Init => TreeInv
<1> SUFFICES ASSUME Init PROVE TreeInv
  OBVIOUS
<1>1. \A d \in Dirs : m_objs[d] = <<>> /\ Children(d) = {}
  BY NameMap DEF Init, Children, Range
<1>2. TypeOK
  BY NameMap, Constants DEF Init, TypeOK, NameMaps
<1>3. /\ \A o \in Objs : life[o] = "unused" /\ m_refcount[o] = 1 /\ ~m_deleted[o]
      /\ \A h \in Handles : handle[h] = None
      /\ \A t \in Threads : pc[t] = "idle"
      /\ ev = "idle" /\ ev_dir = None /\ to_mark = {} /\ to_delete = {}
  BY DEF Init
<1>4. Unborn /\ Links /\ Nodes /\ Unmarked /\ RefcountExact /\ Opened
  BY <1>1, <1>3, NameMap DEF Unborn, Links, Nodes, Unmarked, RefcountExact, Opened
<1>5. Removal /\ ToDelete /\ Dying /\ Working
  BY <1>3 DEF Removal, ToDelete, Dying, Working
<1> QED
  BY <1>2, <1>4, <1>5 DEF TreeInv

(***************************************************************************)
(* ... and every step keeps it.                                            *)
(***************************************************************************)
LEMMA TreeNext == TreeInv /\ [Next]_vars => TreeInv'
<1> SUFFICES ASSUME TreeInv, [Next]_vars PROVE TreeInv'
  OBVIOUS
<1>1. ASSUME NEW w \in Windows, NEW files \in SUBSET Files, addWindow(w, files) PROVE TreeInv'
  BY <1>1, AddWindowKeeps
<1>2. ASSUME NEW w \in Windows, NEW files \in SUBSET Files, doubleAdd(w, files) PROVE TreeInv'
  BY <1>2, DoubleAddKeeps
<1>3. ASSUME NEW w \in Windows, removeEntry(w) PROVE TreeInv'
  BY <1>3, RemoveEntryKeeps
<1>4. ASSUME NEW d \in Objs, NEW n \in Files, addFile(d, n) PROVE TreeInv'
  BY <1>4, AddFileKeeps
<1>5. CASE deleteDuplicate
  BY <1>5, DeleteDuplicateKeeps
<1>6. CASE removalStep
  <2>1. ASSUME NEW c \in Objs, markChild(c) PROVE TreeInv'
    BY <2>1, MarkChildKeeps
  <2>2. ASSUME NEW c \in Objs, deleteChild(c) PROVE TreeInv'
    BY <2>2, DeleteChildKeeps
  <2>3. CASE clearMap
    BY <2>3, ClearMapKeeps
  <2>4. CASE markDirectory
    BY <2>4, MarkDirectoryKeeps
  <2>5. CASE deleteDirectory
    BY <2>5, DeleteDirectoryKeeps
  <2> QED
    BY <1>6, <2>1, <2>2, <2>3, <2>4, <2>5 DEF removalStep
<1>7. ASSUME NEW t \in Threads, NEW path \in Paths, lookUp(t, path) PROVE TreeInv'
  BY <1>7, LookUpKeeps
<1>8. ASSUME NEW t \in Threads, getStat(t) \/ readdir(t) \/ endOperation(t) PROVE TreeInv'
  <2>1. pc[t] # "delete" /\ GoIdle(t) /\ UNCHANGED <<objects, handle, evthr>>
    BY <1>8 DEF getStat, readdir, endOperation
  <2> QED
    BY <2>1, GoIdleKeeps
<1>9. ASSUME NEW t \in Threads, NEW h \in Handles, createOpenContext(t, h) PROVE TreeInv'
  BY <1>9, CreateOpenContextKeeps
<1>10. ASSUME NEW t \in Threads, NEW h \in Handles, beginOperation(t, h) PROVE TreeInv'
  BY <1>10, BeginOperationKeeps
<1>11. ASSUME NEW t \in Threads, NEW h \in Handles, destroyOpenContext(t, h) PROVE TreeInv'
  BY <1>11, DestroyOpenContextKeeps
<1>12. ASSUME NEW t \in Threads, readEvent(t) PROVE TreeInv'
  BY <1>12, ReadEventKeeps
<1>13. ASSUME NEW t \in Threads, deleteEntry(t) PROVE TreeInv'
  BY <1>13, DeleteEntryKeeps
<1>14. ASSUME NEW t \in Threads, NEW h \in Handles, statHandle(t, h) PROVE TreeInv'
  BY <1>14, StatHandleKeeps
<1>15. CASE UNCHANGED vars
  <2>1. /\ UNCHANGED <<objects, handle, evthr>> /\ UNCHANGED workers
        /\ UNCHANGED <<life, m_name, m_parent, m_objs, m_deleted, evthr>>
    BY <1>15 DEF vars
  <2>2. WorkersOK /\ Removal /\ Dying /\ Working
    BY Types DEF TreeInv
  <2>3. WorkersOK' /\ Removal' /\ Dying'
    BY <2>1, <2>2 DEF WorkersOK, Removal, Dying, Deletes, IsLive, Top, Children
  <2>4. Working'
    BY <2>1, <2>2 DEF Working, Linked, Children
  <2> QED
    BY <2>1, <2>3, <2>4, TreeFrame, RestFrame, Types DEF TreeInv
<1> QED
  BY <1>1, <1>2, <1>3, <1>4, <1>5, <1>6, <1>7, <1>8, <1>9, <1>10, <1>11, <1>12, <1>13, <1>14,
     <1>15
     DEF Next

(***************************************************************************)
(* Every variable has its type, whatever the objects, names, threads,      *)
(* handles and paths are.                                                  *)
(***************************************************************************)
THEOREM TypeCorrect == Spec => []TypeOK
<1>1. TreeInv => TypeOK
  BY DEF TreeInv
<1> QED
  BY TreeInit, TreeNext, <1>1, PTL DEF Spec

(***************************************************************************)
(* The counts of references are exact through all that opens, closes,      *)
(* adds, removes and deletes entries (Entry.hxx:270-287).                  *)
(***************************************************************************)
THEOREM RefcountCorrect == Spec => []RefcountExact
<1>1. TreeInv => RefcountExact
  BY DEF TreeInv
<1> QED
  BY TreeInit, TreeNext, <1>1, PTL DEF Spec

(***************************************************************************)
(* Nobody touches freed memory: not a handle, a link, a worker, nor the    *)
(* event thread amid a removal.                                            *)
(***************************************************************************)
THEOREM NoUseAfterFreeHolds == Spec => []NoUseAfterFree
<1>1. TreeInv => NoUseAfterFree
  <2> SUFFICES ASSUME TreeInv PROVE NoUseAfterFree
    OBVIOUS
  <2>i. /\ TypeOK /\ Links /\ Nodes /\ Removal /\ ToDelete /\ Dying /\ Opened /\ Working
        /\ WorkersOK
    BY Types DEF TreeInv
  <2>1. \A o \in Objs : IsLive(o) /\ m_parent[o] # None => Live(o) /\ Live(m_parent[o])
    BY <2>i DEF Nodes, Node, Top, IsLive, Live
  <2>2. \A h \in Handles : handle[h] # None => Live(handle[h]) /\ Live(m_parent[handle[h]])
    BY <2>1, <2>i, Constants DEF Opened, IsLive
  <2>3. \A d \in Children(Root) : Live(d) /\ \A f \in Children(d) : Live(f)
    BY <2>i, LinkedAlive DEF IsLive, Live
  <2>4. ASSUME NEW t \in Threads, pc[t] # "idle"
        PROVE  Live(target[t]) /\ (target[t] # Root => Live(m_parent[target[t]]))
    <3>1. pc[t] \in {"found", "stat", "read", "blocked", "delete"}
      BY <2>4, <2>i DEF WorkersOK
    <3>2. CASE pc[t] = "found"
      <4>1. Linked(target[t])
        BY <3>2, <2>i DEF Working
      <4>2. target[t] # Root => IsLive(target[t]) /\ m_parent[target[t]] # None
        BY <4>1, <2>i, LinkedAlive, Constants
      <4> QED
        BY <4>2, <2>1 DEF IsLive, Live
    <3>3. CASE pc[t] \in {"stat", "read", "blocked"}
      <4>1. using[t] \in Handles /\ handle[using[t]] = target[t] /\ target[t] \in Objs
        BY <3>3, <2>i DEF Working
      <4> QED
        BY <4>1, <2>2, Constants
    <3>4. CASE pc[t] = "delete"
      <4>1. IsLive(target[t]) /\ ev = "idle"
        BY <3>4, <2>i DEF Dying, Removal
      <4>2. m_parent[target[t]] # None
        BY <4>1, <2>i, Constants DEF Nodes, Node, IsLive, Removal
      <4> QED
        BY <4>1, <4>2, <2>1 DEF IsLive
    <3> QED
      BY <3>1, <3>2, <3>3, <3>4
  <2>5. \A o \in to_mark \cup to_delete : Live(o)
    <3>1. ASSUME NEW o \in to_mark PROVE Live(o)
      <4>1. o \in Children(ev_dir) /\ ev_dir \in Dirs
        BY <3>1, <2>i DEF Removal, IsLive
      <4> QED
        BY <4>1, <2>i, LinkedAlive DEF IsLive, Live
    <3> QED
      BY <3>1, <2>i DEF ToDelete, IsLive, Live
  <2>6. ev # "idle" => Live(ev_dir)
    BY <2>i DEF Removal, IsLive, Live
  <2> QED
    BY <2>2, <2>3, <2>4, <2>5, <2>6 DEF NoUseAfterFree
<1> QED
  BY TreeInit, TreeNext, <1>1, PTL DEF Spec

(***************************************************************************)
(* Between the event thread's writes what lives is linked or marked, and   *)
(* an operation that was allowed works on a linked entry.                  *)
(***************************************************************************)
THEOREM LinkedOrDeletedHolds == Spec => []LinkedOrDeleted
<1>1. TreeInv => LinkedOrDeleted
  <2> SUFFICES ASSUME TreeInv PROVE LinkedOrDeleted
    OBVIOUS
  <2>i. /\ TypeOK /\ Links /\ Nodes /\ Unmarked /\ Removal /\ Opened /\ Working
    BY DEF TreeInv
  <2>1. ASSUME ev = "idle", NEW o \in Objs, life[o] = "live" PROVE Linked(o) <=> ~m_deleted[o]
    <3>1. o # Root
      BY Constants
    <3>2. Linked(o) => ~m_deleted[o]
      BY <3>1, <2>1, <2>i, LinkedAlive
    <3>3. ~m_deleted[o] => Linked(o)
      BY <2>1, <2>i, UnmarkedLinked
    <3> QED
      BY <3>2, <3>3
  <2>2. ASSUME NEW t \in Threads, pc[t] = "read", m_name[target[t]] \notin EventFiles
        PROVE  Linked(target[t])
    <3>1. /\ target[t] \in Objs /\ ~m_deleted[target[t]]
          /\ using[t] \in Handles /\ handle[using[t]] = target[t]
      BY <2>2, <2>i DEF Working
    <3>2. life[target[t]] = "live" /\ ev = "idle"
      BY <3>1, <2>2, <2>i, Constants DEF Opened, IsLive, Removal
    <3> QED
      BY <3>1, <3>2, <2>i, UnmarkedLinked
  <2> QED
    BY <2>1, <2>2, <2>i DEF LinkedOrDeleted, Working
<1> QED
  BY TreeInit, TreeNext, <1>1, PTL DEF Spec

(***************************************************************************)
(* In every tree the lookup finds each entry by its paths and nothing by   *)
(* any other path (RootEntry::findEntry).                                  *)
(***************************************************************************)
THEOREM LookupHolds == Spec => []LookupRight
<1>1. TreeInv => LookupRight
  <2> SUFFICES ASSUME TreeInv, NEW path \in Paths
               PROVE  IF findEntry(path) # None
                      THEN Linked(findEntry(path)) /\ path \in PathsOf(findEntry(path))
                      ELSE \A o \in Objs \cup {Root} : Linked(o) => path \notin PathsOf(o)
    BY DEF LookupRight
  <2>1. TypeOK /\ Links /\ IsPath(path)
    BY EntryTreeAssumption DEF TreeInv, IsPath
  <2>2. None \notin Dirs
    BY Constants
  <2> QED
    BY <2>1, <2>2, FoundRight, AllFound
<1> QED
  BY TreeInit, TreeNext, <1>1, PTL DEF Spec

-----------------------------------------------------------------------------
(* Nothing is left behind.                                                 *)

(***************************************************************************)
(* The event thread or a worker is about to free the entry.                *)
(***************************************************************************)
BeingFreed(o) ==
    \/ o \in to_delete
    \/ ev = "delete" /\ ev_dir = o
    \/ \E t \in Threads : Deletes(t, o)

(***************************************************************************)
(* An entry that was removed and that nobody has open, nor a file in it,   *)
(* is being freed, or one of its files is, with which its turn comes.      *)
(***************************************************************************)
NothingLeaks ==
    \A o \in Objs : life[o] = "live" /\ Abandoned(o) =>
        \E x \in {o} \cup ChildrenOf(o) : BeingFreed(x)

(***************************************************************************)
(* Only directories have children.                                         *)
(***************************************************************************)
LEMMA TopHasChildren ==
    ASSUME TreeInv, NEW o \in Objs, NEW c \in ChildrenOf(o)
    PROVE  Top(o) /\ ~Top(c) /\ c \in Objs /\ life[c] = "live" /\ m_parent[c] = o
<1>1. c \in Objs /\ life[c] = "live" /\ m_parent[c] = o
  BY DEF ChildrenOf
<1>2. ~Top(c)
  BY <1>1, Constants DEF Top
<1> QED
  BY <1>1, <1>2 DEF TreeInv, Nodes, Node

(***************************************************************************)
(* A removed entry that nobody has open and that has no children has no    *)
(* references: somebody has dropped the last and frees it.                 *)
(***************************************************************************)
LEMMA UnreferencedIsFreed ==
    ASSUME TreeInv, NEW o \in Objs, life[o] = "live", m_deleted[o],
           HandlesOf(o) = {}, ChildrenOf(o) = {}
    PROVE  BeingFreed(o)
<1>1. m_refcount[o] = 0
  <2>1. Cardinality(HandlesOf(o)) = 0 /\ Cardinality(ChildrenOf(o)) = 0
    BY Counts
  <2>2. m_refcount[o] = 0 + Cardinality(HandlesOf(o)) + Cardinality(ChildrenOf(o))
    BY DEF TreeInv, RefcountExact
  <2> QED
    BY <2>1, <2>2
<1> QED
  BY <1>1 DEF TreeInv, Dying, BeingFreed

(***************************************************************************)
(* markDeleted, clear, unref and xwmfs_release: no removed entry is left   *)
(* behind in memory when its last handle is gone, in whichever order the   *)
(* removal and the releases come (that it is freed in the end is what      *)
(* AbandonedIsFreed adds to it, by fairness).                              *)
(***************************************************************************)
THEOREM NothingLeaksHolds == Spec => []NothingLeaks
<1>1. TreeInv => NothingLeaks
  <2> SUFFICES ASSUME TreeInv, NEW o \in Objs, life[o] = "live", Abandoned(o)
               PROVE  \E x \in {o} \cup ChildrenOf(o) : BeingFreed(x)
    BY DEF NothingLeaks
  <2>1. m_deleted[o] /\ HandlesOf(o) = {} /\ \A c \in ChildrenOf(o) : HandlesOf(c) = {}
    BY DEF Abandoned
  <2>2. CASE ChildrenOf(o) = {}
    BY <2>1, <2>2, UnreferencedIsFreed
  <2>3. ASSUME NEW c \in ChildrenOf(o) PROVE BeingFreed(c)
    <3>1. ~Top(c) /\ c \in Objs /\ life[c] = "live" /\ m_parent[c] = o
      BY TopHasChildren
    <3>2. ChildrenOf(c) = {}
      BY <3>1, TopHasChildren
    <3>3. m_deleted[c]
      BY <2>1, <3>1 DEF TreeInv, Unmarked, Held
    <3> QED
      BY <2>1, <3>1, <3>2, <3>3, UnreferencedIsFreed
  <2> QED
    BY <2>2, <2>3
<1> QED
  BY TreeInit, TreeNext, <1>1, PTL DEF Spec
=============================================================================
