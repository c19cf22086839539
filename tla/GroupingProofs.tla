---------------------------- MODULE GroupingProofs ----------------------------
(***************************************************************************)
(* Theorems about Grouping: which version of a kind discovery keeps.        *)
(***************************************************************************)
EXTENDS Grouping, FiniteSetTheorems, TLAPS

-----------------------------------------------------------------------------
(* A version that the scheme has observed has one place in it. *)
Placed(g, v) == \E i \in DOMAIN Priority : Priority[i] = <<g, v>>

LEMMA PlaceOf ==
  ASSUME NEW g, NEW v, Placed(g, v)
  PROVE  /\ Place(g, v) \in DOMAIN Priority /\ Place(g, v) \in Nat
         /\ Priority[Place(g, v)] = <<g, v>>
         /\ \A i \in DOMAIN Priority : Priority[i] = <<g, v>> => i = Place(g, v)
<1>1. Place(g, v) \in DOMAIN Priority /\ Priority[Place(g, v)] = <<g, v>>
  BY DEF Placed, Place
<1> QED
  BY <1>1, DiscoveryAssumption

(* What is wanted is recognized, and so its version has a place. *)
LEMMA WantedIsPlaced ==
  ASSUME NEW r, Wanted(r)
  PROVE  Placed(r.group, r.version)
<1>1. <<r.group, r.version, r.kind>> \in Recognized
  BY DEF Wanted, gvkFromMetav1APIResource
<1> QED
  BY <1>1, DiscoveryAssumption DEF Placed

(* Of two versions the scheme has observed, the one it lists first wins. *)
LEMMA FirstListedWins ==
  ASSUME NEW g, NEW v, NEW w, Placed(g, v), Placed(g, w)
  PROVE  LET best == getPriorityVersion(g, v, w)
         IN  /\ best \in {v, w}
             /\ Place(g, best) <= Place(g, v) /\ Place(g, best) <= Place(g, w)
<1> DEFINE places == {i \in DOMAIN Priority : Priority[i] \in {<<g, v>>, <<g, w>>}}
           first == CHOOSE i \in places : \A j \in places : i <= j
<1>1. /\ Place(g, v) \in Nat /\ Priority[Place(g, v)] = <<g, v>>
      /\ Place(g, w) \in Nat /\ Priority[Place(g, w)] = <<g, w>>
  BY PlaceOf
<1>2. places = {Place(g, v), Place(g, w)}
  BY PlaceOf
<1>3. first \in places /\ \A j \in places : first <= j
  <2>1. Place(g, v) <= Place(g, w) \/ Place(g, w) <= Place(g, v)
    BY <1>1
  <2>2. Place(g, v) <= Place(g, v) /\ Place(g, w) <= Place(g, w)
    BY <1>1
  <2>3. \E i \in places : \A j \in places : i <= j
    BY <1>2, <2>1, <2>2, Zenon
  <2> HIDE DEF places
  <2> QED
    BY <2>3, Zenon
<1>4. getPriorityVersion(g, v, w) = Priority[first][2]
  BY <1>2 DEF getPriorityVersion
<1> HIDE DEF places, first
<1>5. CASE first = Place(g, v)
  BY <1>1, <1>2, <1>3, <1>4, <1>5
<1>6. CASE first = Place(g, w)
  BY <1>1, <1>2, <1>3, <1>4, <1>6
<1> QED
  BY <1>2, <1>3, <1>5, <1>6

-----------------------------------------------------------------------------
Read == served \ unread

SameScope(e, q) ==
    /\ gvkFromMetav1APIResource(e) = gvkFromMetav1APIResource(q)
    /\ e.namespaced = q.namespaced

(* What the resource set holds while the lists are read: entries of wanted  *)
(* resources, one of a kind, none behind what was read.                    *)
DiscoveryInv ==
    /\ unread \subseteq served
    /\ served \in Served \cup {{}}
    /\ IsFiniteSet(apiResources)
    /\ \A e \in apiResources : IsResource(e)
    /\ discovery = "ask" => apiResources = {}
    /\ discovery = "done" => unread = {}
    /\ \A e \in apiResources : \E q \in Read : Wanted(q) /\ SameScope(e, q)
    /\ \A e, f \in apiResources : GroupKind(e) = GroupKind(f) => e = f
    /\ discovery \in {"read", "done"} =>
         \A r \in Read : Wanted(r) =>
            \E e \in apiResources :
                /\ GroupKind(e) = GroupKind(r)
                /\ Place(e.group, e.version) <= Place(r.group, r.version)

(* The invariant says that the best version of each kind is held. *)
LEMMA InvMeansBest == DiscoveryInv => BestVersionKept
<1> SUFFICES ASSUME DiscoveryInv, discovery \in {"read", "done"},
                    NEW r \in served \ unread, Wanted(r)
             PROVE  LET entries == {e \in apiResources : GroupKind(e) = GroupKind(r)}
                    IN  /\ Cardinality(entries) = 1
                        /\ \A e \in entries :
                             /\ Place(e.group, e.version) <= Place(r.group, r.version)
                             /\ gvkFromMetav1APIResource(e) \in
                                  {gvkFromMetav1APIResource(q) : q \in served \ unread}
  BY DEF BestVersionKept
<1> DEFINE entries == {e \in apiResources : GroupKind(e) = GroupKind(r)}
<1>1. PICK b \in apiResources : /\ GroupKind(b) = GroupKind(r)
                                /\ Place(b.group, b.version) <= Place(r.group, r.version)
  BY DEF DiscoveryInv, Read
<1>2. entries = {b}
  BY <1>1 DEF DiscoveryInv
<1>3. Cardinality({b}) = 1
  BY FS_Singleton
<1>4. gvkFromMetav1APIResource(b) \in {gvkFromMetav1APIResource(q) : q \in served \ unread}
  BY DEF DiscoveryInv, Read, SameScope
<1> QED
  BY <1>1, <1>2, <1>3, <1>4

(* What is served are resources, each wanted kind with one scope. *)
LEMMA ServedOnes ==
  ASSUME DiscoveryInv
  PROVE  /\ \A r \in served : IsResource(r) /\ GroupKind(r) \in Nat \X Nat
         /\ \A r, q \in served :
               Wanted(r) /\ Wanted(q) /\ GroupKind(r) = GroupKind(q) => r.namespaced = q.namespaced
BY DiscoveryAssumption DEF DiscoveryInv

(* A wanted resource is added: it takes its place, alone or in the entry of *)
(* its kind.                                                               *)
LEMMA AddKeeps ==
  ASSUME DiscoveryInv, NEW r \in unread, AddResource(r)
  PROVE  DiscoveryInv'
<1>1. /\ discovery = "read" /\ discovery' = "read" /\ served' = served
      /\ unread' = unread \ {r} /\ Read' = Read \cup {r}
      /\ IsResource(r) /\ r \in served
  BY ServedOnes DEF AddResource, DiscoveryInv, Read
<1>2. CASE ~ Wanted(r)
  <2>1. apiResources' = apiResources
    BY <1>2 DEF AddResource, Add
  <2> QED
    BY <1>1, <1>2, <2>1 DEF DiscoveryInv
<1>3. CASE Wanted(r) /\ \A e \in apiResources : GroupKind(e) # GroupKind(r)
  <2>1. apiResources' = apiResources \cup {r}
    BY <1>3 DEF AddResource, Add
  <2>2. Place(r.group, r.version) <= Place(r.group, r.version)
    BY <1>3, WantedIsPlaced, PlaceOf
  <2>3. \A q \in Read' : Wanted(q) =>
          \E e \in apiResources' :
             /\ GroupKind(e) = GroupKind(q)
             /\ Place(e.group, e.version) <= Place(q.group, q.version)
    BY <1>1, <1>3, <2>1, <2>2 DEF DiscoveryInv
  <2>4. \A e, f \in apiResources' : GroupKind(e) = GroupKind(f) => e = f
    BY <1>3, <2>1 DEF DiscoveryInv
  <2>5. \A e \in apiResources' : \E q \in Read' : Wanted(q) /\ SameScope(e, q)
    BY <1>1, <1>3, <2>1 DEF DiscoveryInv, SameScope
  <2>6. IsFiniteSet(apiResources')
    BY <2>1, FS_AddElement DEF DiscoveryInv
  <2> QED
    BY <1>1, <2>1, <2>3, <2>4, <2>5, <2>6 DEF DiscoveryInv
<1>4. ASSUME Wanted(r), NEW old \in apiResources, GroupKind(old) = GroupKind(r)
      PROVE  DiscoveryInv'
  <2> DEFINE best == getPriorityVersion(old.group, old.version, r.version)
             new == [old EXCEPT !.version = best]
  <2>1. apiResources' = (apiResources \ {old}) \cup {new}
    <3>1. {e \in apiResources : GroupKind(e) = GroupKind(r)} = {old}
      BY <1>4 DEF DiscoveryInv
    <3> QED
      BY <1>4, <3>1 DEF AddResource, Add
  <2>2. PICK q \in Read : /\ Wanted(q) /\ old.namespaced = q.namespaced
                          /\ gvkFromMetav1APIResource(old) = gvkFromMetav1APIResource(q)
    BY DEF DiscoveryInv, SameScope
  <2>3. /\ old.group = q.group /\ old.version = q.version /\ old.kind = q.kind
        /\ old.group = r.group /\ old.kind = r.kind
    BY <1>4, <2>2 DEF gvkFromMetav1APIResource, GroupKind
  <2>4. Placed(old.group, old.version) /\ Placed(old.group, r.version)
    BY <1>4, <2>2, <2>3, WantedIsPlaced
  <2>5. /\ best \in {old.version, r.version}
        /\ Place(old.group, best) <= Place(old.group, old.version)
        /\ Place(old.group, best) <= Place(old.group, r.version)
    BY <2>4, FirstListedWins
  <2>6. IsResource(old)
    BY DEF DiscoveryInv
  <2>7. /\ new.group = old.group /\ new.kind = old.kind /\ new.version = best
        /\ new.namespaced = old.namespaced
        /\ IsResource(new)
    <3> HIDE DEF best
    <3> QED
      BY <2>6 DEF IsResource
  <2> HIDE DEF new, best
  <2>8. Place(old.group, best) \in Nat /\ Place(old.group, old.version) \in Nat
    BY <2>4, <2>5, PlaceOf
  <2>9. \A k \in Read' : Wanted(k) =>
          \E e \in apiResources' :
             /\ GroupKind(e) = GroupKind(k)
             /\ Place(e.group, e.version) <= Place(k.group, k.version)
    <3> SUFFICES ASSUME NEW k \in Read', Wanted(k)
                 PROVE  \E e \in apiResources' :
                           /\ GroupKind(e) = GroupKind(k)
                           /\ Place(e.group, e.version) <= Place(k.group, k.version)
      OBVIOUS
    <3>1. CASE k = r
      BY <2>1, <2>3, <2>5, <2>7, <3>1 DEF GroupKind
    <3>2. CASE k \in Read
      <4>1. PICK e \in apiResources : /\ GroupKind(e) = GroupKind(k)
                                      /\ Place(e.group, e.version) <= Place(k.group, k.version)
        BY <1>1, <3>2 DEF DiscoveryInv
      <4>2. CASE e = old
        <5>1. Place(k.group, k.version) \in Nat
          BY WantedIsPlaced, PlaceOf
        <5>2. Place(new.group, new.version) <= Place(k.group, k.version)
          BY <2>5, <2>7, <2>8, <4>1, <4>2, <5>1
        <5> QED
          BY <2>1, <2>7, <4>1, <4>2, <5>2 DEF GroupKind
      <4>3. CASE e # old
        BY <2>1, <4>1, <4>3
      <4> QED
        BY <4>2, <4>3
    <3> QED
      BY <1>1, <3>1, <3>2
  <2>10. \A e, f \in apiResources' : GroupKind(e) = GroupKind(f) => e = f
    <3>1. GroupKind(new) = GroupKind(old)
      BY <2>7 DEF GroupKind
    <3> QED
      BY <2>1, <3>1 DEF DiscoveryInv
  <2>11. \A e \in apiResources' : \E k \in Read' : Wanted(k) /\ SameScope(e, k)
    <3>1. q \in served
      BY <2>2 DEF Read
    <3>2. r.namespaced = q.namespaced
      BY <1>1, <1>4, <2>2, <2>3, <3>1, ServedOnes DEF GroupKind
    <3>3. \E k \in Read' : Wanted(k) /\ SameScope(new, k)
      BY <1>1, <1>4, <2>2, <2>3, <2>5, <2>7, <3>2 DEF gvkFromMetav1APIResource, SameScope
    <3> QED
      BY <1>1, <2>1, <3>3 DEF DiscoveryInv
  <2>12. IsFiniteSet(apiResources')
    BY <2>1, FS_AddElement, FS_RemoveElement DEF DiscoveryInv
  <2> QED
    BY <1>1, <2>1, <2>7, <2>9, <2>10, <2>11, <2>12 DEF DiscoveryInv
<1> QED
  BY <1>2, <1>3, <1>4

(* Every step of the operator keeps the invariant of discovery. *)
LEMMA DiscoveryStep == DiscoveryInv /\ [Next]_vars => DiscoveryInv'
<1> SUFFICES ASSUME DiscoveryInv, [Next]_vars PROVE DiscoveryInv'
  OBVIOUS
<1>1. CASE UNCHANGED discoveryVars
  BY <1>1 DEF discoveryVars, DiscoveryInv, Read
<1>2. CASE AskServer
  BY <1>2, DiscoveryAssumption DEF AskServer, DiscoveryInv, Read
<1>3. CASE DiscoveryFails
  BY <1>3, FS_EmptySet DEF DiscoveryFails, DiscoveryInv, Read
<1>4. CASE EndDiscovery
  BY <1>4 DEF EndDiscovery, DiscoveryInv, Read
<1>5. CASE \E r \in unread : AddResource(r)
  BY <1>5, AddKeeps
<1>6. DiscoveryNext \/ UNCHANGED discoveryVars
  BY DEF Next, vars, BeginGrouping, ListPage, ProcessItem, ListFails, Forget, EndGrouping, EndNamespace,
         EditObject, discoveryVars
<1> QED
  BY <1>1, <1>2, <1>3, <1>4, <1>5, <1>6 DEF DiscoveryNext

-----------------------------------------------------------------------------
(* Of every wanted kind the server lists, one entry is kept, in the version *)
(* the scheme prefers among those listed, for every server and in whatever  *)
(* order its lists are read (resourceSet.Add, getPriorityVersion).         *)
THEOREM BestVersionIsKept == Spec => []BestVersionKept
<1>1. Init => DiscoveryInv
  BY FS_EmptySet DEF Init, DiscoveryInit, DiscoveryInv, Read
<1>2. DiscoveryInv /\ [Next]_vars => DiscoveryInv'
  BY DiscoveryStep
<1>3. DiscoveryInv => BestVersionKept
  BY InvMeansBest
<1> QED
  BY <1>1, <1>2, <1>3, PTL DEF Spec
================================================================================
