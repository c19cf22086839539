--------------------------- MODULE RefinementProofs ---------------------------
(***************************************************************************)
(* Reconciler implements Reporting, for every value of its constants, and  *)
(* never forgets an entry it has no reason to forget.                      *)
(*                                                                         *)
(* What is needed beyond the invariants of ReconcilerProofs says where an  *)
(* object is that a round must not lose: already among the objects seen,   *)
(* or still ahead of the round - in a namespace, a kind, the listing or a  *)
(* group that it has not come to.                                          *)
(***************************************************************************)
EXTENDS SeriesProofs

USE DEF Version, NsUid, NoUid, NoEntry

(* Objects exist in namespaces that exist, at versions that were given out. *)
ObjectsHaveNamespaces ==
    \A o \in Object : Live(o) => nsUid[NamespaceOf[o]] # NoUid /\ rv[o] # 0

(* What is listed belongs to the namespace and to a kind that was listed,  *)
(* and the cache is not ahead of it.                                       *)
ListedHere ==
    /\ pc \in {"list", "groups", "lint", "report"} \/ (listed = NothingListed /\ ns = NoNamespace)
    /\ \A o \in Object : Listed(o) =>
         /\ NamespaceOf[o] = ns
         /\ KindOf[o] < kind
         /\ listed[o].rv # 0
         /\ cache[<<o, nsId>>] <= listed[o].rv

(* Only the namespaces that are not ignored are ever looked at.            *)
IgnoredUntouched ==
    /\ \A n \in Ignored : watched[n] = NoUid
    /\ \A o \in Object, u \in NsUid :
         NamespaceOf[o] \in Ignored => cache[<<o, u>>] = NoEntry

(* Without discovery nothing is listed and nothing cached.                 *)
Undiscovered ==
    ~discovered =>
        /\ listed = NothingListed
        /\ \A k \in Key : cache[k] = NoEntry

MembersSeen == Keys(members) \subseteq current

(* Objects the reconciler may not lose sight of. *)
MustKeep(o, u) ==
    /\ Cached(o, u)
    /\ nsUid[NamespaceOf[o]] = u
    /\ manifest[o].labels # NoLabels

(* The round has still to come to o. *)
Ahead(o, u) ==
    \/ pc \in {"discover", "watch", "idle", "stopped"}
    \/ /\ watched[NamespaceOf[o]] = u
       /\ \/ ns # NamespaceOf[o]
          \/ pc = "list" /\ kind <= KindOf[o]
          \/ pc = "list" /\ Listed(o) /\ listed[o].rv = rv[o]
          \/ /\ pc \in {"groups", "lint", "report"}
             /\ Listed(o) /\ listed[o].rv = rv[o]
             /\ listed[o].manifest.labels \in groups

SeenOrAhead ==
    \A o \in Object, u \in NsUid : MustKeep(o, u) => <<o, u>> \in current \/ Ahead(o, u)

RoundInv ==
    /\ ObjectsHaveNamespaces /\ ListedHere /\ IgnoredUntouched /\ Undiscovered
    /\ GroupInProcess /\ MembersSeen /\ SeenOrAhead

-----------------------------------------------------------------------------
(* Nothing is listed, cached or in process when the process starts. *)
LEMMA RoundInit == Init => RoundInv
<1> SUFFICES ASSUME Init PROVE RoundInv
  OBVIOUS
<1>1. \A k \in Key : cache[k] = NoEntry
  BY DEF Init, ReconcilerInit, newValidationCache
<1>2. \A o \in Object, u \in NsUid : <<o, u>> \in Key
  BY DEF Key
<1>3. ObjectsHaveNamespaces
  BY DEF Init, ClusterInit, ObjectsHaveNamespaces, Live
<1>4. ListedHere
  BY NothingIsListed DEF Init, ReconcilerInit, ListedHere, Listed
<1>5. IgnoredUntouched
  BY <1>1, <1>2, ReconcilerAssumption DEF Init, ReconcilerInit, IgnoredUntouched, NothingWatched
<1>6. SeenOrAhead
  BY DEF Init, ReconcilerInit, SeenOrAhead, Ahead
<1>7. Undiscovered /\ GroupInProcess /\ MembersSeen
  BY <1>1 DEF Init, ReconcilerInit, Undiscovered, GroupInProcess, MembersSeen, Keys
<1> QED
  BY <1>3, <1>4, <1>5, <1>6, <1>7 DEF RoundInv

(* Only a step of the cluster changes the cluster. *)
LEMMA ClusterAlone == [Next]_vars => ClusterStep \/ UNCHANGED clusterVars
  BY DEF Next, Round, Group, vars, Discover, DiscoverFails, Tick, Stop, Cancel, ListNamespaces,
         ListFails, BeginNamespace, ListKind, GroupObjects, SkipValidatedGroup, ConversionFails,
         BeginGroup, SeeGroup, RunLint, ProcessReport, StoreObject, EndNamespace,
         handleResourceDeletions

(* What a step of the cluster does to one object: it is unchanged or gone,  *)
(* or it is at a higher version than before; its namespace keeps its UID    *)
(* while it exists.                                                         *)
LEMMA ClusterEffect ==
  ASSUME ClusterTypeOK, ObjectsHaveNamespaces, ClusterNext, NEW o \in Object
  PROVE  /\ rv[o] \in Nat /\ rv'[o] \in Nat
         /\ \/ rv'[o] = rv[o] /\ manifest'[o] \in {manifest[o], Absent}
            \/ rv'[o] > rv[o]
         /\ Live(o)' => nsUid'[NamespaceOf[o]] # NoUid /\ rv'[o] # 0
         /\ Live(o)' /\ rv'[o] = rv[o] => nsUid'[NamespaceOf[o]] = nsUid[NamespaceOf[o]]
<1>t. /\ rv[o] \in Nat /\ NamespaceOf[o] \in Namespace /\ nsUid \in [Namespace -> NsUid \cup {NoUid}]
      /\ Live(o) => nsUid[NamespaceOf[o]] # NoUid /\ rv[o] # 0
  BY ClusterAssumption DEF ClusterTypeOK, ObjectsHaveNamespaces
<1> DEFINE Effect == /\ rv'[o] \in Nat
                     /\ \/ rv'[o] = rv[o] /\ manifest'[o] \in {manifest[o], Absent}
                        \/ rv'[o] > rv[o]
                     /\ Live(o)' => nsUid'[NamespaceOf[o]] # NoUid /\ rv'[o] # 0
                     /\ Live(o)' /\ rv'[o] = rv[o] => nsUid'[NamespaceOf[o]] = nsUid[NamespaceOf[o]]
<1>1. ASSUME NEW n \in Namespace, CreateNamespace(n) PROVE Effect
  <2>1. UNCHANGED <<rv, manifest>> /\ (NamespaceOf[o] = n => ~Live(o))
    BY <1>1, <1>t DEF CreateNamespace
  <2>2. NamespaceOf[o] # n => nsUid'[NamespaceOf[o]] = nsUid[NamespaceOf[o]]
    BY <1>1, <1>t DEF CreateNamespace
  <2> QED
    BY <2>1, <2>2, <1>t DEF Live
<1>2. ASSUME NEW n \in Namespace, DeleteNamespace(n) PROVE Effect
  <2>1. UNCHANGED <<rv, manifest>> /\ (NamespaceOf[o] = n => ~Live(o))
    BY <1>2 DEF DeleteNamespace
  <2>2. NamespaceOf[o] # n => nsUid'[NamespaceOf[o]] = nsUid[NamespaceOf[o]]
    BY <1>2, <1>t DEF DeleteNamespace
  <2> QED
    BY <2>1, <2>2, <1>t DEF Live
<1>3. ASSUME NEW p \in Object, NEW m \in ManifestsOf[p], CreateObject(p, m) \/ UpdateObject(p, m)
      PROVE  Effect
  <2>1. UNCHANGED nsUid /\ (p # o => rv'[o] = rv[o] /\ manifest'[o] = manifest[o])
    BY <1>3 DEF CreateObject, UpdateObject, ClusterTypeOK
  <2>2. p = o => rv'[o] = rv[o] + 1 /\ nsUid[NamespaceOf[o]] # NoUid
    BY <1>3, <1>t DEF CreateObject, UpdateObject, ClusterTypeOK
  <2> QED
    BY <2>1, <2>2, <1>t DEF Live
<1>4. ASSUME NEW p \in Object, DeleteObject(p) PROVE Effect
  <2>1. UNCHANGED <<nsUid, rv>> /\ manifest'[o] \in {manifest[o], Absent}
    BY <1>4 DEF DeleteObject, ClusterTypeOK
  <2> QED
    BY <2>1, <1>t DEF Live
<1> QED
  BY <1>t, <1>1, <1>2, <1>3, <1>4 DEF ClusterNext

(* Objects keep a namespace to live in. *)
LEMMA ObjectsStep ==
  ClusterTypeOK /\ ObjectsHaveNamespaces /\ [Next]_vars => ObjectsHaveNamespaces'
<1> SUFFICES ASSUME ClusterTypeOK, ObjectsHaveNamespaces, [Next]_vars
             PROVE  ObjectsHaveNamespaces'
  OBVIOUS
<1>1. CASE ClusterStep
  BY <1>1, ClusterEffect DEF ClusterStep, ObjectsHaveNamespaces
<1>2. CASE UNCHANGED clusterVars
  BY <1>2 DEF clusterVars, ObjectsHaveNamespaces, Live
<1> QED
  BY <1>1, <1>2, ClusterAlone

(* A round is left with nothing listed and no group in process. *)
LEMMA LeftClean ==
  ASSUME LeaveRound
  PROVE  /\ pc' = "idle" /\ listed' = NothingListed /\ ns' = NoNamespace
         /\ watched' = NothingWatched /\ members' = {} /\ reports' = {} /\ groups' = {}
  BY DEF LeaveRound, ClearRound

(* The members of a group are listed, and the reports are about them; its  *)
(* members were seen when it began.                                        *)
LEMMA GroupStep ==
  TypeInv /\ GroupInProcess /\ MembersSeen /\ [Next]_vars => GroupInProcess' /\ MembersSeen'
<1> SUFFICES ASSUME TypeInv, GroupInProcess, MembersSeen, [Next]_vars
             PROVE  GroupInProcess' /\ MembersSeen'
  OBVIOUS
(* Steps outside a group, and steps that leave it alone. *)
<1>e. ASSUME members' = {}, reports' = {} PROVE GroupInProcess' /\ MembersSeen'
  BY <1>e DEF GroupInProcess, MembersSeen, Keys
<1>o. ASSUME pc \notin {"lint", "report"}, UNCHANGED <<members, reports>>
      PROVE  GroupInProcess' /\ MembersSeen'
  BY <1>o, <1>e DEF GroupInProcess
<1>u. ASSUME UNCHANGED <<pc, listed, members, reports, current, nsId>>
      PROVE  GroupInProcess' /\ MembersSeen'
  BY <1>u DEF GroupInProcess, MembersSeen, Keys, Listed
<1>1. CASE Discover \/ DiscoverFails \/ Tick \/ Stop \/ ListNamespaces \/ ListKind
           \/ GroupObjects \/ EndNamespace \/ \E n \in Namespace : BeginNamespace(n)
  BY <1>1, <1>o
  DEF Discover, DiscoverFails, Tick, Stop, ListNamespaces, ListKind, GroupObjects, EndNamespace,
      BeginNamespace, roundVars
<1>2. CASE ListFails \/ handleResourceDeletions \/ \E l \in LabelSet : ConversionFails(l)
  BY <1>2, <1>e, LeftClean DEF ListFails, handleResourceDeletions, ConversionFails
<1>3. ASSUME NEW l \in LabelSet, SkipValidatedGroup(l) PROVE GroupInProcess' /\ MembersSeen'
  BY <1>3, <1>o DEF SkipValidatedGroup, SeeGroup
<1>4. ASSUME NEW l \in LabelSet, BeginGroup(l) PROVE GroupInProcess' /\ MembersSeen'
  <2>1. /\ members' = relatedObjects(l) /\ pc' = "lint" /\ UNCHANGED <<listed, reports, nsId>>
        /\ current' = current \cup Keys(relatedObjects(l)) /\ pc = "groups"
    BY <1>4 DEF BeginGroup, SeeGroup, nsId
  <2>2. \A o \in relatedObjects(l) : Listed(o)
    BY DEF relatedObjects, Related
  <2> QED
    BY <2>1, <2>2 DEF GroupInProcess, MembersSeen, Keys, Listed
<1>5. CASE RunLint
  <2>1. UNCHANGED <<listed, members, current, nsId>> /\ pc' = "report"
    BY <1>5 DEF RunLint, nsId
  <2>2. \A r \in reports' : r.object \in members
    BY <1>5 DEF RunLint, RunReports, LintContext
  <2> QED
    BY <2>1, <2>2 DEF GroupInProcess, MembersSeen, Keys, Listed
<1>6. ASSUME NEW r \in reports, ProcessReport(r) PROVE GroupInProcess' /\ MembersSeen'
  <2>1. UNCHANGED <<listed, members, current, nsId, pc>> /\ reports' = reports \ {r} /\ pc = "report"
    BY <1>6 DEF ProcessReport, nsId
  <2> QED
    BY <2>1 DEF GroupInProcess, MembersSeen, Keys, Listed
<1>7. ASSUME NEW o \in members, StoreObject(o) PROVE GroupInProcess' /\ MembersSeen'
  <2>1. /\ UNCHANGED <<listed, current, nsId, reports>> /\ members' = members \ {o} /\ reports = {}
        /\ pc' = IF members' = {} THEN "groups" ELSE "report"
    BY <1>7 DEF StoreObject, nsId
  <2> QED
    BY <2>1 DEF GroupInProcess, MembersSeen, Keys, Listed
<1>8. CASE ClusterStep \/ Cancel \/ UNCHANGED vars
  BY <1>8, <1>u DEF ClusterStep, Cancel, vars, reconcilerVars, roundVars, nsId
<1> QED
  BY <1>1, <1>2, <1>3, <1>4, <1>5, <1>6, <1>7, <1>8, Zenon DEF Next, Round, Group

(* What the cache holds: steps of the cluster and of a round change it only *)
(* to drop entries and to store a listed version of a member.               *)
LEMMA CacheEffect ==
  ASSUME TypeInv, [Next]_vars, NEW k \in Key
  PROVE  \/ cache'[k] \in {cache[k], NoEntry}
         \/ \E o \in members : StoreObject(o) /\ k = <<o, nsId>> /\ cache'[k] = listed[o].rv
<1>1. CASE UNCHANGED cache
  BY <1>1
<1>2. ASSUME NEW l \in LabelSet, SeeGroup(l) PROVE cache'[k] \in {cache[k], NoEntry}
  BY <1>2 DEF SeeGroup, RemoveStale
<1>3. CASE handleResourceDeletions
  BY <1>3 DEF handleResourceDeletions
<1>4. ASSUME NEW o \in members, StoreObject(o)
      PROVE  cache'[k] = cache[k] \/ (k = <<o, nsId>> /\ cache'[k] = listed[o].rv)
  BY <1>4 DEF StoreObject, store, TypeInv, TypeOK, ValidationCaches
<1> QED
  BY <1>1, <1>2, <1>3, <1>4
  DEF Next, Round, Group, vars, Discover, DiscoverFails, Tick, Stop, Cancel, ListNamespaces,
      ListFails, BeginNamespace, ListKind, GroupObjects, SkipValidatedGroup, ConversionFails,
      BeginGroup, RunLint, ProcessReport, EndNamespace, ClusterStep, reconcilerVars

(* A step that leaves the namespace's UID alone stores only the listed     *)
(* version of a listed object.                                             *)
LEMMA CacheBehindListing ==
  ASSUME TypeInv, ListedHere, GroupInProcess, [Next]_vars, UNCHANGED listed,
         NEW o \in Object, Listed(o), nsId \in NsUid
  PROVE  cache'[<<o, nsId>>] <= listed[o].rv
<1>1. <<o, nsId>> \in Key /\ cache[<<o, nsId>>] <= listed[o].rv /\ listed[o].rv \in Nat
  BY ClusterAssumption DEF Key, ListedHere, TypeInv, TypeOK, RoundTypeOK
<1>2. CASE cache'[<<o, nsId>>] \in {cache[<<o, nsId>>], NoEntry}
  BY <1>1, <1>2
<1>3. CASE \E p \in members : <<o, nsId>> = <<p, nsId>> /\ cache'[<<o, nsId>>] = listed[p].rv
  BY <1>1, <1>3
<1> QED
  BY <1>1, <1>2, <1>3, CacheEffect

(* The listing is of the namespace in process. *)
LEMMA ListedStep ==
  /\ TypeInv /\ CachedOnce /\ ObjectsHaveNamespaces
  /\ ListedHere /\ GroupInProcess /\ [Next]_vars
  => ListedHere'
<1> SUFFICES ASSUME TypeInv, CachedOnce, ObjectsHaveNamespaces, ListedHere, GroupInProcess,
                    [Next]_vars
             PROVE  ListedHere'
  OBVIOUS
<1>t. RoundTypeOK /\ InNamespace /\ ClusterTypeOK /\ cache \in ValidationCaches
  BY DEF TypeInv, TypeOK
<1>e. ASSUME listed' = NothingListed, ns' = NoNamespace PROVE ListedHere'
  BY <1>e, NothingIsListed DEF ListedHere, Listed
<1>n. ASSUME NEW o \in Object, Listed(o) PROVE nsId \in NsUid
  BY <1>n, <1>t, NothingIsListed DEF ListedHere, Listed, InNamespace, RoundTypeOK, nsId
(* Steps within a namespace that list nothing new. *)
<1>w. ASSUME UNCHANGED <<listed, ns, nsId, kind>>, pc' \in {"list", "groups", "lint", "report"}
      PROVE  ListedHere'
  <2>1. ASSUME NEW o \in Object, Listed(o) PROVE cache'[<<o, nsId>>] <= listed[o].rv
    BY <2>1, <1>w, <1>n, CacheBehindListing
  <2> QED
    BY <2>1, <1>w DEF ListedHere, Listed
<1>1. CASE Discover \/ DiscoverFails \/ Tick \/ Stop \/ ListNamespaces
  BY <1>1, <1>e DEF Discover, DiscoverFails, Tick, Stop, ListNamespaces, roundVars, ListedHere
<1>2. CASE ListFails \/ handleResourceDeletions \/ EndNamespace \/ \E l \in LabelSet : ConversionFails(l)
  BY <1>2, <1>e, LeftClean DEF ListFails, handleResourceDeletions, EndNamespace, ConversionFails
<1>3. ASSUME NEW n \in Namespace, BeginNamespace(n) PROVE ListedHere'
  <2>1. listed' = NothingListed /\ pc' = "list"
    BY <1>3 DEF BeginNamespace, ListedHere
  <2> QED
    BY <2>1, NothingIsListed DEF ListedHere, Listed
<1>4. CASE ListKind
  <2>1. /\ UNCHANGED <<ns, nsId, pc, cache>> /\ pc = "list" /\ nsId \in NsUid
        /\ kind' = kind + 1 /\ kind \in Nat
    BY <1>4, <1>t, ClusterAssumption DEF ListKind, nsId, InNamespace, RoundTypeOK
  <2>2. ASSUME NEW o \in Object, Listed(o)'
        PROVE  /\ NamespaceOf[o] = ns /\ KindOf[o] < kind'
               /\ listed'[o].rv # 0 /\ cache[<<o, nsId>>] <= listed'[o].rv
    <3>1. CASE KindOf[o] = kind /\ NamespaceOf[o] = ns /\ Live(o)
      <4>1. listed'[o].rv = rv[o]
        BY <3>1, <1>4 DEF ListKind
      <4>2. cache[<<o, nsId>>] <= rv[o]
        BY <2>1 DEF CachedOnce
      <4>3. rv[o] # 0
        BY <3>1 DEF ObjectsHaveNamespaces
      <4> QED
        BY <3>1, <4>1, <4>2, <4>3, <2>1
    <3>2. CASE ~(KindOf[o] = kind /\ NamespaceOf[o] = ns /\ Live(o))
      <4>1. listed'[o] = listed[o] /\ Listed(o)
        BY <3>2, <2>2, <1>4 DEF ListKind, Listed
      <4>2. KindOf[o] < kind /\ KindOf[o] \in Nat
        <5>1. KindOf[o] < kind
          BY <4>1 DEF ListedHere
        <5>2. KindOf[o] \in 1..NumKinds /\ NumKinds \in Nat
          BY ClusterAssumption
        <5> QED
          BY <5>1, <5>2
      <4> QED
        BY <4>1, <4>2, <2>1 DEF ListedHere
    <3> QED
      BY <3>1, <3>2
  <2> QED
    BY <2>1, <2>2 DEF ListedHere
<1>5. CASE GroupObjects \/ RunLint \/ \E l \in LabelSet : SkipValidatedGroup(l) \/ BeginGroup(l)
  BY <1>5, <1>w DEF GroupObjects, RunLint, SkipValidatedGroup, BeginGroup, SeeGroup, nsId
<1>6. CASE \E r \in reports : ProcessReport(r)
  BY <1>6, <1>w DEF ProcessReport, nsId
<1>7. CASE \E o \in members : StoreObject(o)
  BY <1>7, <1>w DEF StoreObject, nsId
<1>8. CASE ClusterStep \/ Cancel \/ UNCHANGED vars
  <2>1. UNCHANGED <<pc, listed, ns, nsId, kind, cache>>
    BY <1>8 DEF ClusterStep, Cancel, vars, reconcilerVars, roundVars, nsId
  <2> QED
    BY <2>1 DEF ListedHere, Listed
<1> QED
  BY <1>1, <1>2, <1>3, <1>4, <1>5, <1>6, <1>7, <1>8, Zenon DEF Next, Round, Group

(* Ignored namespaces stay untouched, and so does everything when discovery *)
(* failed.                                                                 *)
LEMMA UntouchedStep ==
  /\ TypeInv /\ ListedHere /\ GroupInProcess /\ IgnoredUntouched /\ Undiscovered /\ [Next]_vars
  => IgnoredUntouched' /\ Undiscovered'
<1> SUFFICES ASSUME TypeInv, ListedHere, GroupInProcess, IgnoredUntouched, Undiscovered, [Next]_vars
             PROVE  IgnoredUntouched' /\ Undiscovered'
  OBVIOUS
<1>t. RoundTypeOK /\ InNamespace /\ discovered \in BOOLEAN
  BY DEF TypeInv, TypeOK
<1>d. UNCHANGED discovered \/ discovered'
  BY DEF Next, Round, Group, vars, Discover, DiscoverFails, Tick, Stop, Cancel, ListNamespaces,
      ListFails, BeginNamespace, ListKind, GroupObjects, SkipValidatedGroup, ConversionFails,
      BeginGroup, SeeGroup, RunLint, ProcessReport, StoreObject, EndNamespace,
      handleResourceDeletions, ClusterStep, reconcilerVars
(* What is stored is of a listed object in a namespace that is looked at. *)
<1>s. ASSUME NEW o \in members, StoreObject(o) PROVE discovered /\ NamespaceOf[o] \notin Ignored
  <2>1. o \in Object /\ Listed(o) /\ nsId # NoUid
    BY <1>s, <1>t DEF StoreObject, GroupInProcess, RoundTypeOK, InNamespace
  <2>2. discovered
    BY <2>1, NothingIsListed DEF Undiscovered, Listed
  <2> QED
    BY <2>1, <2>2 DEF ListedHere, IgnoredUntouched, nsId
<1>1. \A n \in Ignored : watched'[n] = NoUid
  <2>1. CASE UNCHANGED watched
    BY <2>1 DEF IgnoredUntouched
  <2>2. CASE LeaveRound
    BY <2>2, LeftClean, ReconcilerAssumption DEF NothingWatched
  <2>3. CASE ListNamespaces \/ EndNamespace
    BY <2>3, <1>t, ReconcilerAssumption DEF ListNamespaces, EndNamespace, IgnoredUntouched, RoundTypeOK
  <2> QED
    BY <2>1, <2>2, <2>3
    DEF Next, Round, Group, vars, Discover, DiscoverFails, Tick, Stop, Cancel, ListFails,
        BeginNamespace, ListKind, GroupObjects, SkipValidatedGroup, ConversionFails, BeginGroup,
        RunLint, ProcessReport, StoreObject, handleResourceDeletions, ClusterStep,
        reconcilerVars, roundVars
<1>2. ASSUME NEW o \in Object, NEW u \in NsUid, NamespaceOf[o] \in Ignored
      PROVE  cache'[<<o, u>>] = NoEntry
  <2>1. <<o, u>> \in Key /\ cache[<<o, u>>] = NoEntry
    BY <1>2 DEF Key, IgnoredUntouched
  <2>2. ~\E p \in members : StoreObject(p) /\ <<o, u>> = <<p, nsId>>
    BY <1>2, <1>s
  <2> QED
    BY <2>1, <2>2, CacheEffect
<1>3. ASSUME ~discovered', NEW k \in Key PROVE cache'[k] = NoEntry
  <2>1. ~discovered
    BY <1>3, <1>t, <1>d
  <2> QED
    BY <2>1, <1>s, CacheEffect DEF Undiscovered
<1>4. ASSUME ~discovered' PROVE listed' = NothingListed
  <2>1. UNCHANGED listed \/ listed' = NothingListed \/ ListKind
    BY LeftClean
    DEF Next, Round, Group, vars, Discover, DiscoverFails, Tick, Stop, Cancel, ListNamespaces,
        ListFails, BeginNamespace, GroupObjects, SkipValidatedGroup, ConversionFails,
        BeginGroup, RunLint, ProcessReport, StoreObject, EndNamespace,
        handleResourceDeletions, ClusterStep, reconcilerVars, roundVars
  <2> QED
    BY <1>4, <1>t, <1>d, <2>1 DEF Undiscovered, ListKind
<1> QED
  BY <1>1, <1>2, <1>3, <1>4 DEF IgnoredUntouched, Undiscovered

-----------------------------------------------------------------------------
(* An entry is fresh after a step only if it was before, or is stored now. *)
LEMMA KeptBefore ==
  ASSUME TypeInv, CachedOnce, ObjectsHaveNamespaces, [Next]_vars,
         NEW o \in Object, NEW u \in NsUid, MustKeep(o, u)'
  PROVE  /\ rv'[o] = rv[o] /\ manifest'[o] = manifest[o]
         /\ nsUid'[NamespaceOf[o]] = nsUid[NamespaceOf[o]]
         /\ MustKeep(o, u) \/ \E p \in members : StoreObject(p) /\ <<o, u>> = <<p, nsId>>
<1>t. <<o, u>> \in Key /\ ClusterTypeOK /\ cache \in ValidationCaches
  BY DEF Key, TypeInv, TypeOK
<1>1. CASE ClusterStep
  <2>1. UNCHANGED cache /\ ClusterNext
    BY <1>1 DEF ClusterStep, reconcilerVars
  <2>2. cache[<<o, u>>] <= rv[o] /\ cache[<<o, u>>] = rv'[o] /\ Live(o)'
    BY <2>1 DEF CachedOnce, MustKeep, Cached
  <2>3. rv'[o] = rv[o] /\ manifest'[o] = manifest[o]
    BY <2>1, <2>2, <1>t, ClusterEffect DEF Live
  <2>4. nsUid'[NamespaceOf[o]] = nsUid[NamespaceOf[o]]
    BY <2>1, <2>2, <2>3, <1>t, ClusterEffect
  <2> QED
    BY <2>1, <2>3, <2>4 DEF MustKeep, Cached, Live
<1>2. CASE UNCHANGED clusterVars
  <2>1. cache'[<<o, u>>] = cache[<<o, u>>] => MustKeep(o, u)
    BY <1>2 DEF clusterVars, MustKeep, Cached, Live, has
  <2>2. cache'[<<o, u>>] # NoEntry
    BY DEF MustKeep, Cached, has
  <2> QED
    BY <1>2, <1>t, <2>1, <2>2, CacheEffect DEF clusterVars
<1> QED
  BY <1>1, <1>2, ClusterAlone

(* No step loses sight of an object it has to keep. *)
LEMMA SeenStep == TypeInv /\ CacheInv /\ RoundInv /\ [Next]_vars => SeenOrAhead'
<1> SUFFICES ASSUME TypeInv, CacheInv, RoundInv, [Next]_vars,
                    NEW o \in Object, NEW u \in NsUid, MustKeep(o, u)'
             PROVE  <<o, u>> \in current' \/ Ahead(o, u)'
  BY DEF SeenOrAhead
<1> DEFINE n == NamespaceOf[o]
<1>t. /\ RoundTypeOK /\ InNamespace /\ ClusterTypeOK
      /\ CachedOnce /\ ListedOnce /\ <<o, u>> \in Key
      /\ n \in Namespace /\ n # NoNamespace /\ KindOf[o] \in 1..NumKinds /\ NumKinds \in Nat
      /\ u # NoUid /\ kind \in Nat
  BY ClusterAssumption DEF TypeInv, TypeOK, CacheInv, Key, NoNamespace, RoundTypeOK
<1>i. /\ ObjectsHaveNamespaces /\ ListedHere /\ IgnoredUntouched /\ Undiscovered
      /\ GroupInProcess /\ MembersSeen /\ SeenOrAhead
  BY DEF RoundInv
<1>s. ASSUME NEW p \in members, StoreObject(p), <<o, u>> = <<p, nsId>> PROVE <<o, u>> \in current'
  BY <1>s, <1>i DEF StoreObject, MembersSeen, Keys
<1>k. /\ rv'[o] = rv[o] /\ manifest'[o] = manifest[o] /\ nsUid'[n] = nsUid[n]
      /\ MustKeep(o, u) \/ <<o, u>> \in current'
  BY <1>s, <1>t, <1>i, KeptBefore
<1>m. CASE MustKeep(o, u)
  <2>k. /\ Live(o) /\ nsUid[n] = u /\ manifest[o].labels # NoLabels
        /\ cache[<<o, u>>] = rv[o] /\ cache[<<o, u>>] # NoEntry
    BY <1>m DEF MustKeep, Cached, has
  <2>a. <<o, u>> \in current \/ Ahead(o, u)
    BY <1>m, <1>i DEF SeenOrAhead
  <2>l. Listed(o) /\ listed[o].rv = rv[o] =>
          /\ listed[o].manifest = manifest[o] /\ manifest[o].labels \in LabelSet
    BY <2>k, <1>t DEF ListedOnce, ClusterTypeOK, Live, Manifest
  <2>1. CASE Discover \/ DiscoverFails \/ Tick \/ Stop
    BY <2>1 DEF Discover, DiscoverFails, Tick, Stop, Ahead
  <2>2. CASE ListNamespaces
    <3>1. watched'[n] = u
      BY <2>2, <2>k, <1>t, <1>i DEF ListNamespaces, IgnoredUntouched
    <3>2. ns' # n
      BY <2>2, <1>t, <1>i DEF ListNamespaces, ListedHere
    <3> QED
      BY <3>1, <3>2 DEF Ahead
  <2>3. CASE ListFails \/ handleResourceDeletions \/ \E l \in LabelSet : ConversionFails(l)
    BY <2>3, LeftClean DEF ListFails, handleResourceDeletions, ConversionFails, Ahead
  <2>4. ASSUME NEW m \in Namespace, BeginNamespace(m)
        PROVE  <<o, u>> \in current' \/ Ahead(o, u)'
    <3>1. /\ pc = "namespaces" /\ pc' = "list" /\ ns' = m /\ kind' = 1
          /\ UNCHANGED <<watched, current>>
      BY <2>4 DEF BeginNamespace
    <3> QED
      BY <3>1, <2>a, <1>t DEF Ahead
  <2>5. CASE ListKind
    <3>1. /\ pc = "list" /\ pc' = "list" /\ kind' = kind + 1
          /\ UNCHANGED <<watched, ns, current>>
      BY <2>5 DEF ListKind
    <3>2. CASE ns = n /\ kind = KindOf[o]
      <4>1. listed'[o] = [rv |-> rv[o], manifest |-> manifest[o]]
        BY <3>2, <2>5, <2>k DEF ListKind
      <4>2. Listed(o)' /\ listed'[o].rv = rv'[o]
        BY <4>1, <2>k, <1>k DEF Listed, Live
      <4> QED
        BY <3>1, <4>2, <2>a DEF Ahead
    <3>3. CASE ns = n /\ kind # KindOf[o]
      <4>1. listed'[o] = listed[o]
        BY <3>3, <2>5 DEF ListKind
      <4> QED
        BY <3>1, <3>3, <4>1, <2>a, <1>k, <1>t DEF Ahead, Listed
    <3>4. CASE ns # n
      BY <3>1, <3>4, <2>a DEF Ahead
    <3> QED
      BY <3>2, <3>3, <3>4
  <2>6. CASE GroupObjects
    <3>1. /\ pc = "list" /\ pc' = "groups" /\ UNCHANGED <<watched, ns, listed, current>>
      BY <2>6 DEF GroupObjects
    <3>2. ~(kind <= KindOf[o])
      BY <2>6, <2>k, <1>t, <1>i DEF GroupObjects, Undiscovered
    <3>3. ASSUME Listed(o), listed[o].rv = rv[o] PROVE listed[o].manifest.labels \in groups'
      BY <3>3, <2>6, <2>l DEF GroupObjects, HasLabels, listedManifests
    <3> QED
      BY <3>1, <3>2, <3>3, <2>a, <1>k DEF Ahead, Listed
  <2>7. ASSUME NEW l \in LabelSet, SkipValidatedGroup(l) \/ BeginGroup(l)
        PROVE  <<o, u>> \in current' \/ Ahead(o, u)'
    <3>1. /\ pc = "groups" /\ pc' \in {"groups", "lint"} /\ groups' = groups \ {l}
          /\ UNCHANGED <<watched, ns, listed>>
          /\ current' = current \cup Keys(relatedObjects(l))
      BY <2>7 DEF SkipValidatedGroup, BeginGroup, SeeGroup
    <3>2. ASSUME Listed(o), listed[o].manifest.labels = l, watched[n] = u
          PROVE  <<o, u>> \in current'
      <4>1. o \in relatedObjects(l)
        BY <3>2 DEF relatedObjects, Related, HasLabels, listedManifests
      <4>2. nsId = u
        BY <3>2, <1>i DEF ListedHere, nsId
      <4> QED
        BY <3>1, <4>1, <4>2 DEF Keys
    <3> QED
      BY <3>1, <3>2, <2>a, <1>k DEF Ahead, Listed
  <2>8. ASSUME /\ pc \in {"lint", "report"} /\ pc' \in {"groups", "lint", "report"}
               /\ UNCHANGED <<watched, ns, listed, groups, current>>
        PROVE  <<o, u>> \in current' \/ Ahead(o, u)'
    BY <2>8, <2>a, <1>k DEF Ahead, Listed
  <2>9. CASE RunLint \/ (\E r \in reports : ProcessReport(r)) \/ (\E p \in members : StoreObject(p))
    BY <2>9, <2>8 DEF RunLint, ProcessReport, StoreObject
  <2>10. CASE EndNamespace
    <3>1. /\ pc = "groups" /\ pc' = "namespaces" /\ groups = {} /\ ns' = NoNamespace
          /\ (ns # n => watched'[n] = watched[n]) /\ UNCHANGED current
      BY <2>10, <1>t DEF EndNamespace, RoundTypeOK
    <3> QED
      BY <3>1, <2>a, <1>t DEF Ahead
  <2>11. CASE ClusterStep \/ Cancel \/ UNCHANGED vars
    <3>1. UNCHANGED <<pc, watched, ns, kind, listed, groups, current>>
      BY <2>11 DEF ClusterStep, Cancel, vars, reconcilerVars, roundVars
    <3> QED
      BY <3>1, <2>a, <1>k DEF Ahead, Listed
  <2> QED
    BY <2>1, <2>2, <2>3, <2>4, <2>5, <2>6, <2>7, <2>9, <2>10, <2>11, Zenon
    DEF Next, Round, Group
<1> QED
  BY <1>k, <1>m

(* Every step keeps the invariant of the round. *)
LEMMA RoundStep == TypeInv /\ CacheInv /\ RoundInv /\ [Next]_vars => RoundInv'
<1> SUFFICES ASSUME TypeInv, CacheInv, RoundInv, [Next]_vars PROVE RoundInv'
  OBVIOUS
<1>1. ClusterTypeOK /\ CachedOnce
  BY DEF TypeInv, TypeOK, CacheInv
<1> QED
  BY <1>1, ObjectsStep, ListedStep, UntouchedStep, GroupStep, SeenStep DEF RoundInv

-----------------------------------------------------------------------------
(* No step drops the entry of an object it has to keep: what a group finds  *)
(* stale is stale, and what a round has not seen is gone.                   *)
LEMMA NothingFreshDropped ==
  ASSUME TypeInv, CacheInv, RoundInv, [Next]_vars,
         NEW o \in Object, NEW u \in NsUid, MustKeep(o, u)
  PROVE  \/ cache'[<<o, u>>] = cache[<<o, u>>]
         \/ \E p \in members : StoreObject(p) /\ <<o, u>> = <<p, nsId>> /\ cache'[<<o, u>>] # NoEntry
<1>t. /\ RoundTypeOK /\ InNamespace /\ ClusterTypeOK /\ cache \in ValidationCaches
      /\ ListedOnce /\ <<o, u>> \in Key /\ rv[o] \in Nat
  BY ClusterAssumption DEF TypeInv, TypeOK, CacheInv, Key, ClusterTypeOK
<1>i. ListedHere /\ GroupInProcess /\ SeenOrAhead
  BY DEF RoundInv
<1>k. cache[<<o, u>>] = rv[o] /\ u # NoUid
  BY DEF MustKeep, Cached
<1>1. ASSUME NEW l \in LabelSet, SeeGroup(l) PROVE cache'[<<o, u>>] = cache[<<o, u>>]
  <2>1. CASE <<o, u>> \in Keys(relatedObjects(l))
    <3>1. Listed(o) /\ u = nsId
      BY <2>1 DEF Keys, relatedObjects, Related
    <3>2. /\ cache[<<o, u>>] <= listed[o].rv /\ listed[o].rv <= rv[o]
          /\ listed[o].rv \in Nat
      BY <3>1, <1>t, <1>i, ClusterAssumption DEF ListedHere, ListedOnce, RoundTypeOK
    <3>3. cache[<<o, u>>] = ListedVersion[<<o, u>>]
      BY <3>2, <1>k, <1>t DEF ListedVersion
    <3> QED
      BY <3>3, <1>1, <1>t DEF SeeGroup, RemoveStale, objectAlreadyValidated, MustKeep, Cached
  <2>2. CASE <<o, u>> \notin Keys(relatedObjects(l))
    BY <2>2, <1>1, <1>t DEF SeeGroup, RemoveStale
  <2> QED
    BY <2>1, <2>2
<1>2. ASSUME handleResourceDeletions PROVE cache'[<<o, u>>] = cache[<<o, u>>]
  <2>1. pc = "namespaces" /\ watched[NamespaceOf[o]] = NoUid
    BY <1>2, ClusterAssumption DEF handleResourceDeletions, NothingWatched
  <2>2. <<o, u>> \in current
    BY <2>1, <1>k, <1>i DEF SeenOrAhead, Ahead
  <2> QED
    BY <2>2, <1>2, <1>t DEF handleResourceDeletions, Forgotten
<1>3. ASSUME NEW p \in members, StoreObject(p)
      PROVE  \/ cache'[<<o, u>>] = cache[<<o, u>>]
             \/ <<o, u>> = <<p, nsId>> /\ cache'[<<o, u>>] # NoEntry
  <2>1. listed[p].rv # NoEntry
    BY <1>i, <1>t DEF GroupInProcess, ListedHere, RoundTypeOK
  <2> QED
    BY <2>1, <1>3, <1>t DEF StoreObject, store, ValidationCaches
<1>4. CASE UNCHANGED cache
  BY <1>4
<1> QED
  BY <1>1, <1>2, <1>3, <1>4
  DEF Next, Round, Group, vars, Discover, DiscoverFails, Tick, Stop, Cancel, ListNamespaces,
      ListFails, BeginNamespace, ListKind, GroupObjects, SkipValidatedGroup, ConversionFails,
      BeginGroup, RunLint, ProcessReport, EndNamespace, ClusterStep, reconcilerVars

(* The cache keeps every entry at the live version of a labelled object     *)
(* under the UID its namespace has: no failing List call, no change of the  *)
(* cluster during a round and no other group makes the operator forget it   *)
(* and with it delete its series (allObjectsValidated,                      *)
(* handleResourceDeletions).                                                *)
THEOREM FreshEntriesAreKept == Spec => FreshEntriesKept
<1> DEFINE Kept == \A o \in Object, u \in NsUid :
                     (nsUid[NamespaceOf[o]] = u /\ Cached(o, u) /\ manifest[o].labels # NoLabels)
                        => has(cache', <<o, u>>)
<1>1. TypeInv /\ CacheInv /\ RoundInv /\ [Next]_vars => [Kept]_vars
  <2> SUFFICES ASSUME TypeInv, CacheInv, RoundInv, [Next]_vars,
                      NEW o \in Object, NEW u \in NsUid, MustKeep(o, u)
               PROVE  has(cache', <<o, u>>)
    BY DEF MustKeep
  <2>1. cache[<<o, u>>] # NoEntry
    BY DEF MustKeep, Cached, has
  <2> QED
    BY <2>1, NothingFreshDropped DEF has
<1> QED
  BY TypeInit, TypeStep, CacheInit, CacheStep, RoundInit, RoundStep, <1>1, PTL
  DEF Spec, FreshEntriesKept

-----------------------------------------------------------------------------
(***************************************************************************)
(* The steps of Reporting.                                                 *)
(***************************************************************************)

(* The gauges of Reporting are the series. *)
GaugePairs == {<<s.check, <<s.object, s.nsUid>>>> : s \in metrics}

Thing(k) == k[1] \in Object /\ k[2] \in NsUid /\ k = <<k[1], k[2]>>

(* A key is a pair of an object and a namespace UID. *)
LEMMA KeyParts == \A k \in Key : Thing(k)
  BY DEF Key, Thing

(* A pair is on the gauges when its series is. *)
LEMMA GaugePair ==
  ASSUME metrics \subseteq AllSeries, NEW c, NEW o, NEW u
  PROVE  <<c, <<o, u>>>> \in GaugePairs <=> Series(c, o, u) \in metrics
<1>1. ASSUME Series(c, o, u) \in metrics PROVE <<c, <<o, u>>>> \in GaugePairs
  BY <1>1 DEF GaugePairs, Series
<1>2. ASSUME <<c, <<o, u>>>> \in GaugePairs PROVE Series(c, o, u) \in metrics
  <2>1. PICK s \in metrics : <<c, <<o, u>>>> = <<s.check, <<s.object, s.nsUid>>>>
    BY <1>2 DEF GaugePairs
  <2>2. s = [check |-> s.check, object |-> s.object, nsUid |-> s.nsUid]
    BY DEF AllSeries
  <2>3. s.check = c /\ s.object = o /\ s.nsUid = u
    BY <2>1
  <2> QED
    BY <2>1, <2>2, <2>3 DEF Series
<1> QED
  BY <1>1, <1>2

(* The world of Reporting stays when neither the cluster nor the            *)
(* configuration changes.                                                  *)
LEMMA WorldStays ==
  ASSUME UNCHANGED clusterVars, UNCHANGED engineConfigVars PROVE UNCHANGED Promise!worldVars
  BY DEF clusterVars, engineConfigVars, Promise!worldVars, Present, Live, MustReport, Reportable

(* The initial states are initial states of Reporting. *)
LEMMA RefinesInit == Init => Promise!Init
<1> SUFFICES ASSUME Init PROVE Promise!Init
  OBVIOUS
<1>1. \A o \in Object : rv[o] = 0 /\ ~Live(o)
  BY DEF Init, ClusterInit, Live
<1>2. metrics = {} /\ members = {} /\ cache = [k \in Key |-> 0]
  BY DEF Init, EngineInit, ReconcilerInit, newValidationCache
<1>3. Present = {}
  BY <1>1, KeyParts DEF Present, Thing
<1>4. [k \in Key |-> rv[k[1]]] = [k \in Key |-> 0]
  BY <1>1, KeyParts DEF Thing
<1>5. [k \in Key |-> IF Live(k[1]) THEN MustReport(manifest[k[1]]) ELSE {}]
        \in [Key -> SUBSET Metered]
  BY DEF MustReport, Reportable
<1> QED
  BY <1>2, <1>3, <1>4, <1>5 DEF Promise!Init, Promise!Nothing, Keys

(* What is fresh for Reporting, in terms of the cache. *)
LEMMA FreshMeans ==
  ASSUME NEW o \in Object, NEW u \in NsUid
  PROVE  /\ Promise!Fresh(<<o, u>>) <=> Cached(o, u) /\ nsUid[NamespaceOf[o]] = u
         /\ (Promise!Fresh(<<o, u>>) /\ <<o, u>> \in {k \in Present : manifest[k[1]].labels # NoLabels})
              <=> MustKeep(o, u)
  BY DEF Promise!Fresh, Promise!Nothing, Present, Cached, MustKeep, has, Key

(* A thing is told when the series of its object are there. *)
LEMMA ToldMeans ==
  ASSUME NEW o \in Object, NEW u \in NsUid, Live(o), metrics \subseteq AllSeries
  PROVE  Promise!Told(<<o, u>>, GaugePairs)
           <=> \A c \in MustReport(manifest[o]) : Series(c, o, u) \in metrics
<1>1. [k \in Key |-> IF Live(k[1]) THEN MustReport(manifest[k[1]]) ELSE {}][<<o, u>>]
        = MustReport(manifest[o])
  BY DEF Key
<1> QED
  BY <1>1, GaugePair DEF Promise!Told

(* A step of the cluster changes the world. *)
LEMMA RefinesChange ==
  ASSUME ClusterTypeOK, ObjectsHaveNamespaces, ClusterStep PROVE Promise!Change
<1>1. UNCHANGED <<cache, metrics, members, nsId, enabledChecks>> /\ ClusterNext
  BY DEF ClusterStep, reconcilerVars, roundVars, engineVars, nsId
<1>2. UNCHANGED Promise!reporterVars
  BY <1>1 DEF Promise!reporterVars, Keys
<1>3. ASSUME NEW o \in Object, NEW u \in NsUid
      PROVE  /\ rv'[o] >= rv[o]
             /\ <<o, u>> \in Present' /\ rv'[o] = rv[o] =>
                  <<o, u>> \in Present /\ manifest'[o] = manifest[o] /\ Live(o) /\ Live(o)'
  <2>1. /\ rv[o] \in Nat /\ rv'[o] \in Nat
        /\ \/ rv'[o] = rv[o] /\ manifest'[o] \in {manifest[o], Absent}
           \/ rv'[o] > rv[o]
        /\ Live(o)' /\ rv'[o] = rv[o] => nsUid'[NamespaceOf[o]] = nsUid[NamespaceOf[o]]
    BY <1>1, ClusterEffect
  <2>2. ASSUME <<o, u>> \in Present', rv'[o] = rv[o]
        PROVE  <<o, u>> \in Present /\ manifest'[o] = manifest[o] /\ Live(o) /\ Live(o)'
    <3>1. Live(o)' /\ nsUid'[NamespaceOf[o]] = u
      BY <2>2 DEF Present
    <3>2. manifest'[o] = manifest[o] /\ nsUid[NamespaceOf[o]] = u
      BY <2>1, <2>2, <3>1 DEF Live
    <3> QED
      BY <3>1, <3>2 DEF Present, Live, Key
  <2> QED
    BY <2>1, <2>2
<1>4. ASSUME NEW t \in Key
      PROVE  /\ [k \in Key |-> rv[k[1]]]'[t] >= [k \in Key |-> rv[k[1]]][t]
             /\ t \in Present' /\ [k \in Key |-> rv[k[1]]]'[t] = [k \in Key |-> rv[k[1]]][t] =>
                  /\ t \in Present
                  /\ [k \in Key |-> IF Live(k[1]) THEN MustReport(manifest[k[1]]) ELSE {}]'[t]
                       = [k \in Key |-> IF Live(k[1]) THEN MustReport(manifest[k[1]]) ELSE {}][t]
                  /\ t \in {k \in Present : manifest[k[1]].labels # NoLabels}'
                       => t \in {k \in Present : manifest[k[1]].labels # NoLabels}
  <2>1. t[1] \in Object /\ t[2] \in NsUid /\ t = <<t[1], t[2]>>
    BY KeyParts DEF Thing
  <2>2. MustReport(manifest[t[1]])' = IF manifest'[t[1]] = manifest[t[1]]
                                      THEN MustReport(manifest[t[1]]) ELSE MustReport(manifest[t[1]])'
    BY <1>1 DEF MustReport, Reportable
  <2> QED
    BY <2>1, <2>2, <1>3
<1>5. [k \in Key |-> rv[k[1]]]' \in Promise!Versions
  <2>1. rv' \in [Object -> Version \cup {0}]
    BY <1>1, ClusterTypeStep DEF ClusterTypeOK
  <2> QED
    BY <2>1, KeyParts DEF Thing, Promise!Versions, Promise!Nothing
<1> QED
  BY <1>2, <1>4, <1>5 DEF Promise!Change

(* Outside StoreObject, no step drops what is fresh and to be kept. *)
LEMMA DropsStale ==
  ASSUME TypeInv, CacheInv, RoundInv, [Next]_vars, \A o \in members : ~StoreObject(o)
  PROVE  Promise!DropsOnlyStale
<1>v. cache' \in Promise!Versions
  BY TypeStep DEF TypeInv, TypeOK, ValidationCaches, Promise!Versions, Promise!Nothing
<1> SUFFICES ASSUME NEW t \in Key
             PROVE  \/ cache'[t] = cache[t]
                    \/ /\ cache'[t] = NoEntry
                       /\ ~(Promise!Fresh(t) /\ t \in {k \in Present : manifest[k[1]].labels # NoLabels})
  BY <1>v DEF Promise!DropsOnlyStale, Promise!Nothing
<1>1. t[1] \in Object /\ t[2] \in NsUid /\ t = <<t[1], t[2]>>
  BY KeyParts DEF Thing
<1>2. cache'[t] \in {cache[t], NoEntry}
  BY CacheEffect
<1>3. MustKeep(t[1], t[2]) => cache'[t] = cache[t]
  BY <1>1, NothingFreshDropped
<1>4. (Promise!Fresh(t) /\ t \in {k \in Present : manifest[k[1]].labels # NoLabels})
        <=> MustKeep(t[1], t[2])
  BY <1>1, FreshMeans
<1> QED
  BY <1>2, <1>3, <1>4, Zenon

(* A group decision begins work, on nothing if its objects are validated or *)
(* do not convert.                                                         *)
LEMMA RefinesBegin ==
  ASSUME TypeInv, CacheInv, RoundInv, [Next]_vars, NEW l \in LabelSet, Group(l)
  PROVE  Promise!Begin
<1>s. SeeGroup(l)
  BY Zenon DEF Group, SkipValidatedGroup, ConversionFails, BeginGroup
<1>1. pc = "groups" /\ members = {} /\ UNCHANGED <<clusterVars, engineVars>>
  BY <1>s DEF SeeGroup, RoundInv, GroupInProcess
<1>2. Promise!DropsOnlyStale
  BY <1>1, DropsStale
<1>3. UNCHANGED Promise!worldVars /\ UNCHANGED metrics
  BY <1>1, WorldStays DEF engineVars, engineConfigVars
<1>4. Keys(members)' \subseteq Key
  <2>1. TypeInv' /\ RoundInv'
    BY TypeStep, RoundStep
  <2> QED
    BY <2>1 DEF TypeInv, TypeOK, RoundInv, MembersSeen
<1>5. Keys(members) = {}
  BY <1>1 DEF Keys
<1> QED
  BY <1>2, <1>3, <1>4, <1>5 DEF Promise!Begin

(* A run of kube-linter and the processing of a report change the series of *)
(* the members only, and leave told what is fresh.                         *)
LEMMA RefinesAdjust ==
  ASSUME TypeInv, CacheInv, RoundInv, [Next]_vars,
         RunLint \/ \E r \in reports : ProcessReport(r)
  PROVE  Promise!Adjust
<1>t. /\ metrics \subseteq AllSeries /\ metrics' \subseteq AllSeries
      /\ nsId \in NsUid /\ members \subseteq Object
  <2>1. TypeInv'
    BY TypeStep
  <2> QED
    BY <2>1 DEF TypeInv, TypeOK, EngineTypeOK, RoundTypeOK, InNamespace, RunLint, ProcessReport, nsId
<1>1. UNCHANGED <<clusterVars, engineConfigVars, cache, members, nsId>>
  BY DEF RunLint, ProcessReport, nsId
<1>2. ASSUME NEW s, s \in metrics \cup metrics', s \notin metrics \/ s \notin metrics'
      PROVE  s.object \in members /\ s.nsUid = nsId
  <2>1. CASE RunLint
    <3>1. s \in metrics /\ s \notin metrics'
      BY <2>1, <1>2, <1>t, MetricsType DEF RunLint, clearMetrics, DeleteNoReplicas
    <3>2. s \in DeleteNoReplicas(metrics, members, listedManifests)
      BY <3>1, <1>t DEF DeleteNoReplicas, Labelled, AllSeries
    <3> QED
      BY <3>1, <3>2, <2>1 DEF RunLint, clearMetrics
  <2>2. ASSUME NEW r \in reports, ProcessReport(r) PROVE s.object \in members /\ s.nsUid = nsId
    <3>1. s = Series(r.check, r.object, nsId)
      BY <2>2, <1>2 DEF ProcessReport, processResult
    <3> QED
      BY <3>1 DEF Series, RoundInv, GroupInProcess
  <2> QED
    BY <2>1, <2>2
<1>3. ASSUME NEW e, e \in GaugePairs \cup GaugePairs', (e \in GaugePairs) # (e \in GaugePairs')
      PROVE  e[2] \in Keys(members)
  <2>1. PICK s \in metrics \cup metrics' : e = <<s.check, <<s.object, s.nsUid>>>>
    BY <1>3 DEF GaugePairs
  <2>2. s \notin metrics \/ s \notin metrics'
    BY <2>1, <1>3 DEF GaugePairs
  <2>3. s.object \in members /\ s.nsUid = nsId
    BY <2>2, <1>2
  <2> QED
    BY <2>1, <2>3 DEF Keys
<1>4. ASSUME NEW t \in Keys(members), Promise!Fresh(t)
      PROVE  Promise!Told(t, GaugePairs')
  <2>1. PICK o \in members : t = <<o, nsId>>
    BY DEF Keys
  <2>2. o \in Object /\ Cached(o, nsId)
    BY <2>1, <1>4, <1>t, FreshMeans
  <2>3. Cached(o, nsId)'
    BY <2>2, <1>1 DEF Cached, has, Live, clusterVars
  <2>4. NoFailureHidden'
    BY CacheStep DEF CacheInv
  <2>5. \A c \in MustReport(manifest[o])' : Series(c, o, nsId) \in metrics'
    BY <2>2, <2>3, <2>4, <1>t, <1>1 DEF NoFailureHidden
  <2>6. MustReport(manifest[o])' = MustReport(manifest[o]) /\ Live(o)
    BY <2>2, <1>1 DEF MustReport, Reportable, clusterVars, engineConfigVars, Cached
  <2>7. \A c \in MustReport(manifest[o]) : <<c, <<o, nsId>>>> \in GaugePairs'
    <3> SUFFICES ASSUME NEW c \in MustReport(manifest[o]) PROVE <<c, <<o, nsId>>>> \in GaugePairs'
      OBVIOUS
    <3>1. Series(c, o, nsId) \in metrics'
      BY <2>5, <2>6, Zenon
    <3> QED
      BY <3>1 DEF GaugePairs, Series
  <2>8. [k \in Key |-> IF Live(k[1]) THEN MustReport(manifest[k[1]]) ELSE {}][<<o, nsId>>]
          = MustReport(manifest[o])
    BY <2>2, <2>6, <1>t DEF Key
  <2> QED
    BY <2>1, <2>7, <2>8 DEF Promise!Told
<1>5. UNCHANGED Promise!worldVars /\ UNCHANGED Keys(members)
  BY <1>1, WorldStays DEF Keys
<1> QED
  BY <1>1, <1>3, <1>4, <1>5 DEF Promise!Adjust, GaugePairs

(* Storing the outcome for a member settles it: every failure it has at the *)
(* listed version is on the gauges by then.                                *)
LEMMA RefinesSettle ==
  ASSUME TypeInv, CacheInv, RoundInv, NEW o \in members, StoreObject(o)
  PROVE  Promise!Settle
<1>t. /\ metrics \subseteq AllSeries /\ nsId \in NsUid /\ o \in Object /\ <<o, nsId>> \in Key
      /\ cache \in ValidationCaches /\ RoundTypeOK /\ Listed(o)
  BY DEF TypeInv, TypeOK, EngineTypeOK, RoundTypeOK, InNamespace, StoreObject, nsId, Key,
         RoundInv, GroupInProcess
<1>1. /\ UNCHANGED <<clusterVars, engineVars, nsId>> /\ members' = members \ {o}
      /\ pc = "report" /\ reports = {} /\ cache' = [cache EXCEPT ![<<o, nsId>>] = listed[o].rv]
  BY DEF StoreObject, store, nsId
<1>2. Keys(members)' = Keys(members) \ {<<o, nsId>>} /\ <<o, nsId>> \in Keys(members)
  BY <1>1 DEF Keys
<1>3. listed[o].rv \in Version /\ listed[o].rv <= rv[o]
  BY <1>t DEF RoundTypeOK, RoundInv, ListedHere, CacheInv, ListedOnce
<1>4. ASSUME Live(o), listed[o].rv = rv[o] PROVE Promise!Told(<<o, nsId>>, GaugePairs)
  <2>1. listed[o].manifest = manifest[o]
    BY <1>4, <1>t DEF CacheInv, ListedOnce
  <2>2. \A c \in MustReport(manifest[o]) : Series(c, o, nsId) \in metrics
    BY <2>1, <1>1 DEF CacheInv, ReportsPending
  <2> QED
    BY <2>2, <1>4, <1>t, ToldMeans
<1>5. UNCHANGED Promise!worldVars /\ UNCHANGED metrics
  BY <1>1, WorldStays DEF engineVars, engineConfigVars
<1>6. <<o, nsId>> \in Present => Live(o)
  BY DEF Present
<1>7. [k \in Key |-> rv[k[1]]][<<o, nsId>>] = rv[o]
  BY <1>t
<1> QED
  BY <1>1, <1>2, <1>3, <1>4, <1>5, <1>6, <1>7 DEF Promise!Settle, GaugePairs

(* The end of a round forgets what it did not see, with its series. *)
LEMMA RefinesForget ==
  ASSUME TypeInv, CacheInv, RoundInv, [Next]_vars, handleResourceDeletions
  PROVE  Promise!Forget
<1>1. /\ pc = "namespaces" /\ members = {} /\ members' = {} /\ UNCHANGED <<clusterVars, engineConfigVars>>
      /\ metrics' = {s \in metrics : <<s.object, s.nsUid>> \notin Forgotten}
      /\ metrics \subseteq AllSeries
  BY LeftClean
  DEF handleResourceDeletions, RoundInv, GroupInProcess, TypeInv, TypeOK, EngineTypeOK
<1>2. Promise!DropsOnlyStale
  BY <1>1, DropsStale
<1>3. UNCHANGED Promise!worldVars /\ Keys(members) = {} /\ Keys(members)' = {}
  BY <1>1, WorldStays DEF Keys
<1>4. ASSUME NEW s \in metrics
      PROVE  s \in metrics' <=> cache'[<<s.object, s.nsUid>>] = cache[<<s.object, s.nsUid>>]
  <2>1. <<s.object, s.nsUid>> \in Key
    BY <1>1 DEF AllSeries, Key
  <2> QED
    BY <1>1, <2>1 DEF handleResourceDeletions, Forgotten, has
<1>5. GaugePairs' = {e \in GaugePairs : cache'[e[2]] = cache[e[2]]}
  <2>1. ASSUME NEW e PROVE e \in GaugePairs' => e \in GaugePairs /\ cache'[e[2]] = cache[e[2]]
    <3> SUFFICES ASSUME e \in GaugePairs' PROVE e \in GaugePairs /\ cache'[e[2]] = cache[e[2]]
      OBVIOUS
    <3>1. PICK s \in metrics' : e = <<s.check, <<s.object, s.nsUid>>>>
      BY DEF GaugePairs
    <3> QED
      BY <3>1, <1>1, <1>4 DEF GaugePairs
  <2>2. ASSUME NEW e \in GaugePairs, cache'[e[2]] = cache[e[2]] PROVE e \in GaugePairs'
    <3>1. PICK s \in metrics : e = <<s.check, <<s.object, s.nsUid>>>>
      BY DEF GaugePairs
    <3>2. s \in metrics'
      BY <3>1, <2>2, <1>4
    <3> QED
      BY <3>1, <3>2 DEF GaugePairs
  <2> QED
    BY <2>1, <2>2
<1> QED
  BY <1>2, <1>3, <1>5 DEF Promise!Forget, GaugePairs

(* Every other step changes nothing that Reporting sees. *)
LEMMA RefinesStutter ==
  ASSUME GroupInProcess, UNCHANGED <<clusterVars, engineVars, cache>>,
         \/ UNCHANGED members /\ (UNCHANGED nsId \/ members = {})
         \/ pc \notin {"lint", "report"} /\ members' = {}
  PROVE  UNCHANGED Promise!reportingVars
<1>1. UNCHANGED Promise!worldVars
  BY WorldStays DEF engineVars, engineConfigVars
<1>2. UNCHANGED <<metrics, cache>> /\ UNCHANGED Keys(members)
  BY DEF engineVars, GroupInProcess, Keys
<1> QED
  BY <1>1, <1>2 DEF Promise!reportingVars, Promise!reporterVars

(* Every step of Reconciler is a step of Reporting or changes nothing of it. *)
LEMMA RefinesStep ==
  TypeInv /\ CacheInv /\ RoundInv /\ [Next]_vars => [Promise!Next]_Promise!reportingVars
<1> SUFFICES ASSUME TypeInv, CacheInv, RoundInv, [Next]_vars
             PROVE  Promise!Next \/ UNCHANGED Promise!reportingVars
  OBVIOUS
<1>i. GroupInProcess /\ ObjectsHaveNamespaces /\ ClusterTypeOK
  BY DEF RoundInv, TypeInv, TypeOK
<1>1. CASE Discover \/ DiscoverFails \/ Tick \/ Stop \/ ListNamespaces \/ ListFails \/ ListKind
           \/ GroupObjects \/ EndNamespace \/ \E n \in Namespace : BeginNamespace(n)
  BY <1>1, <1>i, RefinesStutter, LeftClean
  DEF Discover, DiscoverFails, Tick, Stop, ListNamespaces, ListFails, ListKind, GroupObjects,
      EndNamespace, BeginNamespace, roundVars, GroupInProcess
<1>2. CASE Cancel \/ UNCHANGED vars
  BY <1>2, <1>i, RefinesStutter DEF Cancel, vars, reconcilerVars, roundVars, nsId
<1>3. CASE \E l \in LabelSet : Group(l)
  BY <1>3, RefinesBegin DEF Promise!Next
<1>4. CASE RunLint \/ \E r \in reports : ProcessReport(r)
  BY <1>4, RefinesAdjust DEF Promise!Next
<1>5. CASE \E o \in members : StoreObject(o)
  BY <1>5, RefinesSettle DEF Promise!Next
<1>6. CASE handleResourceDeletions
  BY <1>6, RefinesForget DEF Promise!Next
<1>7. CASE ClusterStep
  BY <1>7, <1>i, RefinesChange DEF Promise!Next
<1> QED
  BY <1>1, <1>2, <1>3, <1>4, <1>5, <1>6, <1>7, Zenon DEF Next, Round

(* The rounds of the reconciler implement the abstract reporter, for every  *)
(* cluster and every interleaving with it: what reconcileEverything does is *)
(* to begin work, adjust the gauges of what it works on, settle and forget. *)
THEOREM ReconcilerReports == Spec => ImplementsReporting
  BY TypeInit, TypeStep, CacheInit, CacheStep, RoundInit, RoundStep, RefinesInit, RefinesStep, PTL
  DEF Spec, ImplementsReporting, Promise!Spec

-----------------------------------------------------------------------------
(***************************************************************************)
(* What holds of listing, cache and group under any configuration.         *)
(***************************************************************************)

(* What a round has listed, what the cache holds and which group is in      *)
(* process agree with the cluster, whatever checks are enabled and whatever *)
(* the gauges tell.                                                        *)
ListingInv ==
    /\ ListedOnce /\ CachedOnce /\ GroupEntries
    /\ ObjectsHaveNamespaces /\ ListedHere /\ GroupInProcess /\ MembersSeen

(* A write to the cluster makes a new version. *)
LEMMA WritesMoveOn ==
  ASSUME TypeInv, [Next]_vars, NEW o \in Object
  PROVE  /\ rv[o] \in Nat /\ rv'[o] \in Nat
         /\ \/ rv'[o] = rv[o] /\ manifest'[o] \in {manifest[o], Absent}
            \/ rv'[o] > rv[o]
<1>t. ClusterTypeOK /\ rv[o] \in Nat
  BY ClusterAssumption DEF TypeInv, TypeOK, ClusterTypeOK
<1>1. CASE UNCHANGED <<rv, manifest>>
  BY <1>1, <1>t
<1>2. ASSUME NEW p \in Object, NEW m \in ManifestsOf[p], CreateObject(p, m) \/ UpdateObject(p, m)
      PROVE  /\ \/ rv'[o] = rv[o] /\ manifest'[o] = manifest[o]
                \/ rv'[o] = rv[o] + 1 \/ (rv[o] = 0 /\ rv'[o] = 1)
  BY <1>2, <1>t DEF CreateObject, UpdateObject, ClusterTypeOK
<1>3. ASSUME NEW p \in Object, DeleteObject(p)
      PROVE  rv'[o] = rv[o] /\ manifest'[o] \in {manifest[o], Absent}
  BY <1>3, <1>t DEF DeleteObject, ClusterTypeOK
<1>4. CASE ClusterStep
  BY <1>1, <1>2, <1>3, <1>4, <1>t DEF ClusterStep, ClusterNext, CreateNamespace, DeleteNamespace
<1> QED
  BY <1>1, <1>4, ClusterAlone DEF clusterVars

(* What was listed stays what the object was at that version. *)
LEMMA ListedOnceStep == ASSUME TypeInv, ListedOnce, [Next]_vars PROVE ListedOnce'
<1>t. RoundTypeOK
  BY DEF TypeInv, TypeOK
<1> SUFFICES ASSUME NEW o \in Object, Listed(o)'
             PROVE  /\ listed'[o].rv <= rv'[o]
                    /\ Live(o)' /\ listed'[o].rv = rv'[o] => listed'[o].manifest = manifest'[o]
  BY DEF ListedOnce
<1>1. \/ listed'[o] = listed[o]
      \/ listed'[o] = [rv |-> rv[o], manifest |-> manifest[o]] /\ UNCHANGED clusterVars
  <2>1. UNCHANGED listed \/ listed' = NothingListed \/ ListKind
    BY LeftClean
    DEF Next, Round, Group, vars, Discover, DiscoverFails, Tick, Stop, Cancel, ListNamespaces,
        ListFails, BeginNamespace, GroupObjects, SkipValidatedGroup, ConversionFails,
        BeginGroup, RunLint, ProcessReport, StoreObject, EndNamespace,
        handleResourceDeletions, ClusterStep, reconcilerVars, roundVars
  <2>2. listed' # NothingListed
    BY NothingIsListed DEF Listed
  <2>3. ListKind => \/ listed'[o] = listed[o]
                    \/ /\ listed'[o] = [rv |-> rv[o], manifest |-> manifest[o]]
                       /\ UNCHANGED clusterVars
    BY DEF ListKind
  <2> QED
    BY <2>1, <2>2, <2>3
<1>2. /\ rv[o] \in Nat /\ rv'[o] \in Nat
      /\ \/ rv'[o] = rv[o] /\ manifest'[o] \in {manifest[o], Absent}
         \/ rv'[o] > rv[o]
  BY WritesMoveOn
<1>3. CASE listed'[o] = listed[o]
  <2>1. /\ listed[o].rv <= rv[o] /\ listed[o].rv \in Nat
        /\ Live(o) /\ listed[o].rv = rv[o] => listed[o].manifest = manifest[o]
    BY <1>3, <1>t, ClusterAssumption DEF ListedOnce, Listed, RoundTypeOK
  <2> QED
    BY <1>2, <1>3, <2>1 DEF Live
<1>4. CASE listed'[o] = [rv |-> rv[o], manifest |-> manifest[o]] /\ UNCHANGED clusterVars
  BY <1>4, <1>2 DEF clusterVars
<1> QED
  BY <1>1, <1>3, <1>4

(* The cache stores listed versions, so it stays behind the cluster. *)
LEMMA CachedOnceStep ==
  ASSUME TypeInv, ListedOnce, CachedOnce, GroupInProcess, [Next]_vars PROVE CachedOnce'
<1>t. RoundTypeOK /\ cache \in ValidationCaches
  BY DEF TypeInv, TypeOK
<1> SUFFICES ASSUME NEW o \in Object, NEW u \in NsUid PROVE cache'[<<o, u>>] <= rv'[o]
  BY DEF CachedOnce
<1>1. /\ <<o, u>> \in Key /\ cache[<<o, u>>] <= rv[o]
      /\ cache[<<o, u>>] \in Nat
  BY <1>t, ClusterAssumption DEF Key, CachedOnce, ValidationCaches
<1>2. rv[o] \in Nat /\ rv'[o] \in Nat /\ rv[o] <= rv'[o]
  BY WritesMoveOn
<1>3. CASE cache'[<<o, u>>] \in {cache[<<o, u>>], NoEntry}
  BY <1>1, <1>2, <1>3
<1>4. ASSUME NEW p \in members, StoreObject(p), <<o, u>> = <<p, nsId>>,
             cache'[<<o, u>>] = listed[p].rv
      PROVE  cache'[<<o, u>>] <= rv'[o]
  <2>1. p = o /\ listed[o].rv <= rv[o] /\ listed[o].rv \in Nat
    BY <1>4, <1>t, ClusterAssumption DEF GroupInProcess, ListedOnce, RoundTypeOK
  <2> QED
    BY <2>1, <1>2, <1>4
<1> QED
  BY <1>1, <1>3, <1>4, CacheEffect

(* The entries of the members are dropped or of the listed version. *)
LEMMA GroupEntriesStep ==
  ASSUME TypeInv, GroupEntries, [Next]_vars PROVE GroupEntries'
<1>t. RoundTypeOK /\ InNamespace /\ cache \in ValidationCaches /\ members \subseteq Object
  BY DEF TypeInv, TypeOK, RoundTypeOK
<1>u. ASSUME UNCHANGED <<listed, members, cache, nsId>>, pc \in {"lint", "report"} \/ pc' = pc
      PROVE  GroupEntries'
  BY <1>u DEF GroupEntries, Listed
<1>o. ASSUME pc' \notin {"lint", "report"} PROVE GroupEntries'
  BY <1>o DEF GroupEntries
<1>1. CASE Discover \/ DiscoverFails \/ Tick \/ Stop \/ ListNamespaces \/ ListKind
           \/ GroupObjects \/ EndNamespace \/ \E n \in Namespace : BeginNamespace(n)
  BY <1>1, <1>o
  DEF Discover, DiscoverFails, Tick, Stop, ListNamespaces, ListKind, GroupObjects, EndNamespace,
      BeginNamespace
<1>2. CASE ListFails \/ handleResourceDeletions
           \/ \E l \in LabelSet : ConversionFails(l) \/ SkipValidatedGroup(l)
  BY <1>2, <1>o, LeftClean
  DEF ListFails, handleResourceDeletions, ConversionFails, SkipValidatedGroup, SeeGroup
<1>3. ASSUME NEW l \in LabelSet, BeginGroup(l) PROVE GroupEntries'
  <2>1. /\ members' = relatedObjects(l) /\ UNCHANGED <<listed, nsId>> /\ nsId \in NsUid
        /\ cache' = RemoveStale(cache, Keys(relatedObjects(l)), ListedVersion)
    BY <1>3, <1>t DEF BeginGroup, SeeGroup, nsId, InNamespace, RoundTypeOK
  <2>2. ASSUME NEW o \in relatedObjects(l)
        PROVE  Listed(o) /\ cache'[<<o, nsId>>] \in {NoEntry, listed[o].rv}
    <3>1. o \in Object /\ Listed(o)
      BY DEF relatedObjects, Related
    <3>2. <<o, nsId>> \in Key /\ <<o, nsId>> \in Keys(relatedObjects(l))
      BY <3>1, <2>1 DEF Key, Keys
    <3>3. ListedVersion[<<o, nsId>>] = listed[o].rv
      BY <3>2 DEF ListedVersion
    <3> QED
      BY <2>1, <3>1, <3>2, <3>3 DEF RemoveStale, objectAlreadyValidated, has
  <2> QED
    BY <2>1, <2>2 DEF GroupEntries, Listed
<1>4. CASE RunLint \/ \E r \in reports : ProcessReport(r)
  BY <1>4, <1>u DEF RunLint, ProcessReport, nsId
<1>5. ASSUME NEW o \in members, StoreObject(o) PROVE GroupEntries'
  <2>1. /\ UNCHANGED <<listed, nsId>> /\ members' = members \ {o} /\ pc = "report" /\ nsId \in NsUid
        /\ \A k \in Key : k # <<o, nsId>> => cache'[k] = cache[k]
    BY <1>5, <1>t DEF StoreObject, store, ValidationCaches, nsId, InNamespace, RoundTypeOK
  <2> SUFFICES ASSUME NEW p \in members \ {o}
               PROVE  Listed(p) /\ cache'[<<p, nsId>>] \in {NoEntry, listed[p].rv}
    BY <2>1 DEF GroupEntries, Listed
  <2>2. <<p, nsId>> \in Key /\ <<p, nsId>> # <<o, nsId>>
    BY <2>1, <1>t DEF Key
  <2> QED
    BY <2>1, <2>2 DEF GroupEntries
<1>6. CASE ClusterStep \/ Cancel \/ UNCHANGED vars
  BY <1>6, <1>u DEF ClusterStep, Cancel, vars, reconcilerVars, roundVars, nsId
<1> QED
  BY <1>1, <1>2, <1>3, <1>4, <1>5, <1>6, Zenon DEF Next, Round, Group

(* Every step keeps listing, cache and group together. *)
LEMMA ListingStep == TypeInv /\ ListingInv /\ [Next]_vars => ListingInv'
<1> SUFFICES ASSUME TypeInv, ListingInv, [Next]_vars PROVE ListingInv'
  OBVIOUS
<1>i. /\ ListedOnce /\ CachedOnce /\ GroupEntries /\ ObjectsHaveNamespaces /\ ListedHere
      /\ GroupInProcess /\ MembersSeen /\ ClusterTypeOK
  BY DEF ListingInv, TypeInv, TypeOK
<1>1. ListedOnce' /\ CachedOnce' /\ GroupEntries'
  BY <1>i, ListedOnceStep, CachedOnceStep, GroupEntriesStep
<1>2. ObjectsHaveNamespaces' /\ ListedHere' /\ GroupInProcess' /\ MembersSeen'
  BY <1>i, ObjectsStep, ListedStep, GroupStep
<1> QED
  BY <1>1, <1>2 DEF ListingInv

-----------------------------------------------------------------------------
(***************************************************************************)
(* No failure is told without a cause.                                     *)
(***************************************************************************)

(* What is listed are manifests objects were given. *)
LEMMA GivenStep == ASSUME TypeInv, ManifestsGiven, [Next]_vars PROVE ManifestsGiven'
<1>1. CASE UNCHANGED <<clusterVars, listed>>
  BY <1>1 DEF clusterVars, ManifestsGiven, Live, Listed
<1>2. CASE listed' = NothingListed /\ UNCHANGED clusterVars
  BY <1>2, NothingIsListed DEF clusterVars, ManifestsGiven, Live, Listed
<1>3. CASE ListKind
  BY <1>3 DEF ListKind, ManifestsGiven, Live, Listed, clusterVars
<1>4. CASE ClusterStep
  BY <1>4, ClusterGives DEF TypeInv, TypeOK
<1>5. UNCHANGED listed \/ listed' = NothingListed \/ ListKind
  BY LeftClean
  DEF Next, Round, Group, vars, Discover, DiscoverFails, Tick, Stop, Cancel, ListNamespaces,
      ListFails, BeginNamespace, GroupObjects, SkipValidatedGroup, ConversionFails,
      BeginGroup, RunLint, ProcessReport, StoreObject, EndNamespace,
      handleResourceDeletions, ClusterStep, reconcilerVars, roundVars
<1> QED
  BY <1>1, <1>2, <1>3, <1>4, <1>5, ClusterAlone

(* Object o, or a neighbour that may share its group, can be reported for c. *)
Caused(o, m, c) == CanReport(m, c) \/ NeighbourCanReport(o, c)

(* In the middle of a group: the run cleared what it did not report, so     *)
(* that what its members have on the gauges is caused by what was listed of *)
(* them, and what it still has to set as well.                              *)
RunCaused ==
    /\ pc = "report" =>
         \A s \in metrics :
           s.object \in members /\ s.nsUid = nsId =>
             Caused(s.object, listed[s.object].manifest, s.check)
    /\ \A r \in reports : CanReport(listed[r.object].manifest, r.check)

AlarmInv == ManifestsGiven /\ RunCaused /\ AlarmsHaveCauses

(* What a run reports of one object is a cause for every other of the group. *)
LEMMA NeighboursCause ==
  ASSUME ManifestsGiven, ListedHere, NEW o \in Object, NEW p \in Object, Listed(o), Listed(p),
         NEW c, CanReport(listed[p].manifest, c)
  PROVE  Caused(o, listed[o].manifest, c)
<1>1. CASE p = o
  BY <1>1 DEF Caused
<1>2. CASE p # o
  <2>1. NamespaceOf[p] = NamespaceOf[o] /\ listed[p].manifest \in ManifestsOf[p]
    BY DEF ListedHere, ManifestsGiven
  <2> QED
    BY <1>2, <2>1 DEF Caused, NeighbourCanReport
<1> QED
  BY <1>1, <1>2

(* Alarms keep their causes when series are only deleted and entries only  *)
(* dropped.                                                                *)
LEMMA CausesStay ==
  ASSUME TypeInv, AlarmsHaveCauses, UNCHANGED clusterVars, metrics' \subseteq metrics,
         \A k \in Key : cache'[k] \in {cache[k], NoEntry}
  PROVE  AlarmsHaveCauses'
<1> SUFFICES ASSUME NEW s \in metrics', Cached(s.object, s.nsUid)'
             PROVE  Caused(s.object, manifest[s.object], s.check)
  BY DEF AlarmsHaveCauses, Caused, clusterVars
<1>1. s \in metrics /\ <<s.object, s.nsUid>> \in Key
  BY DEF TypeInv, TypeOK, EngineTypeOK, AllSeries, Key
<1>2. Cached(s.object, s.nsUid)
  BY <1>1 DEF Cached, has, Live, clusterVars
<1> QED
  BY <1>1, <1>2 DEF AlarmsHaveCauses, Caused

(* An object cached at its live version while its group is validated is    *)
(* still what was listed of it.                                            *)
LEMMA CachedAsListed ==
  ASSUME ListedOnce, GroupEntries, pc = "report", NEW o \in members, members \subseteq Object,
         Cached(o, nsId)
  PROVE  manifest[o] = listed[o].manifest
<1>1. Listed(o) /\ cache[<<o, nsId>>] = listed[o].rv /\ cache[<<o, nsId>>] = rv[o] /\ Live(o)
  BY DEF GroupEntries, Cached, has
<1> QED
  BY <1>1 DEF ListedOnce

(* Every step keeps the causes of the alarms. *)
LEMMA AlarmStep == TypeInv /\ ListingInv /\ AlarmInv /\ [Next]_vars => AlarmInv'
<1> SUFFICES ASSUME TypeInv, ListingInv, AlarmInv, [Next]_vars PROVE AlarmInv'
  OBVIOUS
<1>t. /\ ClusterTypeOK /\ EngineTypeOK /\ RoundTypeOK /\ InNamespace
      /\ cache \in ValidationCaches /\ members \subseteq Object
  BY DEF TypeInv, TypeOK, RoundTypeOK
<1>i. /\ ListedOnce /\ CachedOnce /\ GroupEntries /\ ListedHere /\ GroupInProcess
      /\ ObjectsHaveNamespaces /\ ManifestsGiven /\ RunCaused /\ AlarmsHaveCauses
  BY DEF ListingInv, AlarmInv
<1>q. ASSUME RunCaused', AlarmsHaveCauses' PROVE AlarmInv'
  BY <1>q, <1>i, GivenStep DEF AlarmInv
(* Steps that end outside a report and tell nothing new. *)
<1>o. ASSUME pc' # "report", reports' = {}, UNCHANGED clusterVars, metrics' \subseteq metrics,
             \A k \in Key : cache'[k] \in {cache[k], NoEntry}
      PROVE  AlarmInv'
  BY <1>o, <1>i, <1>q, CausesStay DEF RunCaused
<1>c. cache' = cache => \A k \in Key : cache'[k] \in {cache[k], NoEntry}
  OBVIOUS
<1>1. CASE Discover \/ DiscoverFails \/ Tick \/ Stop \/ ListNamespaces \/ ListKind
           \/ GroupObjects \/ EndNamespace \/ \E n \in Namespace : BeginNamespace(n)
  <2>1. /\ pc \notin {"lint", "report"} /\ pc' # "report"
        /\ UNCHANGED <<clusterVars, engineVars, reports, cache>>
    BY <1>1
    DEF Discover, DiscoverFails, Tick, Stop, ListNamespaces, ListKind, GroupObjects, EndNamespace,
        BeginNamespace, roundVars
  <2>2. reports' = {} /\ metrics' \subseteq metrics
    BY <2>1, <1>i DEF GroupInProcess, engineVars
  <2> QED
    BY <2>1, <2>2, <1>o, <1>c
<1>2. CASE ListFails
  BY <1>2, <1>o, <1>c, LeftClean DEF ListFails, engineVars
<1>3. CASE handleResourceDeletions
  <2>1. LeaveRound /\ UNCHANGED clusterVars /\ metrics' \subseteq metrics
        /\ \A k \in Key : cache'[k] \in {cache[k], NoEntry}
    BY <1>3 DEF handleResourceDeletions
  <2> QED
    BY <2>1, <1>o, LeftClean
<1>4. ASSUME NEW l \in LabelSet, Group(l) PROVE AlarmInv'
  <2>1. /\ SeeGroup(l) /\ pc' # "report" /\ (reports' = {} \/ UNCHANGED reports)
    BY <1>4, LeftClean DEF Group, SkipValidatedGroup, ConversionFails, BeginGroup, SeeGroup
  <2>2. /\ reports' = {} /\ UNCHANGED <<clusterVars, metrics>>
        /\ \A k \in Key : cache'[k] \in {cache[k], NoEntry}
    BY <2>1, <1>i DEF SeeGroup, RemoveStale, GroupInProcess, engineVars
  <2> QED
    BY <2>1, <2>2, <1>o
(* The run keeps, of its members, the series of checks it reports. *)
<1>5. CASE RunLint
  <2>1. /\ UNCHANGED <<clusterVars, listed, members, cache, nsId>> /\ pc = "lint" /\ pc' = "report"
        /\ reports' = RunReports(members, listedManifests)
        /\ metrics' = clearMetrics(DeleteNoReplicas(metrics, members, listedManifests),
                                   reports', members, nsId)
    BY <1>5 DEF RunLint, nsId
  <2>2. metrics' \subseteq metrics
    BY <2>1 DEF clearMetrics, DeleteNoReplicas
  <2>3. \A o \in members : o \in Object /\ Listed(o) /\ listedManifests[o] = listed[o].manifest
    BY <1>t, <1>i DEF GroupInProcess, listedManifests
  <2>4. \A r \in reports' : r.object \in members /\ CanReport(listed[r.object].manifest, r.check)
    BY <2>1, <2>3 DEF RunReports, LintContext, Fails, CanReport
  <2>5. ASSUME NEW s \in metrics', s.object \in members, s.nsUid = nsId
        PROVE  Caused(s.object, listed[s.object].manifest, s.check)
    <3>1. PICK r \in reports' : r.check = s.check
      BY <2>1, <2>5 DEF clearMetrics
    <3> QED
      BY <3>1, <2>3, <2>4, <2>5, <1>i, NeighboursCause
  <2>6. RunCaused'
    BY <2>1, <2>4, <2>5 DEF RunCaused
  <2> QED
    BY <2>1, <2>2, <2>6, <1>i, <1>c, <1>q, CausesStay
(* A report is told of the object it is about. *)
<1>6. ASSUME NEW r \in reports, ProcessReport(r) PROVE AlarmInv'
  <2>1. /\ UNCHANGED <<clusterVars, listed, members, cache, nsId, pc>> /\ pc = "report"
        /\ reports' = reports \ {r}
        /\ \A s \in metrics' : s \in metrics \/ s = Series(r.check, r.object, nsId)
    BY <1>6 DEF ProcessReport, processResult, nsId
  <2>2. CanReport(listed[r.object].manifest, r.check) /\ r.object \in members
    BY <1>i DEF RunCaused, GroupInProcess
  <2>3. RunCaused'
    BY <2>1, <2>2, <1>i DEF RunCaused, Caused, Series
  <2>4. ASSUME NEW s \in metrics', Cached(s.object, s.nsUid)'
        PROVE  Caused(s.object, manifest[s.object], s.check)
    <3>1. Cached(s.object, s.nsUid)
      BY <2>1, <2>4 DEF Cached, Live, clusterVars
    <3>2. CASE s \in metrics
      BY <3>1, <3>2, <1>i DEF AlarmsHaveCauses, Caused
    <3>3. CASE s = Series(r.check, r.object, nsId)
      <4>1. s.object = r.object /\ s.nsUid = nsId /\ s.check = r.check
        BY <3>3 DEF Series
      <4>2. manifest[r.object] = listed[r.object].manifest
        BY <4>1, <3>1, <2>1, <2>2, <1>t, <1>i, CachedAsListed
      <4> QED
        BY <4>1, <4>2, <2>2 DEF Caused
    <3> QED
      BY <2>1, <3>2, <3>3
  <2>5. AlarmsHaveCauses'
    BY <2>1, <2>4 DEF AlarmsHaveCauses, Caused, clusterVars
  <2> QED
    BY <2>3, <2>5, <1>q
(* What is stored of a member is what the run was about. *)
<1>7. ASSUME NEW o \in members, StoreObject(o) PROVE AlarmInv'
  <2>1. /\ UNCHANGED <<clusterVars, metrics, listed, nsId, reports>> /\ pc = "report" /\ reports = {}
        /\ members' = members \ {o} /\ o \in Object /\ Listed(o)
    BY <1>7, <1>t, <1>i DEF StoreObject, engineVars, nsId, GroupInProcess
  <2>2. \A k \in Key : cache'[k] = IF k = <<o, nsId>> THEN listed[o].rv ELSE cache[k]
    BY <1>7, <1>t DEF StoreObject, store, ValidationCaches
  <2>3. RunCaused'
    BY <2>1, <1>i DEF RunCaused
  <2>4. ASSUME NEW s \in metrics, Cached(s.object, s.nsUid)'
        PROVE  Caused(s.object, manifest[s.object], s.check)
    <3>1. <<s.object, s.nsUid>> \in Key
      BY <1>t DEF EngineTypeOK, AllSeries, Key
    <3>2. CASE s.object = o /\ s.nsUid = nsId
      <4>1. Live(o) /\ listed[o].rv = rv[o]
        BY <3>1, <3>2, <2>1, <2>2, <2>4 DEF Cached, Live, clusterVars
      <4>2. manifest[o] = listed[o].manifest
        BY <4>1, <2>1, <1>i DEF ListedOnce
      <4> QED
        BY <3>2, <4>2, <2>1, <1>i DEF RunCaused
    <3>3. CASE ~(s.object = o /\ s.nsUid = nsId)
      <4>1. Cached(s.object, s.nsUid)
        BY <3>1, <3>3, <2>1, <2>2, <2>4 DEF Cached, has, Live, clusterVars
      <4> QED
        BY <4>1, <1>i DEF AlarmsHaveCauses, Caused
    <3> QED
      BY <3>2, <3>3
  <2>5. AlarmsHaveCauses'
    BY <2>1, <2>4 DEF AlarmsHaveCauses, Caused, clusterVars
  <2> QED
    BY <2>3, <2>5, <1>q
(* A write outdates the entry of the object, or takes the object away. *)
<1>8. CASE ClusterStep
  <2>1. /\ UNCHANGED <<pc, listed, members, reports, cache, nsId, metrics>> /\ ClusterNext
    BY <1>8 DEF ClusterStep, reconcilerVars, roundVars, engineVars, nsId
  <2>2. ASSUME NEW s \in metrics, Cached(s.object, s.nsUid)'
        PROVE  Caused(s.object, manifest'[s.object], s.check)
    <3>1. s.object \in Object /\ s.nsUid \in NsUid
      BY <1>t DEF EngineTypeOK, AllSeries
    <3>2. /\ rv[s.object] \in Nat /\ rv'[s.object] \in Nat
          /\ \/ rv'[s.object] = rv[s.object] /\ manifest'[s.object] \in {manifest[s.object], Absent}
             \/ rv'[s.object] > rv[s.object]
      BY <3>1, <2>1, <1>t, <1>i, ClusterEffect
    <3>3. /\ cache[<<s.object, s.nsUid>>] <= rv[s.object]
          /\ cache[<<s.object, s.nsUid>>] = rv'[s.object] /\ Live(s.object)'
      BY <3>1, <2>1, <2>2, <1>i DEF CachedOnce, Cached
    <3>4. rv'[s.object] = rv[s.object] /\ manifest'[s.object] = manifest[s.object]
      BY <3>2, <3>3 DEF Live
    <3>5. Cached(s.object, s.nsUid)
      BY <3>4, <2>1, <2>2 DEF Cached, Live
    <3> QED
      BY <3>4, <3>5, <1>i DEF AlarmsHaveCauses, Caused
  <2>3. AlarmsHaveCauses'
    BY <2>1, <2>2 DEF AlarmsHaveCauses, Caused
  <2> QED
    BY <2>1, <2>3, <1>i, <1>q DEF RunCaused
<1>9. CASE Cancel \/ UNCHANGED vars
  <2>1. UNCHANGED <<pc, listed, members, reports, cache, nsId, metrics, clusterVars>>
    BY <1>9 DEF Cancel, vars, reconcilerVars, roundVars, engineVars, nsId
  <2>2. RunCaused'
    BY <2>1, <1>i DEF RunCaused
  <2> QED
    BY <2>1, <2>2, <1>i, <1>c, <1>q, CausesStay
<1> QED
  BY <1>1, <1>2, <1>3, <1>4, <1>5, <1>6, <1>7, <1>8, <1>9, Zenon DEF Next, Round

(* Nothing is listed and nothing told when the process starts. *)
LEMMA AlarmInit == Init => ListingInv /\ AlarmInv
<1> SUFFICES ASSUME Init PROVE ListingInv /\ AlarmInv
  OBVIOUS
<1>1. ManifestsGiven
  BY TrackInit DEF TrackInv
<1>2. AlarmInv
  BY <1>1 DEF Init, EngineInit, ReconcilerInit, AlarmInv, RunCaused, AlarmsHaveCauses
<1>3. ListingInv
  BY CacheInit, RoundInit DEF CacheInv, RoundInv, ListingInv
<1> QED
  BY <1>2, <1>3

(* Whatever the cache keeps further rounds from looking at is told of       *)
(* nothing it does not fail, unless a neighbour was reported for it in the  *)
(* same run: rounds given up half way, groups that overlap and namespaces   *)
(* created again leave no other false alarm (clearMetrics, processResult).  *)
THEOREM AlarmsAreCaused == Spec => []AlarmsHaveCauses
<1>1. AlarmInv => AlarmsHaveCauses
  BY DEF AlarmInv
<1> QED
  BY TypeInit, TypeStep, AlarmInit, ListingStep, AlarmStep, <1>1, PTL DEF Spec
===============================================================================
