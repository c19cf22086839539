----------------------------- MODULE SeriesProofs -----------------------------
(***************************************************************************)
(* SeriesTracked, for every cluster whose objects convert to their types:  *)
(* then a round can only be given up at a List call, between two groups.   *)
(* And NoCheckIsMissing, which says why no other step gives a round up.    *)
(***************************************************************************)
EXTENDS ReconcilerProofs

USE DEF Version, NsUid, NoUid, NoEntry

AllConvert == \A o \in Object : \A m \in ManifestsOf[o] : m.typed

(* Objects, and what was listed of them, have manifests they were given.   *)
ManifestsGiven ==
    \A o \in Object :
        /\ Live(o) => manifest[o] \in ManifestsOf[o] /\ rv[o] # 0
        /\ Listed(o) => listed[o].manifest \in ManifestsOf[o] /\ listed[o].rv # 0

(* A group is under validation, and its reports are about its members.     *)
GroupInProcess ==
    /\ pc \in {"lint", "report"} \/ members = {}
    /\ pc = "report" \/ reports = {}
    /\ \A o \in members : Listed(o)
    /\ \A r \in reports : r.object \in members

TrackInv == ManifestsGiven /\ GroupInProcess /\ SeriesTracked

-----------------------------------------------------------------------------
(* Nothing is on the gauges when the process starts. *)
LEMMA TrackInit == Init => TrackInv
<1> SUFFICES ASSUME Init PROVE TrackInv
  OBVIOUS
<1>1. ManifestsGiven
  BY NothingIsListed DEF Init, ClusterInit, ReconcilerInit, ManifestsGiven, Live, Listed
<1> QED
  BY <1>1 DEF Init, EngineInit, ReconcilerInit, TrackInv, GroupInProcess, SeriesTracked

(* Series stay tracked when none is added, no cached key is lost, and the  *)
(* group in process, if any, stays.                                        *)
LEMMA TracksStill ==
  ASSUME SeriesTracked, metrics' \subseteq metrics,
         \A s \in metrics' : has(cache, <<s.object, s.nsUid>>) => has(cache', <<s.object, s.nsUid>>),
         members = {} \/ (members \subseteq members' /\ nsId' = nsId)
  PROVE  SeriesTracked'
  BY DEF SeriesTracked

(* A round is left between two groups: no group is in process. *)
LEMMA TrackLeave ==
  ASSUME LeaveRound, TrackInv, pc \notin {"lint", "report"}, UNCHANGED clusterVars,
         metrics' \subseteq metrics,
         \A s \in metrics' : has(cache, <<s.object, s.nsUid>>) => has(cache', <<s.object, s.nsUid>>)
  PROVE  TrackInv'
<1>1. SeriesTracked'
  BY TracksStill DEF TrackInv, GroupInProcess
<1>2. ManifestsGiven'
  BY NothingIsListed DEF TrackInv, ManifestsGiven, LeaveRound, ClearRound, Live, Listed, clusterVars
<1>3. GroupInProcess'
  BY DEF TrackInv, GroupInProcess, LeaveRound, ClearRound
<1> QED
  BY <1>1, <1>2, <1>3 DEF TrackInv

(* The cluster gives its objects the manifests they may have. *)
LEMMA ClusterGives ==
  ASSUME ClusterTypeOK, ManifestsGiven, ClusterStep PROVE ManifestsGiven'
<1>1. ASSUME NEW o \in Object, Live(o)' PROVE manifest'[o] \in ManifestsOf[o] /\ rv'[o] # 0
  <2>1. CASE UNCHANGED <<rv, manifest>>
    BY <2>1, <1>1 DEF ManifestsGiven, Live
  <2>2. ASSUME NEW p \in Object, NEW m \in ManifestsOf[p], CreateObject(p, m) \/ UpdateObject(p, m)
        PROVE  manifest'[o] \in ManifestsOf[o] /\ rv'[o] # 0
    BY <2>2, <1>1, ClusterAssumption
    DEF CreateObject, UpdateObject, ClusterTypeOK, ManifestsGiven, Live
  <2>3. ASSUME NEW p \in Object, DeleteObject(p)
        PROVE  manifest'[o] \in ManifestsOf[o] /\ rv'[o] # 0
    BY <2>3, <1>1 DEF DeleteObject, ClusterTypeOK, ManifestsGiven, Live
  <2> QED
    BY <2>1, <2>2, <2>3 DEF ClusterStep, ClusterNext, CreateNamespace, DeleteNamespace
<1>2. UNCHANGED listed
  BY DEF ClusterStep, reconcilerVars, roundVars
<1> QED
  BY <1>1, <1>2 DEF ManifestsGiven, Listed

(* Every step keeps the series tracked. *)
LEMMA TrackStep == ASSUME AllConvert PROVE TypeInv /\ TrackInv /\ [Next]_vars => TrackInv'
<1> SUFFICES ASSUME TypeInv, TrackInv, [Next]_vars PROVE TrackInv'
  OBVIOUS
<1>t. ClusterTypeOK /\ EngineTypeOK /\ RoundTypeOK /\ InNamespace /\ cache \in ValidationCaches
  BY DEF TypeInv, TypeOK
<1>i. ManifestsGiven /\ GroupInProcess /\ SeriesTracked
  BY DEF TrackInv
<1>q. ASSUME ManifestsGiven', GroupInProcess', SeriesTracked' PROVE TrackInv'
  BY <1>q DEF TrackInv
<1>g. UNCHANGED <<clusterVars, listed>> => ManifestsGiven'
  BY <1>i DEF clusterVars, ManifestsGiven, Live, Listed
(* Steps outside a group that leave the gauges and the cache alone. *)
<1>o. ASSUME UNCHANGED <<clusterVars, engineVars, cache, listed, members, reports>>,
             pc \notin {"lint", "report"}, pc' \notin {"lint", "report"}
      PROVE  TrackInv'
  <2>1. SeriesTracked'
    BY <1>o, <1>i, TracksStill DEF GroupInProcess, engineVars
  <2>2. GroupInProcess'
    BY <1>o, <1>i DEF GroupInProcess
  <2> QED
    BY <1>o, <2>1, <2>2, <1>q, <1>g DEF engineVars, engineConfigVars
<1>1. ASSUME Discover \/ DiscoverFails \/ Tick \/ Stop \/ ListNamespaces \/ GroupObjects
      PROVE  TrackInv'
  BY <1>1, <1>o
  DEF Discover, DiscoverFails, Tick, Stop, ListNamespaces, GroupObjects, roundVars
<1>2. ASSUME ListFails PROVE TrackInv'
  BY <1>2, TrackLeave DEF ListFails, engineVars, engineConfigVars
<1>3. ASSUME NEW n \in Namespace, BeginNamespace(n) PROVE TrackInv'
  BY <1>3, <1>o DEF BeginNamespace
<1>4. ASSUME ListKind PROVE TrackInv'
  <2>1. ManifestsGiven'
    BY <1>4, <1>i DEF ListKind, ManifestsGiven, Live, Listed, clusterVars
  <2>2. members = {} /\ members' = {} /\ GroupInProcess'
    BY <1>4, <1>i DEF ListKind, GroupInProcess
  <2>3. SeriesTracked'
    BY <2>2, <1>4, <1>i, TracksStill DEF ListKind, engineVars
  <2> QED
    BY <2>1, <2>2, <2>3, <1>4, <1>q DEF ListKind, engineVars, engineConfigVars
<1>5. ASSUME NEW l \in LabelSet, Group(l) PROVE TrackInv'
  <2>s. SeeGroup(l)
    BY <1>5, Zenon DEF Group, SkipValidatedGroup, ConversionFails, BeginGroup
  <2>m. \A o \in relatedObjects(l) : o \in Object /\ Listed(o)
    BY DEF relatedObjects, Related
  <2>e. members = {} /\ reports = {}
    BY <2>s, <1>i DEF SeeGroup, GroupInProcess
  <2>k. \A s \in metrics : <<s.object, s.nsUid>> \in Key
    BY <1>t DEF EngineTypeOK, AllSeries, Key
  <2>1. ~ConversionFails(l)
    BY <2>m, <1>i DEF AllConvert, ConversionFails, Typed, ManifestsGiven
  (* A validated group loses no entry. *)
  <2>2. CASE SkipValidatedGroup(l)
    <3>1. \A k \in Key : cache'[k] = cache[k]
      <4> SUFFICES ASSUME NEW k \in Key, k \in Keys(relatedObjects(l))
                   PROVE  objectAlreadyValidated(cache, k, ListedVersion[k])
        BY <2>s DEF SeeGroup, RemoveStale
      <4>1. PICK o \in relatedObjects(l) : k = <<o, nsId>>
        BY DEF Keys
      <4>2. ListedVersion[k] = listed[o].rv
        BY <4>1 DEF ListedVersion
      <4> QED
        BY <4>1, <4>2, <2>2 DEF SkipValidatedGroup, allObjectsValidated
    <3>2. SeriesTracked'
      BY <3>1, <2>e, <2>k, <2>s, <1>i, TracksStill DEF SeeGroup, engineVars, has
    <3> QED
      BY <3>2, <2>2, <2>s, <2>e, <1>i, <1>q, <1>g
      DEF SkipValidatedGroup, SeeGroup, GroupInProcess, engineVars, engineConfigVars
  (* The objects whose entries are dropped are the members of the group. *)
  <2>3. CASE BeginGroup(l)
    <3>1. /\ UNCHANGED <<clusterVars, engineVars, listed, reports, nsId>>
          /\ members' = relatedObjects(l) /\ pc' = "lint"
      BY <2>3, <2>s DEF BeginGroup, SeeGroup, nsId
    <3>2. ASSUME NEW s \in metrics
          PROVE  has(cache', <<s.object, s.nsUid>>) \/ (s.object \in members' /\ s.nsUid = nsId)
      <4>1. has(cache, <<s.object, s.nsUid>>)
        BY <2>e, <1>i DEF SeriesTracked
      <4>2. CASE <<s.object, s.nsUid>> \in Keys(relatedObjects(l))
        BY <4>2, <3>1 DEF Keys
      <4>3. CASE <<s.object, s.nsUid>> \notin Keys(relatedObjects(l))
        BY <4>1, <4>3, <2>k, <2>s DEF SeeGroup, RemoveStale, has
      <4> QED
        BY <4>2, <4>3
    <3>3. SeriesTracked'
      BY <3>1, <3>2 DEF SeriesTracked, engineVars
    <3>4. GroupInProcess'
      BY <3>1, <2>m, <2>e DEF GroupInProcess, Listed
    <3> QED
      BY <3>1, <3>3, <3>4, <1>q, <1>g DEF engineVars, engineConfigVars
  <2> QED
    BY <1>5, <2>1, <2>2, <2>3 DEF Group
<1>6. ASSUME RunLint PROVE TrackInv'
  <2>1. /\ UNCHANGED <<clusterVars, engineConfigVars, listed, members, cache, nsId>>
        /\ pc' = "report" /\ metrics' \subseteq metrics
    BY <1>6, <1>t, MetricsType DEF RunLint, nsId, EngineTypeOK
  <2>2. SeriesTracked'
    BY <2>1, <1>i, TracksStill
  <2>3. \A r \in reports' : r.object \in members
    BY <1>6 DEF RunLint, RunReports, LintContext
  <2>4. GroupInProcess'
    BY <2>1, <2>3, <1>i DEF GroupInProcess, Listed, engineConfigVars
  <2> QED
    BY <2>1, <2>2, <2>4, <1>q, <1>g
<1>7. ASSUME NEW r \in reports, ProcessReport(r) PROVE TrackInv'
  <2>1. /\ UNCHANGED <<clusterVars, engineConfigVars, listed, members, cache, nsId, pc>>
        /\ pc = "report" /\ reports' = reports \ {r}
    BY <1>7 DEF ProcessReport, nsId
  <2>2. \A s \in metrics' : s \in metrics \/ (s.object = r.object /\ s.nsUid = nsId)
    BY <1>7 DEF ProcessReport, processResult, Series
  <2>3. SeriesTracked'
    BY <2>1, <2>2, <1>i DEF SeriesTracked, GroupInProcess
  <2>4. GroupInProcess'
    BY <2>1, <1>i DEF GroupInProcess, Listed, engineConfigVars
  <2> QED
    BY <2>1, <2>3, <2>4, <1>q, <1>g
<1>8. ASSUME NEW o \in members, StoreObject(o) PROVE TrackInv'
  <2>1. /\ UNCHANGED <<clusterVars, engineVars, listed, nsId, reports>>
        /\ reports = {} /\ members' = members \ {o}
        /\ o \in Object /\ nsId \in NsUid
    BY <1>8, <1>t DEF StoreObject, nsId, InNamespace, RoundTypeOK
  <2>2. \A k \in Key : cache'[k] = IF k = <<o, nsId>> THEN listed[o].rv ELSE cache[k]
    BY <1>8, <1>t DEF StoreObject, store, ValidationCaches
  <2>3. listed[o].rv # NoEntry
    BY <2>1, <1>i DEF GroupInProcess, ManifestsGiven
  <2>4. ASSUME NEW s \in metrics
        PROVE  has(cache', <<s.object, s.nsUid>>) \/ (s.object \in members \ {o} /\ s.nsUid = nsId)
    <3>1. <<s.object, s.nsUid>> \in Key
      BY <1>t DEF EngineTypeOK, AllSeries, Key
    <3>2. has(cache, <<s.object, s.nsUid>>) \/ (s.object \in members /\ s.nsUid = nsId)
      BY <1>i DEF SeriesTracked
    <3> QED
      BY <3>1, <3>2, <2>2, <2>3 DEF has
  <2>5. SeriesTracked'
    BY <2>1, <2>4 DEF SeriesTracked, engineVars
  <2>6. GroupInProcess'
    BY <2>1, <1>8, <1>i DEF StoreObject, GroupInProcess, Listed
  <2> QED
    BY <2>1, <2>5, <2>6, <1>q, <1>g DEF engineVars, engineConfigVars
<1>9. ASSUME EndNamespace PROVE TrackInv'
  <2>1. members = {} /\ SeriesTracked'
    BY <1>9, <1>i, TracksStill DEF EndNamespace, GroupInProcess, engineVars
  <2>2. ManifestsGiven'
    BY <1>9, <1>i, NothingIsListed DEF EndNamespace, ManifestsGiven, Live, Listed, clusterVars
  <2>3. GroupInProcess'
    BY <1>9, <1>i DEF EndNamespace, GroupInProcess
  <2> QED
    BY <1>9, <2>1, <2>2, <2>3, <1>q DEF EndNamespace, engineVars, engineConfigVars
<1>10. ASSUME handleResourceDeletions PROVE TrackInv'
  <2>1. \A s \in metrics : <<s.object, s.nsUid>> \in Key
    BY <1>t DEF EngineTypeOK, AllSeries, Key
  <2>2. /\ metrics' \subseteq metrics
        /\ \A s \in metrics' : cache'[<<s.object, s.nsUid>>] = cache[<<s.object, s.nsUid>>]
    BY <1>10, <2>1 DEF handleResourceDeletions
  <2> QED
    BY <1>10, <2>2, TrackLeave DEF handleResourceDeletions, has
(* The cluster gives its objects the manifests they may have. *)
<1>11. ASSUME ClusterStep PROVE TrackInv'
  <2>1. UNCHANGED <<pc, listed, members, reports, cache, nsId, engineVars>>
    BY <1>11 DEF ClusterStep, reconcilerVars, roundVars, nsId
  <2>2. ManifestsGiven'
    BY <1>11, <1>t, <1>i, ClusterGives
  <2>3. GroupInProcess' /\ SeriesTracked'
    BY <2>1, <1>i DEF GroupInProcess, SeriesTracked, Listed, engineVars
  <2> QED
    BY <2>2, <2>3, <1>q
<1>12. ASSUME Cancel \/ UNCHANGED vars PROVE TrackInv'
  <2>1. UNCHANGED <<clusterVars, engineVars, pc, listed, members, reports, cache, nsId>>
    BY <1>12 DEF Cancel, vars, reconcilerVars, roundVars, nsId
  <2>2. GroupInProcess' /\ SeriesTracked'
    BY <2>1, <1>i DEF GroupInProcess, SeriesTracked, Listed, engineVars
  <2> QED
    BY <2>1, <2>2, <1>g, <1>q
<1> QED
  BY <1>1, <1>2, <1>3, <1>4, <1>5, <1>6, <1>7, <1>8, <1>9, <1>10, <1>11, <1>12,
     Zenon DEF Next, Round

(* Where every object converts, every series on the gauges is one that     *)
(* handleResourceDeletions can still delete, whatever List calls fail and  *)
(* whatever changes during the rounds: clearMetrics, the removal of stale  *)
(* entries and processResult never leave an orphan.                        *)
THEOREM SeriesAreTracked == ASSUME AllConvert PROVE Spec => []SeriesTracked
<1>1. TrackInv => SeriesTracked
  BY DEF TrackInv
<1> QED
  BY TypeInit, TypeStep, TrackInit, TrackStep, <1>1, PTL DEF Spec

-----------------------------------------------------------------------------
(* A fixed configuration never lacks a check: no run of kube-linter fails  *)
(* for an enabled check that the registry does not hold, and every report  *)
(* is of a registered check (InitRegistry, processResult).                 *)
ChecksKnown ==
    /\ RunSucceeds
    /\ \A r \in reports : r.check \in registeredChecks

KnownInv ==
    /\ enabledChecks \subseteq registry
    /\ enabledChecks \subseteq registeredChecks
    /\ \A r \in reports : r.check \in enabledChecks

(* No step changes the configuration, and only run.Run adds reports. *)
LEMMA KnownStep == KnownInv /\ [Next]_vars => KnownInv'
<1> SUFFICES ASSUME KnownInv, [Next]_vars PROVE KnownInv'
  OBVIOUS
<1>q. ASSUME UNCHANGED engineConfigVars,
             reports' \subseteq reports \/ \A r \in reports' : r.check \in enabledChecks
      PROVE  KnownInv'
  BY <1>q DEF KnownInv, engineConfigVars
<1>1. ASSUME Discover \/ DiscoverFails \/ Tick \/ Stop \/ Cancel \/ ClusterStep \/ UNCHANGED vars
      PROVE  KnownInv'
  BY <1>1, <1>q
  DEF Discover, DiscoverFails, Tick, Stop, Cancel, ClusterStep, vars, engineVars,
      engineConfigVars, reconcilerVars, roundVars
<1>2. ASSUME LeaveRound, UNCHANGED engineConfigVars PROVE KnownInv'
  BY <1>2, <1>q DEF LeaveRound, ClearRound
<1>3. ASSUME ListFails \/ handleResourceDeletions PROVE KnownInv'
  BY <1>2, <1>3 DEF ListFails, handleResourceDeletions, engineVars, engineConfigVars
<1>4. ASSUME NEW l \in LabelSet, Group(l) PROVE KnownInv'
  BY <1>2, <1>4, <1>q
  DEF Group, SkipValidatedGroup, ConversionFails, BeginGroup, SeeGroup, engineVars, engineConfigVars
<1>5. ASSUME ListNamespaces \/ ListKind \/ GroupObjects \/ EndNamespace PROVE KnownInv'
  BY <1>5, <1>q
  DEF ListNamespaces, ListKind, GroupObjects, EndNamespace, engineVars, engineConfigVars
<1>6. ASSUME NEW n \in Namespace, BeginNamespace(n) PROVE KnownInv'
  BY <1>6, <1>q DEF BeginNamespace, engineVars, engineConfigVars
<1>7. ASSUME RunLint PROVE KnownInv'
  BY <1>7, <1>q DEF RunLint, RunReports
<1>8. ASSUME NEW r \in reports, ProcessReport(r) PROVE KnownInv'
  BY <1>8, <1>q DEF ProcessReport
<1>9. ASSUME NEW o \in members, StoreObject(o) PROVE KnownInv'
  BY <1>9, <1>q DEF StoreObject, engineVars, engineConfigVars
<1> QED
  BY <1>1, <1>3, <1>4, <1>5, <1>6, <1>7, <1>8, <1>9, Zenon DEF Next, Round

(* Under a fixed configuration RunLintFails and ProcessReportFails cannot   *)
(* happen, which is why they are steps of module Operator only.            *)
THEOREM NoCheckIsMissing == Spec => []ChecksKnown
<1>1. Init => KnownInv
  BY ChecksAssumption
  DEF Init, EngineInit, ReconcilerInit, KnownInv, getValidChecks, RegistryFor
<1>2. KnownInv => ChecksKnown
  BY DEF KnownInv, ChecksKnown, RunSucceeds
<1> QED
  BY <1>1, <1>2, KnownStep, PTL DEF Spec
===============================================================================
