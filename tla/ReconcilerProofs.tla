--------------------------- MODULE ReconcilerProofs ---------------------------
(***************************************************************************)
(* Theorems about Reconciler, for every value of its constants.            *)
(***************************************************************************)
EXTENDS Reconciler, TLAPS

(* The type invariant is inductive together with InNamespace: a series and *)
(* a cache key are made from nsId, which is a UID only inside a namespace. *)
TypeInv == TypeOK /\ InNamespace

USE DEF Version, NsUid, NoUid, NoEntry

-----------------------------------------------------------------------------
(* The state NewGenericReconciler and NewValidationEngine leave is well-typed. *)
LEMMA TypeInit == Init => TypeInv
<1> SUFFICES ASSUME Init PROVE TypeInv
  OBVIOUS
<1>1. ClusterTypeOK
  BY ClusterAssumption DEF Init, ReconcilerInit, ClusterInit, ClusterTypeOK
<1>2. EngineTypeOK
  BY ChecksAssumption DEF Init, ReconcilerInit, EngineInit, EngineTypeOK, RegistryFor, getValidChecks, Configs
<1>3. cache \in ValidationCaches /\ current \subseteq Key
  BY DEF Init, ReconcilerInit, newValidationCache, ValidationCaches
<1>4. RoundTypeOK
  BY ClusterAssumption DEF Init, ReconcilerInit, RoundTypeOK, NothingListed, Unlisted, NothingWatched
<1>5. discovered \in BOOLEAN /\ cancelled \in BOOLEAN
  BY Zenon DEF Init, ReconcilerInit
<1>6. pc \in PCs /\ faults \in 0..MaxFaults /\ InNamespace
  BY ReconcilerAssumption DEF Init, ReconcilerInit, PCs, InNamespace
<1> QED
  BY <1>1, <1>2, <1>3, <1>4, <1>5, <1>6, Zenon DEF TypeInv, TypeOK

(* The cluster keeps its types. *)
LEMMA ClusterTypeStep == ClusterTypeOK /\ ClusterNext => ClusterTypeOK'
<1> SUFFICES ASSUME ClusterTypeOK, ClusterNext PROVE ClusterTypeOK'
  OBVIOUS
<1> USE ClusterAssumption DEF ClusterTypeOK
<1>1. ASSUME NEW n \in Namespace, CreateNamespace(n) PROVE ClusterTypeOK'
  BY <1>1 DEF CreateNamespace
<1>2. ASSUME NEW n \in Namespace, DeleteNamespace(n) PROVE ClusterTypeOK'
  BY <1>2 DEF DeleteNamespace
<1>3. ASSUME NEW o \in Object, NEW m \in ManifestsOf[o], CreateObject(o, m) PROVE ClusterTypeOK'
  BY <1>3 DEF CreateObject
<1>4. ASSUME NEW o \in Object, NEW m \in ManifestsOf[o], UpdateObject(o, m) PROVE ClusterTypeOK'
  BY <1>4 DEF UpdateObject
<1>5. ASSUME NEW o \in Object, DeleteObject(o) PROVE ClusterTypeOK'
  BY <1>5 DEF DeleteObject
<1> QED
  BY <1>1, <1>2, <1>3, <1>4, <1>5 DEF ClusterNext

(* Leaving a round restores the initial values of its locals. *)
LEMMA RoundLeft == LeaveRound => RoundTypeOK' /\ pc' \in PCs /\ InNamespace'
  BY ClusterAssumption
  DEF LeaveRound, ClearRound, RoundTypeOK, InNamespace, PCs, NothingWatched, NothingListed,
      Unlisted, NoNamespace

(* The engine's operations on the gauges keep their type. *)
LEMMA MetricsType ==
  ASSUME metrics \subseteq AllSeries
  PROVE  /\ \A objs, man : DeleteNoReplicas(metrics, objs, man) \subseteq metrics
         /\ \A ms, rs, objs, u : clearMetrics(ms, rs, objs, u) \subseteq ms
         /\ \A r \in AllReports, u \in NsUid : processResult(metrics, r, u) \subseteq AllSeries
  BY DEF DeleteNoReplicas, clearMetrics, processResult, AllSeries, AllReports, Series

(* Every step of a round, of the cluster and of the shutdown keeps the types. *)
LEMMA TypeStep == TypeInv /\ [Next]_vars => TypeInv'
<1> SUFFICES ASSUME TypeInv, [Next]_vars PROVE TypeInv'
  OBVIOUS
<1>t. /\ ClusterTypeOK /\ EngineTypeOK /\ RoundTypeOK /\ InNamespace
      /\ discovered \in BOOLEAN /\ pc \in PCs /\ cache \in ValidationCaches
      /\ current \subseteq Key /\ cancelled \in BOOLEAN /\ faults \in 0..MaxFaults
  BY DEF TypeInv, TypeOK
(* The conjuncts an action leaves alone. *)
<1>c. UNCHANGED clusterVars => ClusterTypeOK'
  BY <1>t DEF clusterVars, ClusterTypeOK
<1>e. UNCHANGED engineVars => EngineTypeOK'
  BY <1>t DEF engineVars, EngineTypeOK
<1>m. UNCHANGED engineConfigVars /\ metrics' \subseteq AllSeries => EngineTypeOK'
  BY <1>t DEF engineConfigVars, EngineTypeOK
<1>r. UNCHANGED roundVars => RoundTypeOK'
  BY <1>t DEF roundVars, RoundTypeOK
<1>b. (UNCHANGED discovered \/ discovered' = TRUE) => discovered' \in BOOLEAN
  BY <1>t, Zenon
<1>x. UNCHANGED cancelled => cancelled' \in BOOLEAN
  BY <1>t, Zenon
<1> DEFINE Rest == /\ cache' \in ValidationCaches /\ current' \subseteq Key
                   /\ faults' \in 0..MaxFaults /\ pc' \in PCs /\ InNamespace'
<1>q. ASSUME ClusterTypeOK', EngineTypeOK', RoundTypeOK', discovered' \in BOOLEAN,
             cancelled' \in BOOLEAN, Rest
      PROVE  TypeInv'
  BY <1>q, Zenon DEF TypeInv, TypeOK
<1>1. ASSUME Discover \/ DiscoverFails \/ Tick \/ Stop PROVE TypeInv'
  <2>1. Rest
    BY <1>1, <1>t, ReconcilerAssumption
    DEF Discover, DiscoverFails, Tick, Stop, PCs, InNamespace
  <2> QED
    BY <2>1, <1>1, <1>c, <1>e, <1>r, <1>b, <1>x, <1>q, Zenon
    DEF Discover, DiscoverFails, Tick, Stop
<1>2. ASSUME ListNamespaces PROVE TypeInv'
  <2>1. Rest
    BY <1>2, <1>t DEF ListNamespaces, PCs, InNamespace
  <2>2. RoundTypeOK'
    BY <1>2, <1>t DEF ListNamespaces, RoundTypeOK, ClusterTypeOK
  <2> QED
    BY <2>1, <2>2, <1>2, <1>c, <1>e, <1>b, <1>x, <1>q, Zenon DEF ListNamespaces
<1>3. ASSUME ListFails PROVE TypeInv'
  <2>1. Rest /\ RoundTypeOK'
    BY <1>3, <1>t, RoundLeft, ReconcilerAssumption DEF ListFails, CallFails
  <2> QED
    BY <2>1, <1>3, <1>c, <1>e, <1>b, <1>x, <1>q, Zenon DEF ListFails
<1>4. ASSUME NEW n \in Namespace, BeginNamespace(n) PROVE TypeInv'
  <2>1. Rest
    BY <1>4, <1>t DEF BeginNamespace, PCs, InNamespace, nsId
  <2>2. RoundTypeOK'
    BY <1>4, <1>t, ClusterAssumption DEF BeginNamespace, RoundTypeOK
  <2> QED
    BY <2>1, <2>2, <1>4, <1>c, <1>e, <1>b, <1>x, <1>q, Zenon DEF BeginNamespace
<1>5. ASSUME ListKind PROVE TypeInv'
  <2>1. Rest
    BY <1>5, <1>t DEF ListKind, PCs, InNamespace, nsId
  <2>2. RoundTypeOK'
    BY <1>5, <1>t, ClusterAssumption DEF ListKind, RoundTypeOK, ClusterTypeOK
  <2> QED
    BY <2>1, <2>2, <1>5, <1>c, <1>e, <1>b, <1>x, <1>q, Zenon DEF ListKind
<1>6. ASSUME GroupObjects PROVE TypeInv'
  <2>1. Rest
    BY <1>6, <1>t DEF GroupObjects, PCs, InNamespace, nsId
  <2>2. RoundTypeOK'
    BY <1>6, <1>t DEF GroupObjects, RoundTypeOK
  <2> QED
    BY <2>1, <2>2, <1>6, <1>c, <1>e, <1>b, <1>x, <1>q, Zenon DEF GroupObjects
<1>7. ASSUME NEW l \in LabelSet, Group(l) PROVE TypeInv'
  <2>s. SeeGroup(l)
    BY <1>7, Zenon DEF Group, SkipValidatedGroup, ConversionFails, BeginGroup
  <2>n. nsId \in NsUid
    BY <1>t, <2>s DEF SeeGroup, InNamespace, RoundTypeOK, nsId
  <2>r. relatedObjects(l) \subseteq Object
    BY DEF relatedObjects, Related
  <2>1. Keys(relatedObjects(l)) \subseteq Key
    BY <2>n, <2>r DEF Keys, Key
  <2>2. cache' \in ValidationCaches /\ current' \subseteq Key /\ UNCHANGED faults
    BY <1>t, <2>s, <2>1 DEF SeeGroup, RemoveStale, ValidationCaches
  <2>3. RoundTypeOK' /\ pc' \in PCs /\ InNamespace'
    <3>1. CASE SkipValidatedGroup(l)
      BY <3>1, <1>t DEF SkipValidatedGroup, RoundTypeOK, InNamespace, nsId
    <3>2. CASE ConversionFails(l)
      BY <3>2, RoundLeft DEF ConversionFails
    <3>3. CASE BeginGroup(l)
      BY <3>3, <1>t, <2>r, <2>s DEF BeginGroup, SeeGroup, RoundTypeOK, InNamespace, PCs, nsId
    <3> QED
      BY <1>7, <3>1, <3>2, <3>3 DEF Group
  <2> QED
    BY <2>s, <2>2, <2>3, <1>t, <1>7, <1>c, <1>e, <1>b, <1>x, <1>q DEF SeeGroup
<1>8. ASSUME RunLint PROVE TypeInv'
  <2>1. Rest
    BY <1>8, <1>t DEF RunLint, PCs, InNamespace, nsId
  <2>2. reports' \subseteq AllReports
    BY <1>8, <1>t DEF RunLint, RunReports, LintContext, AllReports, EngineTypeOK, RoundTypeOK
  <2>3. RoundTypeOK'
    BY <1>8, <1>t, <2>2 DEF RunLint, RoundTypeOK
  <2>4. EngineTypeOK'
    BY <1>8, <1>t, <1>m, MetricsType DEF RunLint, EngineTypeOK
  <2> QED
    BY <2>1, <2>3, <2>4, <1>8, <1>c, <1>b, <1>x, <1>q, Zenon DEF RunLint
<1>9. ASSUME NEW r \in reports, ProcessReport(r) PROVE TypeInv'
  <2>n. nsId \in NsUid
    BY <1>t, <1>9 DEF ProcessReport, InNamespace, RoundTypeOK, nsId
  <2>1. Rest
    BY <1>9, <1>t DEF ProcessReport, PCs, InNamespace, nsId
  <2>2. RoundTypeOK'
    BY <1>9, <1>t DEF ProcessReport, RoundTypeOK
  <2>3. EngineTypeOK'
    BY <1>9, <1>t, <1>m, <2>n, MetricsType DEF ProcessReport, EngineTypeOK, RoundTypeOK
  <2> QED
    BY <2>1, <2>2, <2>3, <1>9, <1>c, <1>b, <1>x, <1>q, Zenon DEF ProcessReport
<1>10. ASSUME NEW o \in members, StoreObject(o) PROVE TypeInv'
  <2>n. nsId \in NsUid
    BY <1>t, <1>10 DEF StoreObject, InNamespace, RoundTypeOK, nsId
  <2>1. cache' \in ValidationCaches
    BY <1>10, <1>t, <2>n DEF StoreObject, store, ValidationCaches, Key, RoundTypeOK
  <2>2. Rest
    BY <1>10, <1>t, <2>1 DEF StoreObject, PCs, InNamespace, nsId
  <2>3. RoundTypeOK'
    BY <1>10, <1>t DEF StoreObject, RoundTypeOK
  <2> QED
    BY <2>2, <2>3, <1>10, <1>c, <1>e, <1>b, <1>x, <1>q, Zenon DEF StoreObject
<1>11. ASSUME EndNamespace PROVE TypeInv'
  <2>1. Rest
    BY <1>11, <1>t DEF EndNamespace, PCs, InNamespace
  <2>2. RoundTypeOK'
    <3>1. listed' \in [Object -> [rv : Version \cup {0}, manifest : Manifest \cup {Absent}]]
      BY <1>11 DEF EndNamespace, NothingListed, Unlisted
    <3>2. watched' \in [Namespace -> NsUid \cup {NoUid}]
      BY <1>11, <1>t DEF EndNamespace, RoundTypeOK
    <3> QED
      BY <1>11, <1>t, <3>1, <3>2, ClusterAssumption DEF EndNamespace, RoundTypeOK, NoNamespace
  <2> QED
    BY <2>1, <2>2, <1>11, <1>c, <1>e, <1>b, <1>x, <1>q, Zenon DEF EndNamespace
<1>12. ASSUME handleResourceDeletions PROVE TypeInv'
  <2>1. Rest /\ RoundTypeOK'
    BY <1>12, <1>t, RoundLeft DEF handleResourceDeletions, ValidationCaches
  <2>2. EngineTypeOK'
    BY <1>12, <1>t, <1>m DEF handleResourceDeletions, EngineTypeOK
  <2> QED
    BY <2>1, <2>2, <1>12, <1>c, <1>b, <1>x, <1>q, Zenon DEF handleResourceDeletions
<1>13. ASSUME ClusterStep PROVE TypeInv'
  <2>1. Rest
    BY <1>13, <1>t DEF ClusterStep, reconcilerVars, roundVars, InNamespace, nsId
  <2> QED
    BY <2>1, <1>13, <1>t, <1>e, <1>r, <1>b, <1>x, <1>q, ClusterTypeStep DEF ClusterStep, reconcilerVars
<1>14. ASSUME Cancel PROVE TypeInv'
  <2>1. Rest /\ RoundTypeOK'
    BY <1>14, <1>t, <1>r DEF Cancel, reconcilerVars, roundVars, InNamespace, nsId
  <2>2. discovered' \in BOOLEAN /\ cancelled' \in BOOLEAN
    BY <1>14, <1>b, Zenon DEF Cancel, reconcilerVars
  <2> QED
    BY <2>1, <2>2, <1>14, <1>c, <1>e, <1>q, Zenon DEF Cancel
<1>15. ASSUME UNCHANGED vars PROVE TypeInv'
  <2>1. Rest
    BY <1>15, <1>t, Zenon DEF vars, reconcilerVars, roundVars, InNamespace, nsId
  <2> QED
    BY <2>1, <1>15, <1>c, <1>e, <1>r, <1>b, <1>x, <1>q DEF vars, reconcilerVars
<1> QED
  BY <1>1, <1>2, <1>3, <1>4, <1>5, <1>6, <1>7, <1>8, <1>9, <1>10, <1>11,
     <1>12, <1>13, <1>14, <1>15, Zenon DEF Next, Round

(* Every reachable state is well-typed: the types of the maps and sets of  *)
(* the reconciler and the engine survive every step of a round and of the  *)
(* cluster.                                                                *)
THEOREM TypeCorrect == Spec => []TypeOK
<1>1. TypeInv => TypeOK
  BY DEF TypeInv
<1> QED
  BY TypeInit, TypeStep, <1>1, PTL DEF Spec

-----------------------------------------------------------------------------
(***************************************************************************)
(* No failure is hidden by the cache.                                      *)
(***************************************************************************)
CacheInv == ListedOnce /\ CachedOnce /\ GroupEntries /\ ReportsPending /\ NoFailureHidden

(* The empty listing lists no object. *)
LEMMA NothingIsListed == \A o \in Object : NothingListed[o].manifest = Absent
  BY DEF NothingListed, Unlisted

(* The empty cache hides nothing. *)
LEMMA CacheInit == Init => CacheInv
<1> SUFFICES ASSUME Init PROVE CacheInv
  OBVIOUS
<1>1. ListedOnce
  <2>1. \A o \in Object : ~Listed(o)
    BY NothingIsListed DEF Init, ReconcilerInit, Listed
  <2> QED
    BY <2>1 DEF ListedOnce
<1>2. \A o \in Object, u \in NsUid : cache[<<o, u>>] = NoEntry
  BY DEF Init, ReconcilerInit, newValidationCache, Key
<1>3. CachedOnce
  <2> SUFFICES ASSUME NEW o \in Object, NEW u \in NsUid PROVE cache[<<o, u>>] <= rv[o]
    BY DEF CachedOnce
  <2>1. cache[<<o, u>>] = 0 /\ rv[o] = 0
    BY <1>2 DEF Init, ReconcilerInit, ClusterInit
  <2> QED
    BY <2>1
<1>4. NoFailureHidden
  BY <1>2 DEF NoFailureHidden, Cached, has
<1> QED
  BY <1>1, <1>3, <1>4 DEF Init, ReconcilerInit, CacheInv, GroupEntries, ReportsPending

(* Leaving a round forgets the listing and the group. *)
LEMMA CacheLeave ==
  ASSUME LeaveRound PROVE ListedOnce' /\ GroupEntries' /\ ReportsPending'
<1>1. \A o \in Object : ~Listed(o)'
  BY NothingIsListed DEF LeaveRound, ClearRound, Listed
<1> QED
  BY <1>1 DEF LeaveRound, ClearRound, ListedOnce, GroupEntries, ReportsPending

(* Dropping entries, or adding series, hides nothing. *)
LEMMA HidesNothing ==
  ASSUME TypeInv, CachedOnce, NoFailureHidden, UNCHANGED clusterVars, UNCHANGED engineConfigVars,
         \A k \in Key : cache'[k] \in {cache[k], NoEntry},
         \A s \in metrics : s \in metrics' \/ cache'[<<s.object, s.nsUid>>] = NoEntry
  PROVE  CachedOnce' /\ NoFailureHidden'
<1>t. ClusterTypeOK /\ cache \in ValidationCaches
  BY DEF TypeInv, TypeOK
<1>1. CachedOnce'
  <2> SUFFICES ASSUME NEW o \in Object, NEW u \in NsUid PROVE cache'[<<o, u>>] <= rv'[o]
    BY DEF CachedOnce
  <2>1. <<o, u>> \in Key /\ cache[<<o, u>>] <= rv[o] /\ rv[o] \in Nat
    BY <1>t, ClusterAssumption DEF CachedOnce, Key, ClusterTypeOK
  <2>2. cache'[<<o, u>>] \in {cache[<<o, u>>], 0} /\ rv'[o] = rv[o]
    BY <2>1 DEF clusterVars
  <2> QED
    BY <2>1, <2>2
<1>2. ASSUME NEW o \in Object, NEW u \in NsUid, Cached(o, u)', NEW c \in MustReport(manifest[o])'
      PROVE  Series(c, o, u) \in metrics'
  <2>1. <<o, u>> \in Key
    BY DEF Key
  <2>2. Cached(o, u)
    BY <1>2, <2>1 DEF Cached, has, Live, clusterVars
  <2>3. c \in MustReport(manifest[o])
    BY <1>2 DEF MustReport, Reportable, clusterVars, engineConfigVars
  <2>4. Series(c, o, u) \in metrics
    BY <2>2, <2>3 DEF NoFailureHidden
  <2>5. cache'[<<o, u>>] # NoEntry
    BY <1>2 DEF Cached, has
  <2> QED
    BY <2>4, <2>5 DEF Series
<1> QED
  BY <1>1, <1>2 DEF NoFailureHidden

(* Every step keeps the conjuncts of the inductive invariant about the cache. *)
LEMMA CacheStep == TypeInv /\ CacheInv /\ [Next]_vars => CacheInv'
<1> SUFFICES ASSUME TypeInv, CacheInv, [Next]_vars PROVE CacheInv'
  OBVIOUS
<1>t. /\ ClusterTypeOK /\ EngineTypeOK /\ RoundTypeOK /\ InNamespace
      /\ cache \in ValidationCaches /\ TypeInv
  BY DEF TypeInv, TypeOK
<1>i. ListedOnce /\ CachedOnce /\ GroupEntries /\ ReportsPending /\ NoFailureHidden
  BY DEF CacheInv
<1>q. ASSUME ListedOnce', CachedOnce', GroupEntries', ReportsPending', NoFailureHidden'
      PROVE  CacheInv'
  BY <1>q DEF CacheInv
<1>n. nsId = NoUid \/ nsId \in NsUid \/ ns = NoNamespace
  BY <1>t DEF RoundTypeOK, nsId
(* Steps that leave the cluster, the cache and the gauges alone. *)
<1>u. ASSUME UNCHANGED <<clusterVars, engineVars, cache>>
      PROVE  CachedOnce' /\ NoFailureHidden'
  BY <1>u, <1>t, <1>i, HidesNothing DEF engineVars, engineConfigVars
(* Steps that leave the listing alone as well. *)
<1>l. ASSUME UNCHANGED <<clusterVars, listed>> PROVE ListedOnce'
  BY <1>l, <1>i DEF ListedOnce, Listed, Live, clusterVars
<1>1. ASSUME Discover \/ DiscoverFails \/ Tick \/ Stop \/ ListNamespaces \/ GroupObjects
      PROVE  CacheInv'
  <2>1. UNCHANGED <<clusterVars, engineVars, cache, listed>>
    BY <1>1 DEF Discover, DiscoverFails, Tick, Stop, ListNamespaces, GroupObjects, roundVars
  <2>2. pc' \notin {"lint", "report"}
    BY <1>1 DEF Discover, DiscoverFails, Tick, Stop, ListNamespaces, GroupObjects
  <2> QED
    BY <2>1, <2>2, <1>u, <1>l, <1>q DEF GroupEntries, ReportsPending
<1>2. ASSUME ListFails PROVE CacheInv'
  BY <1>2, <1>u, <1>q, CacheLeave DEF ListFails
<1>3. ASSUME NEW n \in Namespace, BeginNamespace(n) PROVE CacheInv'
  BY <1>3, <1>u, <1>l, <1>q DEF BeginNamespace, GroupEntries, ReportsPending
<1>4. ASSUME ListKind PROVE CacheInv'
  <2>1. ASSUME NEW o \in Object, Listed(o)'
        PROVE  /\ listed'[o].rv <= rv'[o]
               /\ Live(o)' /\ listed'[o].rv = rv'[o] => listed'[o].manifest = manifest'[o]
    <3>1. CASE KindOf[o] = kind /\ NamespaceOf[o] = ns /\ Live(o)
      BY <3>1, <1>4, <1>t DEF ListKind, clusterVars, ClusterTypeOK
    <3>2. CASE ~(KindOf[o] = kind /\ NamespaceOf[o] = ns /\ Live(o))
      BY <3>2, <2>1, <1>4, <1>i DEF ListKind, clusterVars, ListedOnce, Listed, Live
    <3> QED
      BY <3>1, <3>2
  <2>2. ListedOnce'
    BY <2>1 DEF ListedOnce
  <2> QED
    BY <2>2, <1>4, <1>u, <1>q DEF ListKind, GroupEntries, ReportsPending
<1>5. ASSUME NEW l \in LabelSet, Group(l) PROVE CacheInv'
  <2>s. SeeGroup(l)
    BY <1>5, Zenon DEF Group, SkipValidatedGroup, ConversionFails, BeginGroup
  <2>1. \A k \in Key : cache'[k] \in {cache[k], NoEntry}
    BY <2>s DEF SeeGroup, RemoveStale
  <2>2. CachedOnce' /\ NoFailureHidden'
    BY <2>1, <2>s, <1>t, <1>i, HidesNothing DEF SeeGroup, engineVars, engineConfigVars
  <2>3. CASE SkipValidatedGroup(l)
    BY <2>3, <2>2, <2>s, <1>l, <1>q
    DEF SkipValidatedGroup, SeeGroup, GroupEntries, ReportsPending
  <2>4. CASE ConversionFails(l)
    BY <2>4, <2>2, <1>q, CacheLeave DEF ConversionFails
  <2>5. CASE BeginGroup(l)
    <3>1. ListedOnce' /\ UNCHANGED <<listed, nsId>> /\ pc' = "lint"
      BY <2>5, <2>s, <1>l DEF BeginGroup, SeeGroup, nsId
    <3>2. ASSUME NEW o \in relatedObjects(l)
          PROVE  Listed(o) /\ cache'[<<o, nsId>>] \in {NoEntry, listed[o].rv}
      <4>1. o \in Object /\ Listed(o)
        BY DEF relatedObjects, Related
      <4>2. <<o, nsId>> \in Key /\ <<o, nsId>> \in Keys(relatedObjects(l))
        BY <4>1, <1>t, <2>s DEF Key, Keys, SeeGroup, InNamespace, RoundTypeOK, nsId
      <4>3. ListedVersion[<<o, nsId>>] = listed[o].rv
        BY <4>2 DEF ListedVersion
      <4> QED
        BY <4>1, <4>2, <4>3, <2>s DEF SeeGroup, RemoveStale, objectAlreadyValidated
    <3>3. GroupEntries'
      BY <2>5, <3>1, <3>2 DEF BeginGroup, GroupEntries, Listed
    <3> QED
      BY <2>2, <3>1, <3>3, <1>q DEF ReportsPending
  <2> QED
    BY <1>5, <2>3, <2>4, <2>5 DEF Group
<1>6. ASSUME RunLint PROVE CacheInv'
  <2>1. /\ UNCHANGED <<clusterVars, engineConfigVars, listed, members, cache, nsId>>
        /\ pc = "lint" /\ pc' = "report"
    BY <1>6 DEF RunLint, nsId
  <2>2. ListedOnce' /\ GroupEntries'
    BY <2>1, <1>l, <1>i DEF GroupEntries, Listed
  <2>3. CachedOnce'
    BY <2>1, <1>i DEF CachedOnce, clusterVars
  (* Whatever a member fails for sure is among the reports. *)
  <2>4. ASSUME NEW o \in members, NEW c \in MustReport(listed[o].manifest)
        PROVE  Report(c, o) \in reports'
    <3>1. /\ Lintable(listed[o].manifest) /\ c \in listed[o].manifest.fails
          /\ c \in enabledChecks /\ c \in Metered
      BY <2>4 DEF MustReport, Reportable
    <3>2. o \in Object /\ listedManifests[o] = listed[o].manifest
      BY <1>t DEF RoundTypeOK, listedManifests
    <3> QED
      BY <3>1, <3>2, <1>6 DEF RunLint, RunReports, LintContext, Fails, Report
  <2>5. ReportsPending'
    BY <2>1, <2>4 DEF ReportsPending, MustReport, Reportable, engineConfigVars
  <2>6. ASSUME NEW o \in Object, NEW u \in NsUid, Cached(o, u)',
               NEW c \in MustReport(manifest[o])'
        PROVE  Series(c, o, u) \in metrics'
    <3>1. Cached(o, u) /\ c \in MustReport(manifest[o])
      BY <2>6, <2>1 DEF Cached, has, Live, clusterVars, MustReport, Reportable, engineConfigVars
    <3>2. Series(c, o, u) \in metrics
      BY <3>1, <1>i DEF NoFailureHidden
    <3>3. Series(c, o, u) \in DeleteNoReplicas(metrics, members, listedManifests)
      BY <3>2 DEF DeleteNoReplicas, Labelled, Series
    <3>4. ASSUME o \in members, u = nsId PROVE Report(c, o) \in reports'
      <4>1. listed[o].rv = rv[o] /\ Listed(o)
        BY <3>1, <3>4, <2>1, <1>i DEF Cached, has, GroupEntries
      <4>2. listed[o].manifest = manifest[o]
        BY <4>1, <3>1, <1>i DEF ListedOnce, Cached
      <4> QED
        BY <4>2, <3>1, <3>4, <2>4
    <3> QED
      BY <3>3, <3>4, <1>6 DEF RunLint, clearMetrics, Series, Report
  <2>7. NoFailureHidden'
    BY <2>6 DEF NoFailureHidden
  <2> QED
    BY <2>2, <2>3, <2>5, <2>7, <1>q
<1>7. ASSUME NEW r \in reports, ProcessReport(r) PROVE CacheInv'
  <2>1. /\ UNCHANGED <<clusterVars, engineConfigVars, listed, members, cache, nsId, pc>>
        /\ pc = "report" /\ metrics \subseteq metrics'
    BY <1>7 DEF ProcessReport, processResult, nsId
  <2>2. CachedOnce' /\ NoFailureHidden'
    BY <2>1, <1>t, <1>i, HidesNothing
  <2>3. ListedOnce' /\ GroupEntries'
    BY <2>1, <1>l, <1>i DEF GroupEntries, Listed
  <2>4. ASSUME NEW o \in members, NEW c \in MustReport(listed[o].manifest)
        PROVE  Report(c, o) \in reports' \/ Series(c, o, nsId) \in metrics'
    <3>1. Report(c, o) \in reports \/ Series(c, o, nsId) \in metrics
      BY <2>1, <1>i DEF ReportsPending
    <3>2. CASE r = Report(c, o)
      <4>1. r.check = c /\ r.object = o /\ c \in Metered
        BY <3>2, <2>4 DEF Report, MustReport, Reportable
      <4> QED
        BY <4>1, <1>7 DEF ProcessReport, processResult
    <3>3. CASE r # Report(c, o)
      BY <3>1, <3>3, <2>1, <1>7 DEF ProcessReport
    <3> QED
      BY <3>2, <3>3
  <2>5. ReportsPending'
    BY <2>1, <2>4 DEF ReportsPending, MustReport, Reportable, engineConfigVars
  <2> QED
    BY <2>2, <2>3, <2>5, <1>q
<1>8. ASSUME NEW o \in members, StoreObject(o) PROVE CacheInv'
  <2>1. /\ UNCHANGED <<clusterVars, engineVars, listed, nsId>>
        /\ pc = "report" /\ reports = {} /\ members' = members \ {o}
        /\ o \in Object /\ nsId \in NsUid /\ <<o, nsId>> \in Key
    BY <1>8, <1>t DEF StoreObject, nsId, InNamespace, RoundTypeOK, Key
  <2>2. \A p \in Object, u \in NsUid :
          cache'[<<p, u>>] = IF p = o /\ u = nsId THEN listed[o].rv ELSE cache[<<p, u>>]
    BY <2>1, <1>8, <1>t DEF StoreObject, store, ValidationCaches, Key
  <2>3. Listed(o) /\ listed[o].rv <= rv[o]
    BY <2>1, <1>i DEF GroupEntries, ListedOnce
  <2>4. CachedOnce'
    <3> SUFFICES ASSUME NEW p \in Object, NEW u \in NsUid PROVE cache'[<<p, u>>] <= rv'[p]
      BY DEF CachedOnce
    <3>1. cache[<<p, u>>] <= rv[p] /\ rv' = rv
      BY <1>i, <2>1 DEF CachedOnce, clusterVars
    <3> QED
      BY <3>1, <2>2, <2>3
  <2>5. ASSUME NEW p \in Object, NEW u \in NsUid, Cached(p, u)',
               NEW c \in MustReport(manifest[p])'
        PROVE  Series(c, p, u) \in metrics'
    <3>1. Live(p) /\ c \in MustReport(manifest[p])
      BY <2>5, <2>1 DEF Cached, Live, clusterVars, engineVars, MustReport, Reportable
    <3>2. CASE p = o /\ u = nsId
      <4>1. listed[o].rv = rv[o]
        BY <3>2, <2>5, <2>1, <2>2 DEF Cached, clusterVars
      <4>2. listed[o].manifest = manifest[o]
        BY <4>1, <3>1, <3>2, <2>3, <1>i DEF ListedOnce
      <4> QED
        BY <4>2, <3>1, <3>2, <2>1, <1>i DEF ReportsPending, engineVars
    <3>3. CASE ~(p = o /\ u = nsId)
      <4>1. Cached(p, u)
        BY <3>3, <2>5, <2>1, <2>2 DEF Cached, has, Live, clusterVars
      <4> QED
        BY <4>1, <3>1, <2>1, <1>i DEF NoFailureHidden, engineVars
    <3> QED
      BY <3>2, <3>3
  <2>6. NoFailureHidden'
    BY <2>5 DEF NoFailureHidden
  <2>7. GroupEntries'
    <3> SUFFICES ASSUME NEW p \in members \ {o}
                 PROVE  Listed(p) /\ cache'[<<p, nsId>>] \in {NoEntry, listed[p].rv}
      BY <2>1 DEF GroupEntries, Listed
    <3> QED
      BY <2>1, <2>2, <1>t, <1>i DEF GroupEntries, RoundTypeOK
  <2>8. ReportsPending'
    BY <2>1, <1>8, <1>i
    DEF StoreObject, ReportsPending, MustReport, Reportable, engineVars
  <2> QED
    BY <2>1, <2>4, <2>6, <2>7, <2>8, <1>l, <1>q
<1>9. ASSUME EndNamespace PROVE CacheInv'
  <2>1. ListedOnce'
    <3>1. \A o \in Object : ~Listed(o)'
      BY <1>9, NothingIsListed DEF EndNamespace, Listed
    <3> QED
      BY <3>1 DEF ListedOnce
  <2> QED
    BY <2>1, <1>9, <1>u, <1>q DEF EndNamespace, GroupEntries, ReportsPending
<1>10. ASSUME handleResourceDeletions PROVE CacheInv'
  <2>1. \A k \in Key : cache'[k] \in {cache[k], NoEntry}
    BY <1>10 DEF handleResourceDeletions
  <2>2. \A s \in metrics : s \in metrics' \/ cache'[<<s.object, s.nsUid>>] = NoEntry
    BY <1>10 DEF handleResourceDeletions, Forgotten
  <2>3. CachedOnce' /\ NoFailureHidden'
    BY <2>1, <2>2, <1>10, <1>t, <1>i, HidesNothing DEF handleResourceDeletions
  <2> QED
    BY <2>3, <1>10, <1>q, CacheLeave DEF handleResourceDeletions
(* A write to the cluster only makes entries outdated. *)
<1>11. ASSUME ClusterStep PROVE CacheInv'
  <2>1. UNCHANGED <<pc, listed, members, reports, cache, nsId, engineVars>>
    BY <1>11 DEF ClusterStep, reconcilerVars, roundVars, nsId
  <2>2. GroupEntries' /\ ReportsPending'
    BY <2>1, <1>i DEF GroupEntries, ReportsPending, Listed, MustReport, Reportable, engineVars
  <2>3. ASSUME NEW o \in Object
        PROVE  \/ rv'[o] = rv[o] /\ manifest'[o] \in {manifest[o], Absent}
               \/ rv'[o] > rv[o]
    <3>1. CASE UNCHANGED <<rv, manifest>>
      BY <3>1
    <3>2. ASSUME NEW p \in Object, NEW m \in ManifestsOf[p], CreateObject(p, m) \/ UpdateObject(p, m)
          PROVE  \/ rv'[o] = rv[o] /\ manifest'[o] = manifest[o]
                 \/ rv'[o] > rv[o]
      BY <3>2, <1>t, ClusterAssumption DEF CreateObject, UpdateObject, ClusterTypeOK
    <3>3. ASSUME NEW p \in Object, DeleteObject(p)
          PROVE  rv'[o] = rv[o] /\ manifest'[o] \in {manifest[o], Absent}
      BY <3>3, <1>t DEF DeleteObject, ClusterTypeOK
    <3> QED
      BY <3>1, <3>2, <3>3, <1>11 DEF ClusterStep, ClusterNext, CreateNamespace, DeleteNamespace
  <2>4. \A o \in Object : rv[o] \in Nat /\ rv'[o] \in Nat /\ listed[o].rv \in Nat
    BY <1>t, <1>11, ClusterAssumption, ClusterTypeStep DEF ClusterStep, ClusterTypeOK, RoundTypeOK
  <2>5. ListedOnce'
    <3> SUFFICES ASSUME NEW o \in Object, Listed(o)
                 PROVE  /\ listed[o].rv <= rv'[o]
                        /\ Live(o)' /\ listed[o].rv = rv'[o] => listed[o].manifest = manifest'[o]
      BY <2>1 DEF ListedOnce, Listed
    <3>1. /\ listed[o].rv <= rv[o]
          /\ Live(o) /\ listed[o].rv = rv[o] => listed[o].manifest = manifest[o]
      BY <1>i DEF ListedOnce
    <3> QED
      BY <3>1, <2>3, <2>4 DEF Live
  <2>6. \A o \in Object, u \in NsUid : cache[<<o, u>>] \in Nat /\ cache[<<o, u>>] <= rv[o]
    <3> SUFFICES ASSUME NEW o \in Object, NEW u \in NsUid
                 PROVE  cache[<<o, u>>] \in Nat /\ cache[<<o, u>>] <= rv[o]
      OBVIOUS
    <3>1. <<o, u>> \in Key
      BY DEF Key
    <3>2. cache[<<o, u>>] \in Version \cup {NoEntry}
      BY <3>1, <1>t DEF ValidationCaches
    <3> QED
      BY <3>2, <1>i, ClusterAssumption DEF CachedOnce
  <2>7. CachedOnce'
    <3> SUFFICES ASSUME NEW o \in Object, NEW u \in NsUid PROVE cache[<<o, u>>] <= rv'[o]
      BY <2>1 DEF CachedOnce
    <3> QED
      BY <2>3, <2>4, <2>6
  <2>8. NoFailureHidden'
    <3> SUFFICES ASSUME NEW o \in Object, NEW u \in NsUid, Cached(o, u)',
                        NEW c \in MustReport(manifest[o])'
                 PROVE  Series(c, o, u) \in metrics
      BY <2>1 DEF NoFailureHidden, engineVars
    <3>1. has(cache, <<o, u>>) /\ cache[<<o, u>>] = rv'[o] /\ manifest'[o] # Absent
      BY <2>1 DEF Cached, has, Live
    <3>2. rv'[o] = rv[o] /\ manifest'[o] = manifest[o]
      BY <3>1, <2>3, <2>4, <2>6
    <3>3. Cached(o, u) /\ c \in MustReport(manifest[o])
      BY <3>1, <3>2, <2>1 DEF Cached, Live, MustReport, Reportable, engineVars
    <3> QED
      BY <3>3, <1>i DEF NoFailureHidden
  <2> QED
    BY <2>2, <2>5, <2>7, <2>8, <1>q
<1>12. ASSUME Cancel \/ UNCHANGED vars PROVE CacheInv'
  <2>1. UNCHANGED <<clusterVars, engineVars, pc, listed, members, reports, cache, nsId>>
    BY <1>12 DEF Cancel, vars, reconcilerVars, roundVars, nsId
  <2>2. GroupEntries' /\ ReportsPending'
    BY <2>1, <1>i DEF GroupEntries, ReportsPending, Listed, MustReport, Reportable, engineVars
  <2> QED
    BY <2>1, <2>2, <1>u, <1>l, <1>q
<1> QED
  BY <1>1, <1>2, <1>3, <1>4, <1>5, <1>6, <1>7, <1>8, <1>9, <1>10, <1>11, <1>12,
     Zenon DEF Next, Round

(* While an object is cached at its live version, every check it fails on  *)
(* its own account, is enabled and has a gauge, is on the gauges:          *)
(* validationCache never hides a failure, whatever aborts a round.         *)
THEOREM CacheHidesNoFailure == Spec => []NoFailureHidden
<1>1. TypeInv /\ CacheInv => NoFailureHidden
  BY DEF CacheInv
<1> QED
  BY TypeInit, TypeStep, CacheInit, CacheStep, <1>1, PTL DEF Spec

(* The whole invariant that run `aborts' checks: what a round has listed,   *)
(* what it has still to report and what it stores agree with the cluster    *)
(* and the gauges in every reachable state.                                 *)
THEOREM InductiveInvariant == Spec => []IInv
<1>1. TypeInv /\ CacheInv => IInv
  BY DEF TypeInv, CacheInv, IInv
<1> QED
  BY TypeInit, TypeStep, CacheInit, CacheStep, <1>1, PTL DEF Spec
===============================================================================
