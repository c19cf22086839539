------------------------------ MODULE Reconciler ------------------------------
(***************************************************************************)
(* GenericReconciler (pkg/controller/generic_reconciler.go): the loop that *)
(* lists every watched namespace, groups the objects by their labels,      *)
(* validates the groups that are not cached, and at the end of a round     *)
(* forgets the objects it did not see.                                     *)
(*                                                                         *)
(* One step per List call, per group decision, per run of kube-linter, per *)
(* gauge that is set and per object that is stored, so that the cluster -  *)
(* and in module Operator the configuration - can change between them.     *)
(***************************************************************************)
EXTENDS ValidationEngine, Groups

CONSTANTS
    Ignored,     \* namespaces matched by NAMESPACE_IGNORE_PATTERN
    MaxFaults    \* bound: List and discovery calls that fail

ASSUME ReconcilerAssumption ==
    /\ Ignored \subseteq Namespace
    /\ MaxFaults \in Nat

Key == Object \X NsUid

INSTANCE ValidationCache

VARIABLES
    discovered,   \* apiResources was filled when once.Do ran
    pc,           \* what the reconciling goroutine does next
    watched,      \* namespaces this round has still to process, with their UID
    ns,           \* the namespace being processed
    kind,         \* the next kind to list in it
    listed,       \* objects listed so far in it: version and manifest
    groups,       \* keys of relatedObjects still to reconcile
    members,      \* objects of the group being reconciled, not stored yet
    reports,      \* reports of its run that processResult has not handled
    cache,        \* objectValidationCache
    current,      \* keys of currentObjects
    cancelled,    \* the manager's context is done
    faults        \* calls that failed so far

roundVars == <<watched, ns, kind, listed, groups, members, reports>>
reconcilerVars == <<discovered, pc, roundVars, cache, current, faults>>
vars == <<clusterVars, engineVars, reconcilerVars, cancelled>>

NoNamespace == 0
Unlisted == [rv |-> 0, manifest |-> Absent]
NothingListed == [o \in Object |-> Unlisted]
NothingWatched == [n \in Namespace |-> NoUid]

nsId == watched[ns]

PCs == {"discover", "watch", "namespaces", "list", "groups", "lint", "report",
        "idle", "stopped"}

RoundTypeOK ==
    /\ watched \in [Namespace -> NsUid \cup {NoUid}]
    /\ ns \in Namespace \cup {NoNamespace}
    /\ kind \in 1..(NumKinds + 1)
    /\ listed \in [Object -> [rv : Version \cup {0}, manifest : Manifest \cup {Absent}]]
    /\ groups \subseteq LabelSet
    /\ members \subseteq Object
    /\ reports \subseteq AllReports

TypeOK ==
    /\ ClusterTypeOK
    /\ EngineTypeOK
    /\ RoundTypeOK
    /\ discovered \in BOOLEAN
    /\ pc \in PCs
    /\ cache \in ValidationCaches
    /\ current \subseteq Key
    /\ cancelled \in BOOLEAN
    /\ faults \in 0..MaxFaults

(* NewGenericReconciler, and the goroutine of Start about to run.          *)
ReconcilerInit ==
    /\ discovered = FALSE
    /\ pc = "discover"
    /\ watched = NothingWatched
    /\ ns = NoNamespace
    /\ kind = 1
    /\ listed = NothingListed
    /\ groups = {}
    /\ members = {}
    /\ reports = {}
    /\ cache = newValidationCache
    /\ current = {}

Init == ClusterInit /\ EngineInit /\ ReconcilerInit /\ cancelled = FALSE /\ faults = 0

-----------------------------------------------------------------------------
(* Mutant: a call is retried when the context is done. *)
CallFails_Retries == ~cancelled /\ faults < MaxFaults /\ faults' = faults + 1

(* A call to the API server fails: the context is done, or a fault. *)
CallFails ==
    \/ cancelled /\ UNCHANGED faults
    \/ ~cancelled /\ faults < MaxFaults /\ faults' = faults + 1

ClearRound ==
    /\ watched' = NothingWatched
    /\ ns' = NoNamespace
    /\ kind' = 1
    /\ listed' = NothingListed
    /\ groups' = {}
    /\ members' = {}
    /\ reports' = {}

(* reconcileEverything returns: the locals of the round are gone.          *)
(* currentObjects is not drained when it returns an error.                 *)
LeaveRound == pc' = "idle" /\ ClearRound

(* once.Do: discovery is tried in the first round and never again.  The    *)
(* discovery client takes no context.                                      *)
Discover ==
    /\ pc = "discover"
    /\ pc' = "watch"
    /\ discovered' = TRUE
    /\ UNCHANGED <<clusterVars, engineVars, roundVars, cache, current, faults, cancelled>>

DiscoverFails ==
    /\ pc = "discover"
    /\ pc' = "watch"
    /\ faults < MaxFaults
    /\ faults' = faults + 1
    /\ UNCHANGED <<clusterVars, engineVars, roundVars, discovered, cache, current, cancelled>>

(* The ticker fires and the loop of Start begins a round. *)
Tick ==
    /\ pc = "idle"
    /\ pc' = "watch"
    /\ UNCHANGED <<clusterVars, engineVars, roundVars, discovered, cache, current, faults, cancelled>>

(* The loop of Start sees ctx.Done() and returns. *)
Stop ==
    /\ pc = "idle"
    /\ cancelled
    /\ pc' = "stopped"
    /\ UNCHANGED <<clusterVars, engineVars, roundVars, discovered, cache, current, faults, cancelled>>

(* resetCache and getWatchNamespaces. *)
ListNamespaces ==
    /\ pc = "watch"
    /\ ~cancelled
    /\ pc' = "namespaces"
    /\ watched' = [n \in Namespace |-> IF n \in Ignored THEN NoUid ELSE nsUid[n]]
    /\ UNCHANGED <<clusterVars, engineVars, discovered, ns, kind, listed, groups,
                   members, reports, cache, current, faults, cancelled>>

(* Mutant: the deletions are handled after a failed round as well. *)
ListFails_Purges ==
    /\ pc = "watch" \/ (pc = "list" /\ kind <= NumKinds /\ discovered)
    /\ CallFails
    /\ LeaveRound
    /\ metrics' = {s \in metrics : <<s.object, s.nsUid>> \in current}
    /\ cache' = [k \in Key |-> IF k \in current THEN cache[k] ELSE NoEntry]
    /\ current' = {}
    /\ UNCHANGED <<clusterVars, engineConfigVars, discovered, cancelled>>

(* The List call of getWatchNamespaces or of groupAppObjects fails and     *)
(* with it the round: handleResourceDeletions is not reached.              *)
ListFails ==
    /\ pc = "watch" \/ (pc = "list" /\ kind <= NumKinds /\ discovered)
    /\ CallFails
    /\ LeaveRound
    /\ UNCHANGED <<clusterVars, engineVars, discovered, cache, current, cancelled>>

BeginNamespace(n) ==
    /\ pc = "namespaces"
    /\ watched[n] # NoUid
    /\ \A m \in Namespace : watched[m] # NoUid => n <= m
    /\ pc' = "list"
    /\ ns' = n
    /\ kind' = 1
    /\ UNCHANGED <<clusterVars, engineVars, discovered, watched, listed, groups,
                   members, reports, cache, current, faults, cancelled>>

-----------------------------------------------------------------------------
(* groupAppObjects.  The pages of one List come from one snapshot, so they *)
(* are one step; the lists of two kinds are not.                           *)
ListKind ==
    /\ pc = "list"
    /\ discovered
    /\ kind <= NumKinds
    /\ ~cancelled
    /\ kind' = kind + 1
    /\ listed' = [o \in Object |->
                    IF KindOf[o] = kind /\ NamespaceOf[o] = ns /\ Live(o)
                    THEN [rv |-> rv[o], manifest |-> manifest[o]]
                    ELSE listed[o]]
    /\ UNCHANGED <<clusterVars, engineVars, discovered, pc, watched, ns, groups,
                   members, reports, cache, current, faults, cancelled>>

Listed(o) == listed[o].manifest # Absent

listedManifests == [o \in Object |-> listed[o].manifest]

(* What module Grouping shows groupAppObjects to make of the listed objects. *)
relatedObjects(l) == Related({o \in Object : Listed(o)}, listedManifests, l)

GroupObjects ==
    /\ pc = "list"
    /\ kind > NumKinds \/ ~discovered
    /\ pc' = "groups"
    /\ groups' = {l \in LabelSet : \E o \in Object : Listed(o) /\ HasLabels(listedManifests, o, l)}
    /\ UNCHANGED <<clusterVars, engineVars, discovered, watched, ns, kind, listed,
                   members, reports, cache, current, faults, cancelled>>

-----------------------------------------------------------------------------
(* allObjectsValidated for one group, taken in any order as Go iterates    *)
(* over a map: its objects are seen, and stale entries are removed.        *)
Keys(objs) == {<<o, nsId>> : o \in objs}
ListedVersion == [k \in Key |-> listed[k[1]].rv]

allObjectsValidated(objs) ==
    \A o \in objs : objectAlreadyValidated(cache, <<o, nsId>>, listed[o].rv)

SeeGroup(l) ==
    /\ pc = "groups"
    /\ l \in groups
    /\ current' = current \cup Keys(relatedObjects(l))
    /\ cache' = RemoveStale(cache, Keys(relatedObjects(l)), ListedVersion)
    /\ UNCHANGED <<clusterVars, engineVars, discovered, faults, cancelled>>

SkipValidatedGroup(l) ==
    /\ SeeGroup(l)
    /\ allObjectsValidated(relatedObjects(l))
    /\ groups' = groups \ {l}
    /\ UNCHANGED <<pc, watched, ns, kind, listed, members, reports>>

Typed(objs) == \A o \in objs : listed[o].manifest.typed

(* Mutant: the group is stored before it is converted. *)
ConversionFails_Stored(l) ==
    /\ pc = "groups"
    /\ l \in groups
    /\ ~allObjectsValidated(relatedObjects(l))
    /\ ~Typed(relatedObjects(l))
    /\ current' = current \cup Keys(relatedObjects(l))
    /\ cache' = [k \in Key |-> IF k \in Keys(relatedObjects(l)) THEN ListedVersion[k]
                               ELSE cache[k]]
    /\ LeaveRound
    /\ UNCHANGED <<clusterVars, engineVars, discovered, faults, cancelled>>

(* unstructuredToTyped fails for one object: the round is given up. *)
ConversionFails(l) ==
    /\ SeeGroup(l)
    /\ ~allObjectsValidated(relatedObjects(l))
    /\ ~Typed(relatedObjects(l))
    /\ LeaveRound

BeginGroup(l) ==
    /\ SeeGroup(l)
    /\ ~allObjectsValidated(relatedObjects(l))
    /\ Typed(relatedObjects(l))
    /\ pc' = "lint"
    /\ groups' = groups \ {l}
    /\ members' = relatedObjects(l)
    /\ UNCHANGED <<watched, ns, kind, listed, reports>>

(* RunValidationsForObjects up to processResult.  run.Run reads registry   *)
(* and enabledChecks; clearMetrics only deletes and commutes with every    *)
(* other deletion, so it is part of the same step.                         *)
RunLint ==
    /\ pc = "lint"
    /\ RunSucceeds
    /\ pc' = "report"
    /\ reports' = RunReports(members, listedManifests)
    /\ metrics' = clearMetrics(DeleteNoReplicas(metrics, members, listedManifests),
                               reports', members, nsId)
    /\ UNCHANGED <<clusterVars, engineConfigVars, discovered, watched, ns, kind,
                   listed, groups, members, cache, current, faults, cancelled>>

RunLintFails ==
    /\ pc = "lint"
    /\ ~RunSucceeds
    /\ metrics' = DeleteNoReplicas(metrics, members, listedManifests)
    /\ LeaveRound
    /\ UNCHANGED <<clusterVars, engineConfigVars, discovered, cache, current, faults, cancelled>>

(* One iteration of processResult, the reports taken in any order. *)
ProcessReport(r) ==
    /\ pc = "report"
    /\ r \in reports
    /\ r.check \in registeredChecks
    /\ reports' = reports \ {r}
    /\ metrics' = processResult(metrics, r, nsId)
    /\ UNCHANGED <<clusterVars, engineConfigVars, discovered, pc, watched, ns, kind,
                   listed, groups, members, cache, current, faults, cancelled>>

(* getCheckByName does not know the check: the round is given up. *)
ProcessReportFails(r) ==
    /\ pc = "report"
    /\ r \in reports
    /\ r.check \notin registeredChecks
    /\ LeaveRound
    /\ UNCHANGED <<clusterVars, engineVars, discovered, cache, current, faults, cancelled>>

(* Mutant: the version stored is the one the object has by now. *)
StoreObject_LiveVersion(o) ==
    /\ pc = "report"
    /\ reports = {}
    /\ o \in members
    /\ cache' = store(cache, <<o, nsId>>, rv[o])
    /\ members' = members \ {o}
    /\ pc' = IF members' = {} THEN "groups" ELSE "report"
    /\ UNCHANGED <<clusterVars, engineVars, discovered, watched, ns, kind, listed,
                   groups, reports, current, faults, cancelled>>

(* reconcileGroupOfObjects stores the outcome for one member of the group. *)
StoreObject(o) ==
    /\ pc = "report"
    /\ reports = {}
    /\ o \in members
    /\ cache' = store(cache, <<o, nsId>>, listed[o].rv)
    /\ members' = members \ {o}
    /\ pc' = IF members' = {} THEN "groups" ELSE "report"
    /\ UNCHANGED <<clusterVars, engineVars, discovered, watched, ns, kind, listed,
                   groups, reports, current, faults, cancelled>>

(* Mutant: the objects seen are forgotten with each namespace. *)
EndNamespace_DrainsCurrent ==
    /\ pc = "groups"
    /\ groups = {}
    /\ pc' = "namespaces"
    /\ watched' = [watched EXCEPT ![ns] = NoUid]
    /\ ns' = NoNamespace
    /\ kind' = 1
    /\ listed' = NothingListed
    /\ current' = {}
    /\ UNCHANGED <<clusterVars, engineVars, discovered, groups, members, reports,
                   cache, faults, cancelled>>

EndNamespace ==
    /\ pc = "groups"
    /\ groups = {}
    /\ pc' = "namespaces"
    /\ watched' = [watched EXCEPT ![ns] = NoUid]
    /\ ns' = NoNamespace
    /\ kind' = 1
    /\ listed' = NothingListed
    /\ UNCHANGED <<clusterVars, engineVars, discovered, groups, members, reports,
                   cache, current, faults, cancelled>>

(* handleResourceDeletions, then the round has succeeded.  Its steps       *)
(* delete series and entries nobody else adds meanwhile.                   *)
Forgotten == {k \in Key : has(cache, k) /\ k \notin current}

(* Mutants: the entries are removed and their series stay; the objects seen *)
(* in this round are still current in the next.                             *)
handleResourceDeletions_KeepsSeries ==
    /\ pc = "namespaces"
    /\ watched = NothingWatched
    /\ cache' = [k \in Key |-> IF k \in Forgotten THEN NoEntry ELSE cache[k]]
    /\ current' = {}
    /\ LeaveRound
    /\ UNCHANGED <<clusterVars, engineVars, discovered, faults, cancelled>>

handleResourceDeletions_NoDrain ==
    /\ pc = "namespaces"
    /\ watched = NothingWatched
    /\ metrics' = {s \in metrics : <<s.object, s.nsUid>> \notin Forgotten}
    /\ cache' = [k \in Key |-> IF k \in Forgotten THEN NoEntry ELSE cache[k]]
    /\ LeaveRound
    /\ UNCHANGED <<clusterVars, engineConfigVars, discovered, current, faults, cancelled>>

handleResourceDeletions ==
    /\ pc = "namespaces"
    /\ watched = NothingWatched
    /\ metrics' = {s \in metrics : <<s.object, s.nsUid>> \notin Forgotten}
    /\ cache' = [k \in Key |-> IF k \in Forgotten THEN NoEntry ELSE cache[k]]
    /\ current' = {}
    /\ LeaveRound
    /\ UNCHANGED <<clusterVars, engineConfigVars, discovered, faults, cancelled>>

-----------------------------------------------------------------------------
(* A termination signal reaches the manager. *)
Cancel ==
    /\ ~cancelled
    /\ cancelled' = TRUE
    /\ UNCHANGED <<clusterVars, engineVars, reconcilerVars>>

Group(l) == SkipValidatedGroup(l) \/ ConversionFails(l) \/ BeginGroup(l)

Round ==
    \/ Discover \/ DiscoverFails \/ Tick
    \/ ListNamespaces \/ ListFails
    \/ \E n \in Namespace : BeginNamespace(n)
    \/ ListKind \/ GroupObjects
    \/ \E l \in LabelSet : Group(l)
    \/ RunLint
    \/ \E r \in reports : ProcessReport(r)
    \/ \E o \in members : StoreObject(o)
    \/ EndNamespace
    \/ handleResourceDeletions

(* The cluster changes, at any time. *)
ClusterStep == ClusterNext /\ UNCHANGED <<engineVars, reconcilerVars, cancelled>>

(* RunLintFails and ProcessReportFails need a configuration that changes   *)
(* during the round and are steps of module Operator.                      *)
Next == Round \/ Stop \/ ClusterStep \/ Cancel

Spec == Init /\ [][Next]_vars

(* The goroutine keeps running and its ticker keeps firing.  The select of *)
(* Start chooses at random between a tick and ctx.Done(), so a shutdown it *)
(* meets again and again is taken at last.                                 *)
Fairness == WF_vars(Round) /\ SF_vars(Stop)

FairSpec == Spec /\ Fairness

-----------------------------------------------------------------------------
(***************************************************************************)
(* Safety, for a configuration that does not change.                       *)
(***************************************************************************)

(* The checks of the configuration in force whose failure can be seen.     *)
Reportable == enabledChecks \cap Metered

(* What must be on the gauges for an object with manifest m. *)
MustReport(m) == IF Lintable(m) THEN m.fails \cap Reportable ELSE {}

Cached(o, u) == has(cache, <<o, u>>) /\ Live(o) /\ cache[<<o, u>>] = rv[o]

(* No failure is hidden by the cache: while the cache holds an object at    *)
(* its live version, so that further rounds skip it, every check it fails   *)
(* is on the gauges - through partial failures of rounds, clears made for   *)
(* other groups and deletions of other objects                              *)
(* (reconcileGroupOfObjects, clearMetrics, handleResourceDeletions).        *)
NoFailureHidden ==
    \A o \in Object, u \in NsUid :
        Cached(o, u) => \A c \in MustReport(manifest[o]) : Series(c, o, u) \in metrics

(* A run over an object with manifest m can report check c. *)
CanReport(m, c) == Lintable(m) /\ c \in m.fails \cup m.needs

NeighbourCanReport(o, c) ==
    \E p \in Object \ {o} : /\ NamespaceOf[p] = NamespaceOf[o]
                            /\ \E m \in ManifestsOf[p] : CanReport(m, c)

(* No failure is told of what does not fail: while the cache holds an       *)
(* object at its live version, so that no further round clears its series,  *)
(* each is of a check its manifest can fail, or one that a neighbour in its *)
(* namespace could have been reported for in the same run (clearMetrics,    *)
(* processResult, reconcileGroupOfObjects).                                 *)
AlarmsHaveCauses ==
    \A s \in metrics :
        Cached(s.object, s.nsUid) =>
            \/ CanReport(manifest[s.object], s.check)
            \/ NeighbourCanReport(s.object, s.check)

(* Every series can still be deleted: handleResourceDeletions only looks    *)
(* at cached keys, so a series is on the gauges only while its object is    *)
(* cached or is in the group being reconciled.                              *)
SeriesTracked ==
    \A s \in metrics :
        \/ has(cache, <<s.object, s.nsUid>>)
        \/ s.object \in members /\ s.nsUid = nsId

(***************************************************************************)
(* The inductive strengthening of NoFailureHidden, in named parts.         *)
(***************************************************************************)

(* While a namespace is processed, the round knows its UID. *)
InNamespace ==
    pc \in {"list", "groups", "lint", "report"} => ns \in Namespace /\ nsId # NoUid

(* A listed object was live at the version it is listed with; if that is   *)
(* still its version, the listed manifest is still its manifest.           *)
ListedOnce ==
    \A o \in Object : Listed(o) =>
        /\ listed[o].rv <= rv[o]
        /\ Live(o) /\ listed[o].rv = rv[o] => listed[o].manifest = manifest[o]

(* The cache never runs ahead of the cluster. *)
CachedOnce == \A o \in Object, u \in NsUid : cache[<<o, u>>] <= rv[o]

(* The entries of a group under validation are of the listed version. *)
GroupEntries ==
    pc \in {"lint", "report"} =>
        \A o \in members : /\ Listed(o)
                           /\ cache[<<o, nsId>>] \in {NoEntry, listed[o].rv}

(* What processResult has not published yet is still among the reports. *)
ReportsPending ==
    pc = "report" =>
        \A o \in members : \A c \in MustReport(listed[o].manifest) :
            Report(c, o) \in reports \/ Series(c, o, nsId) \in metrics

IInv ==
    /\ TypeOK /\ InNamespace
    /\ ListedOnce /\ CachedOnce /\ GroupEntries /\ ReportsPending
    /\ NoFailureHidden

(* A round never forgets what it has no reason to forget: an entry at the   *)
(* live version of a labelled object, under the UID its namespace has now,  *)
(* stays cached, whatever lists fail and whatever changes during the round  *)
(* (allObjectsValidated, handleResourceDeletions).                          *)
FreshEntriesKept ==
    [][\A o \in Object, u \in NsUid :
         (nsUid[NamespaceOf[o]] = u /\ Cached(o, u) /\ manifest[o].labels # NoLabels)
            => has(cache', <<o, u>>)]_vars

(* What the comment in isControllersWithNoReplicas promises: a controller   *)
(* without replicas has no series once its group was run.                   *)
NoReplicasCleared ==
    pc = "report" /\ reports = {} =>
        \A s \in metrics :
            ~(/\ s.object \in members /\ s.nsUid = nsId
              /\ listed[s.object].manifest.isOwner
              /\ isControllersWithNoReplicas(listed[s.object].manifest))

-----------------------------------------------------------------------------
(***************************************************************************)
(* Liveness.                                                               *)
(***************************************************************************)
Failing(o, c) ==
    /\ Live(o)
    /\ manifest[o].labels # NoLabels
    /\ NamespaceOf[o] \notin Ignored
    /\ c \in MustReport(manifest[o])

Reported(o, c) == Series(c, o, nsUid[NamespaceOf[o]]) \in metrics

(* No object stops a round by its conversion. *)
AllConverting == \A o \in Object : Live(o) => manifest[o].typed

(* A failure that persists is reported for good, whatever calls failed and  *)
(* whatever else changed meanwhile, provided discovery succeeded and no     *)
(* object that fails to convert stops the rounds for ever.                  *)
FailureReported ==
    \A o \in Object, c \in Check :
        <>[](discovered /\ ~cancelled /\ AllConverting /\ Failing(o, c)) => <>[]Reported(o, c)

(* The label sets under which groupAppObjects may put a manifest. *)
LabelSetsOf(m) == ({m.labels} \cup m.selects) \ {NoLabels}

(* An object that fails to convert is in no group that o could be in. *)
ConversionFailsApart(o) ==
    \A p \in Object : Live(p) /\ ~manifest[p].typed =>
        \A m \in ManifestsOf[o] : LabelSetsOf(manifest[p]) \cap LabelSetsOf(m) = {}

(* The series of a deleted object disappear for good, also when the object  *)
(* was deleted between its listing and the end of the round, and when       *)
(* rounds are given up in between for a failed List or for an object of     *)
(* another group that does not convert.  In a group of its own such an      *)
(* object leaves the deleted one without an entry, and its series for good  *)
(* (handleResourceDeletions, objectAlreadyValidated).                       *)
DeletedForgotten ==
    \A o \in Object :
        /\ <>[](rv[o] # 0 /\ ~Live(o) /\ ~cancelled /\ AllConverting)
        /\ []ConversionFailsApart(o)
        => <>[](\A s \in metrics : s.object # o)

(* Nothing on the cluster fails check c any longer, and o is still looked at. *)
Fixed(o, c) ==
    /\ Live(o)
    /\ manifest[o].labels # NoLabels
    /\ NamespaceOf[o] \notin Ignored
    /\ \A p \in Object : Live(p) => c \notin manifest[p].fails \cup manifest[p].needs

Cleared(o, c) == \A s \in metrics : ~(s.object = o /\ s.check = c)

(* What README says of failed validations, and the test of clearMetrics of  *)
(* a problem that was resolved: the series of an object that is fixed       *)
(* disappears for good, if no object fails the check any longer.            *)
FixedCleared ==
    \A o \in Object, c \in Check :
        <>[](discovered /\ ~cancelled /\ AllConverting /\ Fixed(o, c)) => <>[]Cleared(o, c)

(* The same where no other object ever fails the check: whatever else the   *)
(* neighbours in its group are reported for, their reports cannot stand in  *)
(* for those of the fixed object (clearMetrics).                            *)
FixedClearedIfNotShared ==
    \A o \in Object, c \in Check :
        /\ <>[](discovered /\ ~cancelled /\ AllConverting /\ Fixed(o, c))
        /\ [](\A p \in Object \ {o} : Live(p) => c \notin manifest[p].fails \cup manifest[p].needs)
        => <>[]Cleared(o, c)

(* Shutdown ends the loop, also when it comes in the middle of a round.     *)
ShutdownStops == cancelled ~> pc = "stopped"

-----------------------------------------------------------------------------
(***************************************************************************)
(* The refinement: an object under the UID of its namespace is a thing of  *)
(* module Reporting, the members of the group being reconciled are the     *)
(* things in work, the cache holds the verdicts.                           *)
(***************************************************************************)
Present == {k \in Key : Live(k[1]) /\ nsUid[NamespaceOf[k[1]]] = k[2]}

Promise == INSTANCE Reporting WITH
    Thing   <- Key,
    Gauge   <- Metered,
    version <- [k \in Key |-> rv[k[1]]],
    alive   <- Present,
    kept    <- {k \in Present : manifest[k[1]].labels # NoLabels},
    owed    <- [k \in Key |-> IF Live(k[1]) THEN MustReport(manifest[k[1]]) ELSE {}],
    verdict <- cache,
    gauges  <- {<<s.check, <<s.object, s.nsUid>>>> : s \in metrics},
    inWork  <- Keys(members)

(* The rounds implement the abstract reporter: gauges change only for the   *)
(* group in work or together with a forgotten verdict, a verdict at the     *)
(* live version is stored only when the gauges tell every failure, and only *)
(* what changed or went away is dropped (reconcileEverything).              *)
ImplementsReporting == Promise!Spec
==============================================================================
