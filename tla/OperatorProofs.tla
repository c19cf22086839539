----------------------------- MODULE OperatorProofs -----------------------------
(***************************************************************************)
(* Theorems about Operator: reconciler, updater and ConfigMap handlers over *)
(* the state they share without a lock.                                     *)
(***************************************************************************)
EXTENDS Operator, RefinementProofs

USE DEF Version, NsUid, NoUid, NoEntry

OperatorTypeInv == OperatorTypeOK /\ InNamespace

-----------------------------------------------------------------------------
(* The operator starts as its reconciler does. *)
LEMMA StartsAsReconciler == OperatorInit => Init
  BY DEF OperatorInit, Init

(* An informer begins with an Add for the ConfigMap that exists. *)
LEMMA FirstEvent ==
  ASSUME configMap \in ConfigMapData \cup {NoConfigMap}
  PROVE  (IF configMap = NoConfigMap THEN <<>> ELSE <<Event("add", TRUE, configMap)>>)
           \in Seq([type : EventTypes, own : BOOLEAN, data : ConfigMapData])
<1> DEFINE Events == [type : EventTypes, own : BOOLEAN, data : ConfigMapData]
<1>1. configMap # NoConfigMap => Event("add", TRUE, configMap) \in Events
  BY DEF Event, EventTypes
<1> HIDE DEF Events
<1>2. <<>> \in Seq(Events) /\ \A e \in Events : <<e>> \in Seq(Events)
  OBVIOUS
<1>3. (IF configMap = NoConfigMap THEN <<>> ELSE <<Event("add", TRUE, configMap)>>) \in Seq(Events)
  BY <1>1, <1>2
<1> QED
  BY <1>3 DEF Events

(* A fresh process is well-typed, whatever ConfigMap it finds. *)
LEMMA OperatorTypeInit == OperatorInit => OperatorTypeInv
<1> SUFFICES ASSUME OperatorInit PROVE OperatorTypeInv
  OBVIOUS
<1>1. TypeInv
  BY StartsAsReconciler, TypeInit
<1>2. WatcherTypeOK
  <2>1. /\ configMap \in ConfigMapData \cup {NoConfigMap} /\ changes = 0 /\ foreign = 0
        /\ events = IF configMap = NoConfigMap THEN <<>> ELSE <<Event("add", TRUE, configMap)>>
        /\ handler = "idle" /\ cfg = ZeroConfig /\ newCfg = ZeroConfig
    BY DEF OperatorInit, ConfigMapInit, WatcherInit
  <2> QED
    BY <2>1, FirstEvent, WatcherAssumption DEF WatcherTypeOK
<1>3. /\ updater = "wait" /\ config = ZeroConfig /\ unpublished = {} /\ unreset = {}
      /\ restarts = 0
  BY DEF OperatorInit, UpdaterInit
<1>4. raced \in BOOLEAN
  BY Zenon DEF OperatorInit
<1> QED
  BY <1>1, <1>2, <1>3, <1>4, WatcherAssumption, OperatorAssumption
  DEF OperatorTypeInv, OperatorTypeOK, TypeInv

(* The steps the reconciler takes in the operator, and those of its world.  *)
OwnStep ==
    \/ Round \/ Stop \/ ClusterStep \/ Cancel
    \/ RunLintFails \/ \E r \in reports : ProcessReportFails(r)

(* The failures that Reconciler's Next leaves out give a round up. *)
LEMMA FailureEffect ==
  ASSUME TypeInv, RunLintFails \/ \E r \in reports : ProcessReportFails(r)
  PROVE  /\ LeaveRound /\ UNCHANGED <<clusterVars, engineVars, cache, current, discovered, faults, cancelled>>
<1>1. metrics \subseteq AllSeries
  BY DEF TypeInv, TypeOK, EngineTypeOK
<1>2. DeleteNoReplicas(metrics, members, listedManifests) = metrics
  BY <1>1 DEF DeleteNoReplicas, Labelled, AllSeries
<1> QED
  BY <1>2 DEF RunLintFails, ProcessReportFails, engineVars, engineConfigVars

(* The reconciler's own steps and its failures keep the types. *)
LEMMA OwnTypes == TypeInv /\ OwnStep => TypeInv'
<1> SUFFICES ASSUME TypeInv, OwnStep PROVE TypeInv'
  OBVIOUS
<1>1. CASE Round \/ Stop \/ ClusterStep \/ Cancel
  BY <1>1, TypeStep DEF Next
<1>2. CASE RunLintFails \/ \E r \in reports : ProcessReportFails(r)
  <2>1. /\ LeaveRound
        /\ UNCHANGED <<clusterVars, engineVars, cache, current, discovered, faults, cancelled>>
    BY <1>2, FailureEffect
  <2>2. RoundTypeOK' /\ pc' \in PCs /\ InNamespace'
    BY <2>1, RoundLeft
  <2>3. ClusterTypeOK' /\ EngineTypeOK' /\ cache' \in ValidationCaches /\ current' \subseteq Key
        /\ faults' \in 0..MaxFaults
    BY <2>1 DEF TypeInv, TypeOK, ClusterTypeOK, EngineTypeOK, clusterVars, engineVars
  <2>4. discovered' \in BOOLEAN /\ cancelled' \in BOOLEAN
    BY <2>1, Zenon DEF TypeInv, TypeOK
  <2> QED
    BY <2>2, <2>3, <2>4, Zenon DEF TypeInv, TypeOK
<1> QED
  BY <1>1, <1>2 DEF OwnStep

(* A configuration the engine is given is well-typed, however torn. *)
LEMMA ConfigTypes ==
  ASSUME NEW c \in Configs
  PROVE  RegistryFor(c) \subseteq Check /\ getValidChecks(c) \subseteq Check
  BY ChecksAssumption DEF RegistryFor, getValidChecks, Configs

(* Publishing a configuration, draining and resetting keep the types. *)
LEMMA UpdaterTypes == OperatorTypeInv /\ LookForConfigUpdates => TypeInv'
<1> SUFFICES ASSUME OperatorTypeInv, LookForConfigUpdates PROVE TypeInv'
  OBVIOUS
<1>t. /\ ClusterTypeOK /\ EngineTypeOK /\ RoundTypeOK /\ InNamespace /\ pc \in PCs
      /\ cache \in ValidationCaches /\ current \subseteq Key /\ faults \in 0..MaxFaults
      /\ config \in Configs
  BY DEF OperatorTypeInv, OperatorTypeOK, TypeOK
<1>b. discovered \in BOOLEAN /\ cancelled \in BOOLEAN
  BY DEF OperatorTypeInv, OperatorTypeOK, TypeOK
<1>1. UNCHANGED <<clusterVars, discovered, pc, roundVars, current, faults, cancelled>>
  BY DEF LookForConfigUpdates, ConfigChanged, ReadConfig, InitRegistryFails, InitRegistry, Publish,
         DrainCache, ResetMetric, EndUpdate, StopUpdates, Beside
<1>2. EngineTypeOK'
  <2>1. CASE UNCHANGED engineVars
    BY <2>1, <1>t DEF engineVars, EngineTypeOK
  <2>2. ASSUME NEW f \in unpublished, Publish(f) PROVE EngineTypeOK'
    <3>1. /\ RegistryFor(config) \subseteq Check /\ getValidChecks(config) \subseteq Check
          /\ UNCHANGED metrics
      BY <2>2, <1>t, ConfigTypes DEF Publish
    <3>2. \A s \in Torn(enabledChecks, getValidChecks(config)) : s \subseteq Check
      BY <3>1, <1>t DEF Torn, EngineTypeOK
    <3>3. enabledChecks' \subseteq Check
      BY <2>2, <3>1, <3>2, <1>t DEF Publish, EngineTypeOK
    <3> QED
      BY <2>2, <3>1, <3>3, <1>t DEF Publish, EngineTypeOK
  <2>3. ASSUME NEW c \in unreset, ResetMetric(c) PROVE EngineTypeOK'
    BY <2>3, <1>t DEF ResetMetric, engineConfigVars, EngineTypeOK
  <2> QED
    BY <2>1, <2>2, <2>3
    DEF LookForConfigUpdates, ConfigChanged, ReadConfig, InitRegistryFails, InitRegistry,
        DrainCache, EndUpdate, StopUpdates
<1>3. cache' \in ValidationCaches
  BY <1>t
  DEF LookForConfigUpdates, ConfigChanged, ReadConfig, InitRegistryFails, InitRegistry, Publish,
      DrainCache, ResetMetric, EndUpdate, StopUpdates, drain, newValidationCache, ValidationCaches
<1>4. ClusterTypeOK' /\ RoundTypeOK' /\ InNamespace' /\ pc' \in PCs /\ current' \subseteq Key
      /\ faults' \in 0..MaxFaults
  BY <1>1, <1>t DEF clusterVars, roundVars, ClusterTypeOK, RoundTypeOK, InNamespace, nsId
<1>5. discovered' \in BOOLEAN /\ cancelled' \in BOOLEAN
  BY <1>1, <1>b, Zenon
<1> QED
  BY <1>2, <1>3, <1>4, <1>5, Zenon DEF TypeInv, TypeOK

(* A process that starts again is well-typed, whatever configuration it reads. *)
LEMMA StartTypes == OperatorTypeInv /\ StartAgain => TypeInv'
<1> SUFFICES ASSUME OperatorTypeInv, StartAgain PROVE TypeInv'
  OBVIOUS
<1>1. EngineTypeOK'
  <2>1. PICK c \in Config : /\ registry' = RegistryFor(c) /\ enabledChecks' = getValidChecks(c)
                            /\ registeredChecks' = getValidChecks(c) /\ metrics' = {}
    BY DEF StartAgain, EngineStart
  <2>2. c \in Configs
    BY ChecksAssumption
  <2> QED
    BY <2>1, <2>2, ConfigTypes DEF EngineTypeOK
<1>2. cache' \in ValidationCaches /\ current' \subseteq Key
  BY DEF StartAgain, ReconcilerStart, newValidationCache, ValidationCaches
<1>3. RoundTypeOK'
  BY ClusterAssumption
  DEF StartAgain, ReconcilerStart, ClearRound, RoundTypeOK, NothingWatched, NothingListed, Unlisted
<1>4. pc' \in PCs /\ InNamespace' /\ ClusterTypeOK' /\ faults' \in 0..MaxFaults
  BY DEF StartAgain, ReconcilerStart, PCs, InNamespace, OperatorTypeInv, OperatorTypeOK, TypeOK,
         clusterVars, ClusterTypeOK
<1>5. discovered' \in BOOLEAN
  BY Zenon DEF StartAgain, ReconcilerStart
<1>6. cancelled' \in BOOLEAN
  BY Zenon DEF StartAgain, OperatorTypeInv, OperatorTypeOK, TypeOK
<1> QED
  BY <1>1, <1>2, <1>3, <1>4, <1>5, <1>6, Zenon DEF TypeInv, TypeOK

(* The informer's events and what the handlers save are well-typed. *)
LEMMA WatcherTypes ==
  ASSUME WatcherTypeOK,
         \/ SaveConfig \/ IgnoreEvent \/ SaveDefault \/ EndSave
         \/ \E d \in ConfigMapData : PutConfigMap(d)
         \/ DeleteConfigMap \/ ForeignChange
  PROVE  WatcherTypeOK'
<1> DEFINE Events == [type : EventTypes, own : BOOLEAN, data : ConfigMapData]
<1>t. /\ configMap \in ConfigMapData \cup {NoConfigMap} /\ changes \in 0..MaxChanges
      /\ foreign \in 0..MaxForeign /\ events \in Seq(Events)
      /\ handler \in {"idle", "writing", "sending"} /\ cfg \in Configs /\ newCfg \in Configs
  BY DEF WatcherTypeOK
<1>q. ASSUME configMap' \in ConfigMapData \cup {NoConfigMap}, changes' \in 0..MaxChanges,
             foreign' \in 0..MaxForeign, events' \in Seq(Events),
             handler' \in {"idle", "writing", "sending"}, cfg' \in Configs, newCfg' \in Configs
      PROVE  WatcherTypeOK'
  BY <1>q DEF WatcherTypeOK
<1>e. \A t \in EventTypes, b \in BOOLEAN, d \in ConfigMapData : Event(t, b, d) \in Events
  BY DEF Event
<1>y. {"add", "update", "delete", "deletedFinalStateUnknown"} \subseteq EventTypes
      /\ Malformed \in ConfigMapData
  BY DEF EventTypes, ConfigMapData
<1>h. events # <<>> => Head(events).data \in ConfigMapData
  <2>1. events # <<>> => Head(events) \in Events
    <3> HIDE DEF Events
    <3> QED
      BY <1>t
  <2> QED
    BY <2>1
<1> HIDE DEF Events
<1>a. \A e \in Events : Append(events, e) \in Seq(Events)
  BY <1>t
<1>l. events # <<>> => Tail(events) \in Seq(Events)
  BY <1>t
<1>n. ASSUME NEW t \in EventTypes, NEW b \in BOOLEAN, NEW d \in ConfigMapData,
             events' = Append(events, Event(t, b, d))
      PROVE  events' \in Seq(Events)
  BY <1>n, <1>a, <1>e, Zenon
(* Whatever is torn is still a configuration. *)
<1>m. ASSUME NEW c \in Configs, NEW d \in Mixed(cfg, c) PROVE d \in Configs
  BY <1>m, <1>t DEF Mixed, Configs
<1>s. ASSUME NEW c \in Configs, BeginSave(c), events # <<>> PROVE WatcherTypeOK'
  BY <1>s, <1>t, <1>q, <1>l, <1>m DEF BeginSave, configMapVars
<1>1. CASE SaveConfig
  <2>1. Head(events).data \in Configs
    BY <1>1, <1>h, ChecksAssumption DEF SaveConfig, Handles, ConfigMapData
  <2> QED
    BY <2>1, <1>1, <1>s DEF SaveConfig, Handles
<1>2. CASE IgnoreEvent
  BY <1>2, <1>t, <1>q, <1>l DEF IgnoreEvent, Handles, configMapVars
<1>3. CASE SaveDefault
  BY <1>3, <1>s, WatcherAssumption DEF SaveDefault, Handles
<1>4. CASE EndSave
  BY <1>4, <1>t, <1>q DEF EndSave, configMapVars
<1>5. ASSUME NEW d \in ConfigMapData, PutConfigMap(d) PROVE WatcherTypeOK'
  <2>1. events' \in Seq(Events)
    <3>1. \E t \in {"add", "update"} : events' = Append(events, Event(t, TRUE, d))
      BY <1>5 DEF PutConfigMap
    <3> QED
      BY <3>1, <1>n, <1>y
  <2> QED
    BY <2>1, <1>5, <1>t, <1>q, WatcherAssumption DEF PutConfigMap
<1>6. CASE DeleteConfigMap
  <2>1. events' \in Seq(Events)
    <3>1. configMap \in ConfigMapData
      BY <1>6, <1>t DEF DeleteConfigMap
    <3>2. PICK t \in {"delete", "deletedFinalStateUnknown"} :
            events' = Append(events, Event(t, TRUE, configMap))
      BY <1>6 DEF DeleteConfigMap
    <3> QED
      BY <3>1, <3>2, <1>n, <1>y
  <2> QED
    BY <2>1, <1>6, <1>t, <1>q, WatcherAssumption DEF DeleteConfigMap
<1>7. CASE ForeignChange
  <2>1. events' \in Seq(Events)
    <3>1. PICK t \in {"update", "delete"} : events' = Append(events, Event(t, FALSE, Malformed))
      BY <1>7 DEF ForeignChange
    <3> QED
      BY <3>1, <1>n, <1>y
  <2> QED
    BY <2>1, <1>7, <1>t, <1>q, WatcherAssumption DEF ForeignChange
<1> QED
  BY <1>1, <1>2, <1>3, <1>4, <1>5, <1>6, <1>7

(* Every step of the operator is a step of one of its goroutines or of the  *)
(* world it runs in.                                                       *)
LEMMA OperatorSteps ==
  ASSUME [OperatorNext]_opVars
  PROVE  \/ OwnStep /\ UNCHANGED <<configMapVars, watcherVars, updaterVars, restarts>> /\ Recorded
         \/ LookForConfigUpdates
         \/ /\ \/ SaveConfig \/ IgnoreEvent \/ SaveDefault \/ EndSave
               \/ \E d \in ConfigMapData : PutConfigMap(d)
               \/ DeleteConfigMap \/ ForeignChange
            /\ UNCHANGED <<vars, updaterVars, restarts>> /\ Recorded
         \/ StartAgain /\ restarts' \in {restarts, restarts + 1} /\ (restarts' # restarts => restarts < MaxRestarts)
         \/ UNCHANGED opVars
  BY DEF OperatorNext, ReconcilerRound, ReconcilerStop, WatcherStep, HandlerPanics, Restart,
         Environment, BesideReconciler, BesideWatcher, OwnStep

(* Every step of the operator keeps the types. *)
LEMMA OperatorTypeStep == OperatorTypeInv /\ [OperatorNext]_opVars => OperatorTypeInv'
<1> SUFFICES ASSUME OperatorTypeInv, [OperatorNext]_opVars PROVE OperatorTypeInv'
  OBVIOUS
<1>t. /\ TypeInv /\ WatcherTypeOK /\ config \in Configs /\ unpublished \subseteq Fields
      /\ unreset \subseteq Metered /\ restarts \in 0..MaxRestarts
      /\ updater \in {"wait", "read", "init", "publish", "reset", "stopped"}
      /\ configMap \in ConfigMapData \cup {NoConfigMap} /\ cfg \in Configs
  BY DEF OperatorTypeInv, OperatorTypeOK, TypeInv, WatcherTypeOK
<1>b. raced \in BOOLEAN
  BY Zenon DEF OperatorTypeInv, OperatorTypeOK
<1>r. Recorded => raced' \in BOOLEAN
  BY <1>b, Zenon DEF Recorded
<1> DEFINE UpdaterOK == /\ updater \in {"wait", "read", "init", "publish", "reset", "stopped"}
                        /\ config \in Configs /\ unpublished \subseteq Fields
                        /\ unreset \subseteq Metered /\ restarts \in 0..MaxRestarts
<1>q. ASSUME TypeInv', WatcherTypeOK', UpdaterOK', raced' \in BOOLEAN PROVE OperatorTypeInv'
  BY <1>q, Zenon DEF OperatorTypeInv, OperatorTypeOK, TypeInv
<1>w. UNCHANGED <<configMapVars, watcherVars>> => WatcherTypeOK'
  BY <1>t DEF configMapVars, watcherVars, WatcherTypeOK
<1>u. UNCHANGED <<updaterVars, restarts>> => UpdaterOK'
  BY <1>t DEF updaterVars
<1>v. UNCHANGED vars => TypeInv'
  BY <1>t, TypeStep
<1>1. CASE OwnStep /\ UNCHANGED <<configMapVars, watcherVars, updaterVars, restarts>> /\ Recorded
  <2>1. TypeInv'
    BY <1>1, <1>t, OwnTypes
  <2> QED
    BY <2>1, <1>1, <1>w, <1>u, <1>r, <1>q
<1>2. CASE LookForConfigUpdates
  <2>1. TypeInv'
    BY <1>2, UpdaterTypes
  <2>2. WatcherTypeOK'
    BY <1>2, <1>t, <1>w
    DEF LookForConfigUpdates, ConfigChanged, ReadConfig, InitRegistryFails, InitRegistry, Publish,
        DrainCache, ResetMetric, EndUpdate, StopUpdates, WatcherTypeOK, configMapVars
  <2>3. UpdaterOK'
    BY <1>2, <1>t
    DEF LookForConfigUpdates, ConfigChanged, ReadConfig, InitRegistryFails, InitRegistry, Publish,
        DrainCache, ResetMetric, EndUpdate, StopUpdates, Beside
  <2>4. Recorded
    BY <1>2
    DEF LookForConfigUpdates, ConfigChanged, ReadConfig, InitRegistryFails, InitRegistry, Publish,
        DrainCache, ResetMetric, EndUpdate, StopUpdates, Beside
  <2> QED
    BY <2>1, <2>2, <2>3, <2>4, <1>r, <1>q
<1>3. CASE /\ \/ SaveConfig \/ IgnoreEvent \/ SaveDefault \/ EndSave
              \/ \E d \in ConfigMapData : PutConfigMap(d)
              \/ DeleteConfigMap \/ ForeignChange
           /\ UNCHANGED <<vars, updaterVars, restarts>> /\ Recorded
  BY <1>3, <1>t, WatcherTypes, <1>v, <1>u, <1>r, <1>q
<1>4. CASE /\ StartAgain /\ restarts' \in {restarts, restarts + 1}
           /\ (restarts' # restarts => restarts < MaxRestarts)
  <2>1. TypeInv'
    BY <1>4, StartTypes
  <2>2. WatcherTypeOK'
    BY <1>4, <1>t, FirstEvent, WatcherAssumption
    DEF StartAgain, WatcherStart, WatcherTypeOK, configMapVars
  <2>3. UpdaterOK'
    BY <1>4, <1>t, WatcherAssumption, OperatorAssumption DEF StartAgain, UpdaterStart
  <2>4. raced' \in BOOLEAN
    BY <1>4, Zenon DEF StartAgain
  <2> QED
    BY <2>1, <2>2, <2>3, <2>4, <1>q
<1>5. CASE UNCHANGED opVars
  <2>1. raced' \in BOOLEAN
    BY <1>5, <1>b, Zenon DEF opVars
  <2> QED
    BY <2>1, <1>5, <1>v, <1>w, <1>u, <1>q DEF opVars
<1> QED
  BY <1>1, <1>2, <1>3, <1>4, <1>5, OperatorSteps

(* The types of everything the three goroutines share survive every step    *)
(* of theirs, torn reads, panics and restarts.                             *)
THEOREM OperatorTypeCorrect == OperatorSpec => []OperatorTypeOK
<1>1. OperatorTypeInv => OperatorTypeOK
  BY DEF OperatorTypeInv
<1> QED
  BY OperatorTypeInit, OperatorTypeStep, <1>1, PTL DEF OperatorSpec

-----------------------------------------------------------------------------
(***************************************************************************)
(* The configuration in force.                                             *)
(***************************************************************************)

(* What InitRegistry has assigned already is of the new configuration, the  *)
(* header of a slice before the slice; before and after, the engine runs    *)
(* one configuration.                                                      *)
PublishInv ==
    /\ updater # "publish" => unpublished = {}
    /\ ConsistentConfig
    /\ updater = "publish" =>
         /\ "registry" \notin unpublished => registry = RegistryFor(config)
         /\ "registeredChecks" \notin unpublished => registeredChecks = getValidChecks(config)
         /\ "enabledChecks" \notin unpublished =>
              enabledChecks = getValidChecks(config) /\ "header" \notin unpublished

(* Only the updater changes the configuration of a running engine. *)
LEMMA OwnKeepsConfig == OwnStep => UNCHANGED engineConfigVars
  BY DEF OwnStep, Round, Group, Discover, DiscoverFails, Tick, Stop, Cancel, ListNamespaces,
         ListFails, BeginNamespace, ListKind, GroupObjects, SkipValidatedGroup, ConversionFails,
         BeginGroup, SeeGroup, RunLint, ProcessReport, StoreObject, EndNamespace,
         handleResourceDeletions, ClusterStep, RunLintFails, ProcessReportFails,
         engineVars, engineConfigVars

(* Every step keeps track of which configuration the fields come from. *)
LEMMA PublishStep == PublishInv /\ [OperatorNext]_opVars => PublishInv'
<1> SUFFICES ASSUME PublishInv, [OperatorNext]_opVars PROVE PublishInv'
  OBVIOUS
<1> USE DEF PublishInv, ConsistentConfig
<1>u. ASSUME UNCHANGED <<engineConfigVars, updaterVars>> PROVE PublishInv'
  BY <1>u DEF engineConfigVars, updaterVars
<1>1. CASE OwnStep /\ UNCHANGED <<configMapVars, watcherVars, updaterVars, restarts>> /\ Recorded
  BY <1>1, <1>u, OwnKeepsConfig
<1>2. CASE LookForConfigUpdates
  <2>1. CASE ConfigChanged \/ ReadConfig \/ InitRegistryFails \/ EndUpdate \/ StopUpdates
    BY <2>1
    DEF ConfigChanged, ReadConfig, InitRegistryFails, EndUpdate, StopUpdates, engineVars
  <2>2. CASE InitRegistry
    BY <2>2 DEF InitRegistry, engineVars, Fields
  <2>3. ASSUME NEW f \in unpublished, Publish(f) PROVE PublishInv'
    <3>1. updater = "publish" /\ updater' = "publish" /\ unpublished' = unpublished \ {f}
          /\ UNCHANGED config
      BY <2>3 DEF Publish
    <3>2. CASE f = "registry"
      BY <3>1, <3>2, <2>3 DEF Publish
    <3>3. CASE f = "registeredChecks"
      BY <3>1, <3>3, <2>3 DEF Publish
    <3>4. CASE f = "enabledChecks"
      <4>1. enabledChecks' = getValidChecks(config) /\ "header" \notin unpublished
        BY <3>4, <2>3 DEF Publish
      <4> QED
        BY <3>1, <3>4, <4>1, <2>3 DEF Publish
    <3>5. CASE f \notin {"registry", "registeredChecks", "enabledChecks"}
      <4>1. UNCHANGED <<registry, registeredChecks>>
        BY <3>5, <2>3 DEF Publish
      <4>2. CASE f = "header"
        BY <3>1, <4>1, <4>2
      <4>3. CASE f # "header"
        <5>1. enabledChecks' = enabledChecks
          BY <3>5, <4>3, <2>3 DEF Publish
        <5> QED
          BY <3>1, <3>5, <4>1, <5>1
      <4> QED
        BY <4>2, <4>3
    <3> QED
      BY <3>2, <3>3, <3>4, <3>5
  <2>4. CASE DrainCache
    <3>1. getValidChecks(config) \subseteq RegistryFor(config)
      BY DEF getValidChecks
    <3> QED
      BY <2>4, <3>1 DEF DrainCache, engineVars
  <2>5. ASSUME NEW c \in unreset, ResetMetric(c) PROVE PublishInv'
    BY <2>5 DEF ResetMetric, engineConfigVars
  <2> QED
    BY <1>2, <2>1, <2>2, <2>3, <2>4, <2>5 DEF LookForConfigUpdates
<1>3. CASE UNCHANGED <<vars, updaterVars, restarts>>
  BY <1>3, <1>u DEF vars, engineVars, engineConfigVars
<1>4. CASE StartAgain
  <2>1. PICK c \in Config : /\ registry' = RegistryFor(c) /\ enabledChecks' = getValidChecks(c)
                            /\ registeredChecks' = getValidChecks(c)
    BY <1>4 DEF StartAgain, EngineStart
  <2> QED
    BY <2>1, <1>4 DEF StartAgain, UpdaterStart, getValidChecks
<1>5. CASE UNCHANGED opVars
  BY <1>5, <1>u DEF opVars, vars, engineVars, engineConfigVars
<1> QED
  BY <1>1, <1>2, <1>3, <1>4, <1>5, OperatorSteps

(* Outside the three assignments at the end of InitRegistry the engine runs *)
(* one configuration: whatever was rejected, torn or overtaken by another   *)
(* ConfigMap event left nothing of itself behind.                          *)
THEOREM ConfigIsConsistent == OperatorSpec => []ConsistentConfig
<1>1. OperatorInit => PublishInv
  BY DEF OperatorInit, EngineInit, UpdaterInit, PublishInv, ConsistentConfig, getValidChecks
<1>2. PublishInv => ConsistentConfig
  BY DEF PublishInv
<1> QED
  BY <1>1, <1>2, PublishStep, PTL DEF OperatorSpec

-----------------------------------------------------------------------------
(***************************************************************************)
(* Updates hide no failure unless they race with a group.                  *)
(***************************************************************************)

(* Until a race happened: the cache invariant of Reconciler holds while no  *)
(* update is published or applied; meanwhile no group is in validation, so  *)
(* that nothing is stored, and after the drain the cache is empty.          *)
RaceInv ==
    /\ Overlap => raced
    /\ ~raced =>
         /\ ListedOnce /\ CachedOnce /\ GroupEntries
         /\ updater \notin {"publish", "reset"} => ReportsPending /\ NoFailureHidden
         /\ updater = "reset" => \A k \in Key : cache[k] = NoEntry

(* Without a group in validation a step stores nothing, whatever            *)
(* configuration is in force: the listing and the entries stay true.        *)
LEMMA QuietStep ==
  ASSUME TypeInv, ListedOnce, CachedOnce, [Next]_vars, pc \notin {"lint", "report"}
  PROVE  /\ ListedOnce' /\ CachedOnce'
         /\ \A k \in Key : cache'[k] \in {cache[k], NoEntry}
<1>t. cache \in ValidationCaches
  BY DEF TypeInv, TypeOK
<1>1. \A k \in Key : cache'[k] \in {cache[k], NoEntry}
  BY CacheEffect DEF StoreObject
<1>2. CachedOnce'
  <2> SUFFICES ASSUME NEW o \in Object, NEW u \in NsUid PROVE cache'[<<o, u>>] <= rv'[o]
    BY DEF CachedOnce
  <2>1. /\ <<o, u>> \in Key /\ cache[<<o, u>>] <= rv[o]
        /\ cache[<<o, u>>] \in Nat
    BY <1>t, ClusterAssumption DEF Key, CachedOnce, ValidationCaches
  <2>2. rv[o] \in Nat /\ rv'[o] \in Nat /\ rv[o] <= rv'[o]
    BY WritesMoveOn
  <2> QED
    BY <2>1, <2>2, <1>1
<1> QED
  BY <1>1, <1>2, ListedOnceStep

(* The reconciler, the cluster and a shutdown. *)
LEMMA RaceOwn ==
  ASSUME TypeInv, RaceInv, OwnStep, UNCHANGED updaterVars, Recorded, ~raced'
  PROVE  /\ ListedOnce' /\ CachedOnce' /\ GroupEntries'
         /\ updater' \notin {"publish", "reset"} => ReportsPending' /\ NoFailureHidden'
         /\ updater' = "reset" => \A k \in Key : cache'[k] = NoEntry
<1>1. ~raced /\ ~Overlap /\ ~Overlap' /\ updater' = updater
  BY DEF Recorded, RaceInv, updaterVars
<1>t. ListedOnce /\ CachedOnce /\ GroupEntries
  BY <1>1 DEF RaceInv
<1>2. CASE updater \notin {"publish", "reset"}
  <2>1. CacheInv
    BY <1>1, <1>2 DEF RaceInv, CacheInv
  <2>2. CASE Round \/ Stop \/ ClusterStep \/ Cancel
    <3>1. CacheInv'
      BY <2>1, <2>2, CacheStep DEF Next
    <3> QED
      BY <3>1, <1>1, <1>2 DEF CacheInv
  <2>3. CASE RunLintFails \/ \E r \in reports : ProcessReportFails(r)
    <3>1. LeaveRound /\ UNCHANGED <<clusterVars, engineVars, cache>>
      BY <2>3, FailureEffect
    <3>2. ListedOnce' /\ GroupEntries' /\ ReportsPending'
      BY <3>1, CacheLeave
    <3>3. CachedOnce' /\ NoFailureHidden'
      BY <3>1, <2>1, HidesNothing DEF CacheInv, engineVars, engineConfigVars
    <3> QED
      BY <3>2, <3>3, <1>1, <1>2
  <2> QED
    BY <2>2, <2>3 DEF OwnStep
<1>3. CASE updater \in {"publish", "reset"}
  <2>1. pc \notin {"lint", "report"} /\ pc' \notin {"lint", "report"}
    BY <1>1, <1>3 DEF Overlap
  <2>2. [Next]_vars
    BY <2>1 DEF OwnStep, Next, RunLintFails, ProcessReportFails
  <2>3. /\ ListedOnce' /\ CachedOnce'
        /\ \A k \in Key : cache'[k] \in {cache[k], NoEntry}
    BY <2>1, <2>2, <1>t, QuietStep
  <2>4. GroupEntries'
    BY <2>1 DEF GroupEntries
  <2>5. updater = "reset" => \A k \in Key : cache'[k] = NoEntry
    BY <2>3, <1>1 DEF RaceInv
  <2> QED
    BY <2>3, <2>4, <2>5, <1>1, <1>3
<1> QED
  BY <1>2, <1>3

(* An empty cache hides nothing. *)
LEMMA EmptyHidesNothing ==
  ASSUME ClusterTypeOK', \A k \in Key : cache'[k] = NoEntry PROVE CachedOnce' /\ NoFailureHidden'
<1>1. \A o \in Object, u \in NsUid : cache'[<<o, u>>] = 0 /\ rv'[o] \in Nat
  BY ClusterAssumption DEF Key, ClusterTypeOK
<1>2. CachedOnce'
  <2> SUFFICES ASSUME NEW o \in Object, NEW u \in NsUid PROVE cache'[<<o, u>>] <= rv'[o]
    BY DEF CachedOnce
  <2> QED
    BY <1>1
<1> QED
  BY <1>1, <1>2 DEF NoFailureHidden, Cached, has

(* A new process has listed nothing and cached nothing. *)
LEMMA StartsClean ==
  ASSUME ClusterTypeOK', pc' = "discover", listed' = NothingListed,
         \A k \in Key : cache'[k] = NoEntry
  PROVE  CacheInv'
<1>1. ListedOnce'
  BY NothingIsListed DEF ListedOnce, Listed
<1> QED
  BY <1>1, EmptyHidesNothing DEF CacheInv, GroupEntries, ReportsPending

(* Every step keeps the race invariant. *)
LEMMA RaceStep == OperatorTypeInv /\ RaceInv /\ [OperatorNext]_opVars => RaceInv'
<1> SUFFICES ASSUME OperatorTypeInv, RaceInv, [OperatorNext]_opVars PROVE RaceInv'
  OBVIOUS
<1>t. TypeInv /\ TypeInv'
  BY OperatorTypeStep DEF OperatorTypeInv, OperatorTypeOK, TypeInv
<1> DEFINE Good == /\ ListedOnce /\ CachedOnce /\ GroupEntries
                   /\ updater \notin {"publish", "reset"} => ReportsPending /\ NoFailureHidden
                   /\ updater = "reset" => \A k \in Key : cache[k] = NoEntry
<1>q. ASSUME Recorded, ~raced' => Good' PROVE RaceInv'
  BY <1>q DEF RaceInv, Recorded
<1>r. ASSUME Recorded, ~raced' PROVE ~raced /\ ~Overlap /\ ~Overlap' /\ Good
  BY <1>r DEF RaceInv, Recorded
<1>1. CASE OwnStep /\ UNCHANGED <<configMapVars, watcherVars, updaterVars, restarts>> /\ Recorded
  BY <1>1, <1>t, <1>q, RaceOwn
<1>v. ASSUME UNCHANGED vars, Good, updater \notin {"publish", "reset"} PROVE CacheInv'
  BY <1>v, <1>t, CacheStep DEF CacheInv
<1>2. CASE LookForConfigUpdates
  <2>r. Recorded /\ UNCHANGED <<clusterVars, pc, roundVars>>
    BY <1>2
    DEF LookForConfigUpdates, ConfigChanged, ReadConfig, InitRegistryFails, InitRegistry, Publish,
        DrainCache, ResetMetric, EndUpdate, StopUpdates, Beside
  <2>l. Good /\ UNCHANGED cache => ListedOnce' /\ CachedOnce' /\ GroupEntries'
    BY <2>r DEF ListedOnce, CachedOnce, GroupEntries, Listed, Live, nsId, clusterVars, roundVars
  <2>1. CASE ConfigChanged \/ ReadConfig \/ InitRegistryFails \/ InitRegistry \/ StopUpdates
    <3>1. /\ UNCHANGED vars /\ updater \notin {"publish", "reset"} /\ updater' # "reset"
      BY <2>1
      DEF ConfigChanged, ReadConfig, InitRegistryFails, InitRegistry, StopUpdates, Beside, vars,
          reconcilerVars
    <3>2. ~raced' => Good'
      BY <3>1, <2>r, <1>r, <1>v DEF CacheInv
    <3> QED
      BY <3>2, <2>r, <1>q
  <2>2. CASE \E f \in unpublished : Publish(f)
    <3>1. updater' = "publish" /\ UNCHANGED cache
      BY <2>2 DEF Publish
    <3> QED
      BY <3>1, <2>l, <2>r, <1>r, <1>q
  <2>3. CASE DrainCache
    <3>1. updater' = "reset" /\ \A k \in Key : cache'[k] = NoEntry
      BY <2>3 DEF DrainCache, drain, newValidationCache
    <3>2. CachedOnce'
      BY <3>1, <1>t, EmptyHidesNothing DEF TypeInv, TypeOK
    <3>3. ASSUME ~raced' PROVE ListedOnce' /\ GroupEntries'
      <4>1. ~Overlap' /\ ListedOnce
        BY <3>3, <2>r, <1>r
      <4>2. GroupEntries'
        BY <4>1, <3>1 DEF Overlap, GroupEntries
      <4>3. ListedOnce'
        BY <4>1, <2>r DEF ListedOnce, Listed, Live, clusterVars, roundVars
      <4> QED
        BY <4>2, <4>3
    <3> QED
      BY <3>1, <3>2, <3>3, <2>r, <1>q
  <2>4. CASE \E c \in unreset : ResetMetric(c)
    <3>1. updater = "reset" /\ updater' = "reset" /\ UNCHANGED cache
      BY <2>4 DEF ResetMetric
    <3> QED
      BY <3>1, <2>l, <2>r, <1>r, <1>q
  <2>5. CASE EndUpdate
    <3>1. updater = "reset" /\ updater' = "wait" /\ UNCHANGED cache
      BY <2>5 DEF EndUpdate
    <3>2. ASSUME ~raced' PROVE ReportsPending' /\ NoFailureHidden'
      <4>1. ~Overlap /\ \A k \in Key : cache'[k] = NoEntry
        BY <3>1, <3>2, <2>r, <1>r
      <4>2. NoFailureHidden'
        BY <4>1, <1>t, EmptyHidesNothing DEF TypeInv, TypeOK
      <4>3. pc' \notin {"lint", "report"}
        BY <4>1, <3>1, <2>r DEF Overlap
      <4> QED
        BY <4>2, <4>3 DEF ReportsPending
    <3> QED
      BY <3>1, <3>2, <2>l, <2>r, <1>r, <1>q
  <2> QED
    BY <1>2, <2>1, <2>2, <2>3, <2>4, <2>5 DEF LookForConfigUpdates
<1>3. ASSUME UNCHANGED <<vars, updaterVars>>, Recorded PROVE RaceInv'
  <2>1. UNCHANGED <<pc, cache, updater, listed, clusterVars, nsId>>
    BY <1>3 DEF vars, updaterVars, reconcilerVars, roundVars, nsId
  <2>2. ASSUME ~raced' PROVE Good'
    <3>1. CASE updater \notin {"publish", "reset"}
      BY <3>1, <2>1, <2>2, <1>3, <1>r, <1>v DEF CacheInv
    <3>2. CASE updater \in {"publish", "reset"}
      <4>1. pc' \notin {"lint", "report"} /\ Good
        BY <3>2, <2>1, <2>2, <1>3, <1>r DEF Overlap
      <4>2. ListedOnce' /\ CachedOnce' /\ GroupEntries'
        BY <4>1, <2>1 DEF ListedOnce, CachedOnce, GroupEntries, Listed, Live, clusterVars
      <4> QED
        BY <4>1, <4>2, <3>2, <2>1
    <3> QED
      BY <3>1, <3>2
  <2> QED
    BY <2>2, <1>3, <1>q
<1>4. CASE StartAgain
  <2>1. /\ pc' = "discover" /\ listed' = NothingListed /\ updater' = "wait"
        /\ \A k \in Key : cache'[k] = NoEntry
    BY <1>4 DEF StartAgain, ReconcilerStart, ClearRound, UpdaterStart, newValidationCache
  <2>2. CacheInv'
    BY <2>1, <1>t, StartsClean DEF TypeInv, TypeOK
  <2> QED
    BY <2>1, <2>2 DEF RaceInv, CacheInv, Overlap
<1>5. CASE UNCHANGED opVars
  <2>1. UNCHANGED <<vars, updaterVars, raced>>
    BY <1>5 DEF opVars
  <2>2. Overlap' => raced'
    BY <2>1 DEF RaceInv, Overlap, vars, updaterVars, reconcilerVars
  <2>3. ASSUME ~raced' PROVE Good'
    <3>1. /\ ~raced /\ ~Overlap /\ Good
          /\ UNCHANGED <<pc, cache, updater, listed, members, clusterVars, nsId>>
      BY <2>1, <2>3 DEF RaceInv, vars, updaterVars, reconcilerVars, roundVars, nsId
    <3>2. CASE updater \notin {"publish", "reset"}
      BY <3>1, <3>2, <2>1, <1>v DEF CacheInv
    <3>3. CASE updater \in {"publish", "reset"}
      <4>1. ListedOnce' /\ CachedOnce' /\ GroupEntries'
        BY <3>1 DEF ListedOnce, CachedOnce, GroupEntries, Listed, Live, clusterVars
      <4> QED
        BY <3>1, <3>3, <4>1
    <3> QED
      BY <3>2, <3>3
  <2> QED
    BY <2>2, <2>3 DEF RaceInv
<1> QED
  BY <1>1, <1>2, <1>3, <1>4, <1>5, OperatorSteps

(* The process starts without a race and with an empty cache. *)
LEMMA RaceInit == OperatorInit => RaceInv
<1> SUFFICES ASSUME OperatorInit PROVE RaceInv
  OBVIOUS
<1>1. CacheInv /\ updater = "wait"
  BY StartsAsReconciler, CacheInit DEF OperatorInit, UpdaterInit
<1> QED
  BY <1>1 DEF RaceInv, CacheInv, Overlap

(* An update of the configuration hides no failure of the cluster, unless   *)
(* it was published, drained or reset while a group was between its run of  *)
(* kube-linter and the storing of its outcomes: the race of                 *)
(* LookForConfigUpdates with reconcileGroupOfObjects is the only one.       *)
THEOREM OnlyRacesHide == OperatorSpec => []HiddenOnlyByRace
<1>1. RaceInv => HiddenOnlyByRace
  BY DEF RaceInv, HiddenOnlyByRace
<1> QED
  BY OperatorTypeInit, OperatorTypeStep, RaceInit, RaceStep, <1>1, PTL DEF OperatorSpec
-----------------------------------------------------------------------------
(***************************************************************************)
(* Updates leave no orphan unless they race with a group.                  *)
(***************************************************************************)

(* Until a race happened: the reports in process are of the configuration   *)
(* in force, so that no round is given up for an unknown check; between the *)
(* drain and the end of the resets every series is of a vector still to be  *)
(* reset.                                                                  *)
OrphanInv ==
    /\ ManifestsGiven
    /\ ~raced =>
         /\ GroupInProcess
         /\ \A r \in reports : r.check \in enabledChecks
         /\ updater # "reset" => SeriesTracked
         /\ updater = "reset" => \A s \in metrics : s.check \in unreset

(* Where no group is validated, no step adds a series. *)
LEMMA TrackQuiet ==
  ASSUME TypeInv, GroupInProcess, [Next]_vars,
         pc \notin {"lint", "report"}, pc' \notin {"lint", "report"}
  PROVE  GroupInProcess' /\ metrics' \subseteq metrics
<1>1. members = {} /\ reports = {}
  BY DEF GroupInProcess
<1>q. ASSUME members' = {}, reports' = {} PROVE GroupInProcess'
  BY <1>q DEF GroupInProcess
<1>2. CASE LeaveRound /\ metrics' \subseteq metrics
  BY <1>2, <1>q DEF LeaveRound, ClearRound
<1>3. CASE UNCHANGED <<engineVars, members, reports>>
  BY <1>3, <1>1, <1>q DEF engineVars
<1>4. CASE ListFails \/ handleResourceDeletions
  BY <1>4, <1>2 DEF ListFails, handleResourceDeletions, engineVars
<1>5. ASSUME NEW l \in LabelSet, Group(l) PROVE GroupInProcess' /\ metrics' \subseteq metrics
  BY <1>5, <1>2, <1>3
  DEF Group, SkipValidatedGroup, ConversionFails, BeginGroup, SeeGroup, engineVars
<1>6. CASE \/ Discover \/ DiscoverFails \/ Tick \/ Stop \/ Cancel \/ ListNamespaces \/ ListKind
           \/ GroupObjects \/ EndNamespace \/ ClusterStep
           \/ (\E n \in Namespace : BeginNamespace(n)) \/ UNCHANGED vars
  BY <1>6, <1>3
  DEF Discover, DiscoverFails, Tick, Stop, Cancel, ListNamespaces, ListKind, GroupObjects,
      EndNamespace, ClusterStep, BeginNamespace, vars, reconcilerVars, roundVars
<1> QED
  BY <1>4, <1>5, <1>6 DEF Next, Round, RunLint, ProcessReport, StoreObject

(* While no update is published the engine knows every check it runs. *)
LEMMA KnownWhenSettled ==
  ASSUME ConsistentConfig, updater # "publish", \A r \in reports : r.check \in enabledChecks
  PROVE  KnownInv
  BY DEF ConsistentConfig, KnownInv

(* Then the failures that Reconciler's Next leaves out cannot happen. *)
LEMMA NoOtherFailure ==
  ASSUME KnownInv, OwnStep PROVE [Next]_vars
<1>1. ~RunLintFails
  BY DEF KnownInv, RunLintFails, RunSucceeds
<1>2. \A r \in reports : ~ProcessReportFails(r)
  BY DEF KnownInv, ProcessReportFails
<1> QED
  BY <1>1, <1>2 DEF OwnStep, Next

(* Nor do they list anything. *)
LEMMA OwnGives ==
  ASSUME TypeInv, ManifestsGiven, OwnStep PROVE ManifestsGiven'
<1>1. CASE Round \/ Stop \/ ClusterStep \/ Cancel
  BY <1>1, GivenStep DEF Next
<1>2. CASE RunLintFails \/ \E r \in reports : ProcessReportFails(r)
  <2>1. listed' = NothingListed /\ UNCHANGED clusterVars
    BY <1>2, FailureEffect DEF LeaveRound, ClearRound
  <2> QED
    BY <2>1, NothingIsListed DEF clusterVars, ManifestsGiven, Live, Listed
<1> QED
  BY <1>1, <1>2 DEF OwnStep

(* The reconciler, the cluster and a shutdown. *)
LEMMA OrphanOwn ==
  ASSUME AllConvert, TypeInv, PublishInv, RaceInv, OrphanInv, OwnStep,
         UNCHANGED updaterVars, Recorded
  PROVE  OrphanInv'
<1>m. ManifestsGiven'
  BY OwnGives DEF OrphanInv
<1> SUFFICES ASSUME ~raced'
             PROVE  /\ GroupInProcess'
                    /\ (\A r \in reports : r.check \in enabledChecks)'
                    /\ updater' # "reset" => SeriesTracked'
                    /\ updater' = "reset" => \A s \in metrics' : s.check \in unreset'
  BY <1>m DEF OrphanInv
<1>1. ~raced /\ ~Overlap /\ ~Overlap' /\ updater' = updater /\ unreset' = unreset
  BY DEF Recorded, RaceInv, updaterVars
<1>i. /\ ManifestsGiven /\ GroupInProcess
      /\ \A r \in reports : r.check \in enabledChecks
      /\ updater # "reset" => SeriesTracked
      /\ updater = "reset" => \A s \in metrics : s.check \in unreset
  BY <1>1 DEF OrphanInv
<1>2. CASE updater \notin {"publish", "reset"}
  <2>1. KnownInv
    BY <1>2, <1>i, KnownWhenSettled DEF PublishInv
  <2>2. [Next]_vars
    BY <2>1, NoOtherFailure
  <2>3. TrackInv'
    BY <1>2, <1>i, <2>2, TrackStep DEF TrackInv
  <2>4. KnownInv'
    BY <2>1, <2>2, KnownStep
  <2> QED
    BY <1>1, <1>2, <2>3, <2>4 DEF TrackInv, KnownInv
<1>3. CASE updater \in {"publish", "reset"}
  <2>1. pc \notin {"lint", "report"} /\ pc' \notin {"lint", "report"}
    BY <1>1, <1>3 DEF Overlap
  <2>2. [Next]_vars
    BY <2>1 DEF OwnStep, Next, RunLintFails, ProcessReportFails
  <2>3. GroupInProcess' /\ metrics' \subseteq metrics
    BY <1>i, <2>1, <2>2, TrackQuiet
  <2>4. reports' = {}
    BY <2>1, <2>3 DEF GroupInProcess
  <2>5. updater # "reset" => SeriesTracked'
    BY <1>i, <2>2, TrackStep DEF TrackInv
  <2> QED
    BY <1>1, <1>i, <2>3, <2>4, <2>5
<1> QED
  BY <1>2, <1>3

(* Every step keeps the series tracked or about to be reset. *)
LEMMA OrphanStep ==
  ASSUME AllConvert
  PROVE  OperatorTypeInv /\ PublishInv /\ RaceInv /\ OrphanInv /\ [OperatorNext]_opVars => OrphanInv'
<1> SUFFICES ASSUME OperatorTypeInv, PublishInv, RaceInv, OrphanInv, [OperatorNext]_opVars
             PROVE  OrphanInv'
  OBVIOUS
<1>t. TypeInv /\ metrics \subseteq AllSeries
  BY DEF OperatorTypeInv, OperatorTypeOK, TypeOK, EngineTypeOK, TypeInv
<1>i. /\ ManifestsGiven
      /\ ~raced => /\ GroupInProcess
                   /\ \A r \in reports : r.check \in enabledChecks
                   /\ updater # "reset" => SeriesTracked
                   /\ updater = "reset" => \A s \in metrics : s.check \in unreset
  BY DEF OrphanInv
<1>q. ASSUME ManifestsGiven',
             ~raced' => /\ GroupInProcess'
                        /\ \A r \in reports' : r.check \in enabledChecks'
                        /\ updater' # "reset" => SeriesTracked'
                        /\ updater' = "reset" => \A s \in metrics' : s.check \in unreset'
      PROVE  OrphanInv'
  BY <1>q DEF OrphanInv
<1>m. UNCHANGED <<clusterVars, listed>> => ManifestsGiven'
  BY <1>i DEF ManifestsGiven, Live, Listed, clusterVars
<1>g. UNCHANGED <<pc, roundVars>> /\ GroupInProcess => GroupInProcess'
  BY DEF GroupInProcess, Listed, roundVars
<1>s. UNCHANGED <<metrics, cache, roundVars>> /\ SeriesTracked => SeriesTracked'
  BY DEF SeriesTracked, nsId, has, roundVars
<1>u. ASSUME UNCHANGED <<clusterVars, engineVars, pc, roundVars, cache, unreset>>,
             updater' = "reset" <=> updater = "reset", ~raced' => ~raced
      PROVE  OrphanInv'
  <2>1. UNCHANGED <<metrics, enabledChecks, reports, listed, clusterVars>>
    BY <1>u DEF engineVars, roundVars
  <2>2. ManifestsGiven' /\ (GroupInProcess => GroupInProcess') /\ (SeriesTracked => SeriesTracked')
    BY <1>u, <2>1, <1>m, <1>g, <1>s
  <2> QED
    BY <1>u, <2>1, <2>2, <1>i, <1>q
<1>1. CASE OwnStep /\ UNCHANGED <<configMapVars, watcherVars, updaterVars, restarts>> /\ Recorded
  BY <1>1, <1>t, OrphanOwn
<1>2. CASE LookForConfigUpdates
  <2>r. Recorded /\ UNCHANGED <<clusterVars, pc, roundVars>>
    BY <1>2
    DEF LookForConfigUpdates, ConfigChanged, ReadConfig, InitRegistryFails, InitRegistry, Publish,
        DrainCache, ResetMetric, EndUpdate, StopUpdates, Beside
  <2>1. CASE ConfigChanged \/ ReadConfig \/ InitRegistryFails \/ InitRegistry \/ StopUpdates
    <3>1. UNCHANGED <<engineVars, cache, unreset>> /\ updater # "reset" /\ updater' # "reset"
      BY <2>1 DEF ConfigChanged, ReadConfig, InitRegistryFails, InitRegistry, StopUpdates
    <3> QED
      BY <3>1, <2>r, <1>u DEF Recorded
  <2>q. ASSUME ~raced'
        PROVE  ~raced /\ ~Overlap /\ ~Overlap' /\ GroupInProcess'
    BY <2>q, <2>r, <1>i, <1>g DEF Recorded, RaceInv
  <2>m. ManifestsGiven'
    BY <2>r, <1>m DEF roundVars
  (* What is published meets no report. *)
  <2>2. CASE \E f \in unpublished : Publish(f)
    <3>1. updater = "publish" /\ updater' = "publish" /\ UNCHANGED <<metrics, cache>>
      BY <2>2 DEF Publish
    <3>2. ASSUME ~raced' PROVE reports' = {} /\ SeriesTracked'
      <4>1. GroupInProcess' /\ pc' \notin {"lint", "report"} /\ SeriesTracked
        BY <3>1, <3>2, <2>q, <1>i DEF Overlap
      <4> QED
        BY <4>1, <3>1, <2>r, <1>s DEF GroupInProcess
    <3> QED
      BY <3>1, <3>2, <2>q, <2>m, <1>i, <1>q
  (* The drained entries and the vectors to reset are all there are. *)
  <2>3. CASE DrainCache
    <3>1. /\ updater' = "reset" /\ unreset' = Metered
          /\ UNCHANGED <<metrics, enabledChecks, reports>>
      BY <2>3, <2>r DEF DrainCache, engineVars, roundVars
    <3>2. \A s \in metrics' : s.check \in unreset'
      BY <3>1, <1>t DEF AllSeries
    <3> QED
      BY <3>1, <3>2, <2>q, <2>m, <1>i, <1>q
  <2>4. ASSUME NEW c \in unreset, ResetMetric(c) PROVE OrphanInv'
    <3>1. /\ updater = "reset" /\ updater' = "reset" /\ unreset' = unreset \ {c}
          /\ metrics' = {s \in metrics : s.check # c} /\ UNCHANGED <<enabledChecks, reports>>
      BY <2>4, <2>r DEF ResetMetric, engineConfigVars, roundVars
    <3> QED
      BY <3>1, <2>q, <2>m, <1>i, <1>q
  (* After the last reset no series is left. *)
  <2>5. CASE EndUpdate
    <3>1. /\ updater = "reset" /\ updater' = "wait" /\ unreset = {}
          /\ UNCHANGED <<metrics, enabledChecks, reports>>
      BY <2>5, <2>r DEF EndUpdate, engineVars, roundVars
    <3>2. ASSUME ~raced' PROVE SeriesTracked'
      <4>1. metrics' = {}
        BY <3>1, <3>2, <2>q, <1>i
      <4> QED
        BY <4>1 DEF SeriesTracked
    <3> QED
      BY <3>1, <3>2, <2>q, <2>m, <1>i, <1>q
  <2> QED
    BY <1>2, <2>1, <2>2, <2>3, <2>4, <2>5 DEF LookForConfigUpdates
<1>3. ASSUME UNCHANGED <<vars, updaterVars>>, Recorded PROVE OrphanInv'
  BY <1>3, <1>u DEF vars, updaterVars, reconcilerVars, Recorded
(* A new process has no series, no group and no listing. *)
<1>4. CASE StartAgain
  <2>1. /\ metrics' = {} /\ members' = {} /\ reports' = {} /\ listed' = NothingListed
        /\ updater' = "wait" /\ UNCHANGED clusterVars
    BY <1>4 DEF StartAgain, EngineStart, ReconcilerStart, ClearRound, UpdaterStart
  <2>2. ManifestsGiven'
    BY <2>1, <1>i, NothingIsListed DEF ManifestsGiven, Live, Listed, clusterVars
  <2>3. GroupInProcess' /\ SeriesTracked'
    BY <2>1 DEF GroupInProcess, SeriesTracked
  <2> QED
    BY <2>1, <2>2, <2>3, <1>q
<1>5. CASE UNCHANGED opVars
  BY <1>5, <1>u DEF opVars, vars, updaterVars, reconcilerVars
<1> QED
  BY <1>1, <1>2, <1>3, <1>4, <1>5, OperatorSteps

(* Where every object converts, an update of the configuration leaves no    *)
(* orphan on the gauges either, unless it met a group in validation: with   *)
(* OnlyRacesHide, the one race of LookForConfigUpdates is what both a       *)
(* failure that is not told and one that is told for ever come from.       *)
THEOREM OnlyRacesOrphan == ASSUME AllConvert PROVE OperatorSpec => []OrphanOnlyByRace
<1>1. OperatorInit => PublishInv
  BY DEF OperatorInit, EngineInit, UpdaterInit, PublishInv, ConsistentConfig, getValidChecks
<1>2. OperatorInit => OrphanInv
  <2> SUFFICES ASSUME OperatorInit PROVE OrphanInv
    OBVIOUS
  <2>1. TrackInv /\ updater = "wait" /\ reports = {}
    BY StartsAsReconciler, TrackInit DEF OperatorInit, UpdaterInit, ReconcilerInit
  <2> QED
    BY <2>1 DEF OrphanInv, TrackInv
<1>3. OrphanInv => OrphanOnlyByRace
  BY DEF OrphanInv, OrphanOnlyByRace
<1> QED
  BY OperatorTypeInit, OperatorTypeStep, PublishStep, RaceInit, RaceStep, OrphanStep,
     <1>1, <1>2, <1>3, PTL DEF OperatorSpec

-----------------------------------------------------------------------------
(***************************************************************************)
(* Not even a race leaves a false alarm on what is cached.                 *)
(***************************************************************************)

(* What the steps of the updater and the handlers leave to the reconciler.  *)
LEMMA ListingBeside ==
  ASSUME TypeInv, ListingInv, UNCHANGED <<clusterVars, pc, roundVars, current>>,
         \A k \in Key : cache'[k] \in {cache[k], NoEntry}
  PROVE  ListingInv'
<1>t. /\ ClusterTypeOK /\ RoundTypeOK /\ InNamespace /\ cache \in ValidationCaches
      /\ members \subseteq Object
  BY DEF TypeInv, TypeOK, RoundTypeOK
<1>i. /\ ListedOnce /\ CachedOnce /\ GroupEntries /\ ObjectsHaveNamespaces /\ ListedHere
      /\ GroupInProcess /\ MembersSeen
  BY DEF ListingInv
<1>u. UNCHANGED <<rv, manifest, nsUid, listed, members, reports, ns, nsId, kind>>
  BY DEF clusterVars, roundVars, nsId
<1>1. ListedOnce' /\ ObjectsHaveNamespaces' /\ GroupInProcess' /\ MembersSeen'
  BY <1>u, <1>i
  DEF ListedOnce, ObjectsHaveNamespaces, GroupInProcess, MembersSeen, Listed, Live, Keys
<1>2. CachedOnce'
  <2> SUFFICES ASSUME NEW o \in Object, NEW u \in NsUid PROVE cache'[<<o, u>>] <= rv[o]
    BY <1>u DEF CachedOnce
  <2>1. <<o, u>> \in Key /\ cache[<<o, u>>] <= rv[o] /\ rv[o] \in Nat
    BY <1>t, <1>i, ClusterAssumption DEF CachedOnce, Key, ClusterTypeOK
  <2> QED
    BY <2>1
<1>n. ASSUME NEW o \in Object, Listed(o) PROVE <<o, nsId>> \in Key
  BY <1>n, <1>t, <1>i, NothingIsListed DEF ListedHere, Listed, InNamespace, RoundTypeOK, nsId, Key
<1>3. GroupEntries'
  <2>1. ASSUME pc \in {"lint", "report"}, NEW o \in members
        PROVE  Listed(o) /\ cache'[<<o, nsId>>] \in {NoEntry, listed[o].rv}
    BY <2>1, <1>n, <1>t, <1>i DEF GroupEntries
  <2> QED
    BY <2>1, <1>u DEF GroupEntries, Listed
<1>4. ListedHere'
  <2>1. ASSUME NEW o \in Object, Listed(o) PROVE cache'[<<o, nsId>>] <= listed[o].rv
    <3>1. cache[<<o, nsId>>] <= listed[o].rv /\ listed[o].rv \in Nat
      BY <2>1, <1>t, <1>i, ClusterAssumption DEF ListedHere, RoundTypeOK
    <3> QED
      BY <2>1, <3>1, <1>n
  <2> QED
    BY <2>1, <1>u, <1>i DEF ListedHere, Listed
<1> QED
  BY <1>1, <1>2, <1>3, <1>4 DEF ListingInv

(* Nor do they tell anything: they drain the cache and reset gauges.       *)
LEMMA AlarmsBeside ==
  ASSUME TypeInv, AlarmInv, UNCHANGED <<clusterVars, pc, roundVars>>, metrics' \subseteq metrics,
         \A k \in Key : cache'[k] \in {cache[k], NoEntry}
  PROVE  AlarmInv'
<1>1. ManifestsGiven'
  BY DEF AlarmInv, ManifestsGiven, Live, Listed, clusterVars, roundVars
<1>2. RunCaused'
  BY DEF AlarmInv, RunCaused, roundVars, nsId
<1>3. AlarmsHaveCauses'
  BY CausesStay DEF AlarmInv
<1> QED
  BY <1>1, <1>2, <1>3 DEF AlarmInv

(* A round given up for an unknown check forgets its group and its reports. *)
LEMMA FailureTellsNothing ==
  ASSUME TypeInv, ListingInv, AlarmInv, RunLintFails \/ \E r \in reports : ProcessReportFails(r)
  PROVE  ListingInv' /\ AlarmInv'
<1>1. LeaveRound /\ UNCHANGED <<clusterVars, engineVars, cache, current>>
  BY FailureEffect
<1>2. /\ pc' = "idle" /\ listed' = NothingListed /\ ns' = NoNamespace
      /\ members' = {} /\ reports' = {}
  BY <1>1, LeftClean
<1>3. \A o \in Object : ~Listed(o)'
  BY <1>2, NothingIsListed DEF Listed
<1>4. CachedOnce' /\ ObjectsHaveNamespaces'
  BY <1>1 DEF ListingInv, CachedOnce, ObjectsHaveNamespaces, Live, clusterVars
<1>5. ListedOnce' /\ GroupEntries' /\ ListedHere' /\ GroupInProcess' /\ MembersSeen'
  BY <1>2, <1>3 DEF ListedOnce, GroupEntries, ListedHere, GroupInProcess, MembersSeen, Keys
<1>6. AlarmsHaveCauses'
  BY <1>1, CausesStay DEF AlarmInv, engineVars
<1>7. ManifestsGiven' /\ RunCaused'
  BY <1>1, <1>2, <1>3 DEF AlarmInv, ManifestsGiven, RunCaused, Live, clusterVars
<1> QED
  BY <1>4, <1>5, <1>6, <1>7 DEF ListingInv, AlarmInv

(* Every step of the operator keeps the causes of its alarms, raced or not. *)
LEMMA OperatorAlarmStep ==
  OperatorTypeInv /\ ListingInv /\ AlarmInv /\ [OperatorNext]_opVars => ListingInv' /\ AlarmInv'
<1> SUFFICES ASSUME OperatorTypeInv, ListingInv, AlarmInv, [OperatorNext]_opVars
             PROVE  ListingInv' /\ AlarmInv'
  OBVIOUS
<1>t. TypeInv
  BY DEF OperatorTypeInv, OperatorTypeOK, TypeInv
<1>c. cache' = cache => \A k \in Key : cache'[k] \in {cache[k], NoEntry}
  OBVIOUS
<1>1. CASE OwnStep
  <2>1. CASE Round \/ Stop \/ ClusterStep \/ Cancel
    BY <2>1, <1>t, ListingStep, AlarmStep DEF Next
  <2>2. CASE RunLintFails \/ \E r \in reports : ProcessReportFails(r)
    BY <2>2, <1>t, FailureTellsNothing
  <2> QED
    BY <1>1, <2>1, <2>2 DEF OwnStep
<1>2. CASE LookForConfigUpdates
  <2>1. UNCHANGED <<clusterVars, pc, roundVars, current>>
    BY <1>2
    DEF LookForConfigUpdates, ConfigChanged, ReadConfig, InitRegistryFails, InitRegistry, Publish,
        DrainCache, ResetMetric, EndUpdate, StopUpdates, Beside
  <2>2. /\ metrics' \subseteq metrics
        /\ cache' = cache \/ cache' = drain
    BY <1>2
    DEF LookForConfigUpdates, ConfigChanged, ReadConfig, InitRegistryFails, InitRegistry, Publish,
        DrainCache, ResetMetric, EndUpdate, StopUpdates, engineVars
  <2>3. \A k \in Key : cache'[k] \in {cache[k], NoEntry}
    BY <2>2 DEF drain, newValidationCache
  <2> QED
    BY <2>1, <2>2, <2>3, <1>t, ListingBeside, AlarmsBeside
<1>3. CASE UNCHANGED vars
  <2>1. UNCHANGED <<clusterVars, pc, roundVars, current, metrics, cache>>
    BY <1>3 DEF vars, reconcilerVars, engineVars
  <2> QED
    BY <2>1, <1>c, <1>t, ListingBeside, AlarmsBeside
(* A new process has told nothing. *)
<1>4. CASE StartAgain
  <2>1. /\ metrics' = {} /\ members' = {} /\ reports' = {} /\ listed' = NothingListed
        /\ ns' = NoNamespace /\ pc' = "discover" /\ UNCHANGED clusterVars
        /\ \A k \in Key : cache'[k] = NoEntry
    BY <1>4
    DEF StartAgain, EngineStart, ReconcilerStart, ClearRound, newValidationCache
  <2>2. \A o \in Object : ~Listed(o)'
    BY <2>1, NothingIsListed DEF Listed
  <2>3. TypeInv'
    BY <1>4, StartTypes
  <2>4. CachedOnce'
    BY <2>1, <2>3, EmptyHidesNothing DEF TypeInv, TypeOK
  <2>5. /\ ListedOnce' /\ GroupEntries' /\ ObjectsHaveNamespaces' /\ ListedHere'
        /\ GroupInProcess' /\ MembersSeen'
    BY <2>1, <2>2
    DEF ListingInv, ListedOnce, GroupEntries, ObjectsHaveNamespaces, ListedHere, GroupInProcess,
        MembersSeen, Keys, Live, clusterVars
  <2>6. ManifestsGiven' /\ RunCaused' /\ AlarmsHaveCauses'
    BY <2>1, <2>2 DEF AlarmInv, ManifestsGiven, RunCaused, AlarmsHaveCauses, Live, clusterVars
  <2> QED
    BY <2>4, <2>5, <2>6 DEF ListingInv, AlarmInv
<1> QED
  BY <1>1, <1>2, <1>3, <1>4, OperatorSteps DEF opVars

(* The causes of alarms survive what hides failures: an update that races   *)
(* with a group, a torn slice of checks, a round given up for an unknown   *)
(* check, a restart.  No series of an object the cache holds is of a check  *)
(* that neither it nor a neighbour can be reported for                     *)
(* (LookForConfigUpdates, clearMetrics, processResult).                    *)
THEOREM NoRaceAlarms == OperatorSpec => []AlarmsHaveCauses
<1>1. OperatorInit => ListingInv /\ AlarmInv
  <2> SUFFICES ASSUME OperatorInit PROVE ListingInv /\ AlarmInv
    OBVIOUS
  <2>1. Init
    BY StartsAsReconciler
  <2> QED
    BY <2>1, AlarmInit
<1>2. AlarmInv => AlarmsHaveCauses
  BY DEF AlarmInv
<1> QED
  BY OperatorTypeInit, OperatorTypeStep, OperatorAlarmStep, <1>1, <1>2, PTL DEF OperatorSpec
===============================================================================
