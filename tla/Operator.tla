------------------------------- MODULE Operator -------------------------------
(***************************************************************************)
(* The operator process (main.go): the reconciling goroutine of module     *)
(* Reconciler, the goroutine of LookForConfigUpdates that rebuilds the     *)
(* engine's configuration under its feet, and the ConfigMap handlers of    *)
(* module ConfigWatcher.  The three share the engine, the cache and        *)
(* Watcher.cfg without a lock.                                             *)
(***************************************************************************)
EXTENDS Reconciler, ConfigWatcher, FiniteSets

CONSTANT MaxRestarts    \* bound: restarts of the process that are not panics

ASSUME OperatorAssumption == MaxRestarts \in Nat

VARIABLES
    updater,       \* what the goroutine of LookForConfigUpdates does next
    config,        \* validationEngine.config
    unpublished,   \* engine fields InitRegistry has still to assign
    unreset,       \* gauge vectors ResetMetrics has still to reset
    restarts,      \* restarts so far
    raced          \* history: a group was between its run and its storing
                   \* while an update was published, drained or reset

updaterVars == <<updater, config, unpublished, unreset>>
opVars == <<vars, configMapVars, watcherVars, updaterVars, restarts, raced>>

Fields == {"registry", "header", "enabledChecks", "registeredChecks"}

OperatorTypeOK ==
    /\ TypeOK
    /\ WatcherTypeOK
    /\ updater \in {"wait", "read", "init", "publish", "reset", "stopped"}
    /\ config \in Configs
    /\ unpublished \subseteq Fields
    /\ unreset \subseteq Metered
    /\ restarts \in 0..MaxRestarts
    /\ raced \in BOOLEAN

UpdaterInit ==
    /\ updater = "wait"
    /\ config = ZeroConfig
    /\ unpublished = {}
    /\ unreset = {}

OperatorInit ==
    /\ ClusterInit
    /\ EngineInit
    /\ ReconcilerInit
    /\ ConfigMapInit
    /\ WatcherInit
    /\ UpdaterInit
    /\ cancelled = FALSE
    /\ faults = 0
    /\ restarts = 0
    /\ raced = FALSE

-----------------------------------------------------------------------------
(* An update is being published or applied while a group is validated. *)
Overlap == updater \in {"publish", "reset"} /\ pc \in {"lint", "report"}

(* Every step but the start of the process keeps the history.              *)
Recorded == raced' = (raced \/ Overlap')

(* What LookForConfigUpdates leaves to the other goroutines. *)
Beside ==
    /\ UNCHANGED <<clusterVars, discovered, pc, roundVars, current, faults, cancelled, restarts>>
    /\ Recorded

(* The handler's send and the receive of LookForConfigUpdates meet. *)
ConfigChanged ==
    /\ updater = "wait"
    /\ handler = "sending"
    /\ updater' = "read"
    /\ handler' = "idle"
    /\ UNCHANGED <<engineVars, cache, configMapVars, events, cfg, newCfg,
                   config, unpublished, unreset>>
    /\ Beside

(* GetConfig and SetConfig. *)
ReadConfig ==
    /\ updater = "read"
    /\ updater' = "init"
    /\ config' = cfg
    /\ UNCHANGED <<engineVars, cache, configMapVars, watcherVars, unpublished, unreset>>
    /\ Beside

(* Mutants: the registry is assigned before the configuration is known to   *)
(* be good; a bad configuration ends the loop.                              *)
InitRegistryFails_RegistryFirst ==
    /\ updater = "init"
    /\ ~config.loads
    /\ updater' = "wait"
    /\ registry' = BuiltIn
    /\ UNCHANGED <<enabledChecks, registeredChecks, metrics, cache, configMapVars,
                   watcherVars, config, unpublished, unreset>>
    /\ Beside

InitRegistryFails_Return ==
    /\ updater = "init"
    /\ ~config.loads
    /\ updater' = "stopped"
    /\ UNCHANGED <<engineVars, cache, configMapVars, watcherVars, config, unpublished, unreset>>
    /\ Beside

(* InitRegistry fails before it assigns anything; the loop continues. *)
InitRegistryFails ==
    /\ updater = "init"
    /\ ~config.loads
    /\ updater' = "wait"
    /\ UNCHANGED <<engineVars, cache, configMapVars, watcherVars, config, unpublished, unreset>>
    /\ Beside

InitRegistry ==
    /\ updater = "init"
    /\ config.loads
    /\ updater' = "publish"
    /\ unpublished' = Fields
    /\ UNCHANGED <<engineVars, cache, configMapVars, watcherVars, config, unreset>>
    /\ Beside

(* What a reader may find in ve.enabledChecks while the header of the slice *)
(* is written: the array of one list cut to the length of the other.       *)
Torn(old, new) ==
    {s \in SUBSET old \cup SUBSET new :
        \/ s \subseteq old /\ Cardinality(s) = Cardinality(new)
        \/ s \subseteq new /\ Cardinality(s) = Cardinality(old)}

(* The three assignments at the end of InitRegistry, which a reader in     *)
(* another goroutine may see in any order.                                 *)
Publish(f) ==
    /\ updater = "publish"
    /\ f \in unpublished
    /\ f = "enabledChecks" => "header" \notin unpublished
    /\ unpublished' = unpublished \ {f}
    /\ registry' = IF f = "registry" THEN RegistryFor(config) ELSE registry
    /\ enabledChecks' \in CASE f = "header" -> Torn(enabledChecks, getValidChecks(config))
                           [] f = "enabledChecks" -> {getValidChecks(config)}
                           [] OTHER -> {enabledChecks}
    /\ registeredChecks' = IF f = "registeredChecks" THEN getValidChecks(config)
                           ELSE registeredChecks
    /\ UNCHANGED <<metrics, cache, configMapVars, watcherVars, updater, config, unreset>>
    /\ Beside

(* Mutants: the cache is not drained; the vectors to reset are taken from   *)
(* the enabled checks.                                                      *)
DrainCache_NoDrain ==
    /\ updater = "publish"
    /\ unpublished = {}
    /\ updater' = "reset"
    /\ unreset' = Metered
    /\ UNCHANGED <<engineVars, cache, configMapVars, watcherVars, config, unpublished>>
    /\ Beside

DrainCache_EnabledChecks ==
    /\ updater = "publish"
    /\ unpublished = {}
    /\ updater' = "reset"
    /\ cache' = drain
    /\ unreset' = enabledChecks
    /\ UNCHANGED <<engineVars, configMapVars, watcherVars, config, unpublished>>
    /\ Beside

(* objectValidationCache.drain(). *)
DrainCache ==
    /\ updater = "publish"
    /\ unpublished = {}
    /\ updater' = "reset"
    /\ cache' = drain
    /\ unreset' = Metered
    /\ UNCHANGED <<engineVars, configMapVars, watcherVars, config, unpublished>>
    /\ Beside

(* ResetMetrics, one gauge vector after the other. *)
ResetMetric(c) ==
    /\ updater = "reset"
    /\ c \in unreset
    /\ unreset' = unreset \ {c}
    /\ metrics' = {s \in metrics : s.check # c}
    /\ UNCHANGED <<engineConfigVars, cache, configMapVars, watcherVars, updater, config,
                   unpublished>>
    /\ Beside

EndUpdate ==
    /\ updater = "reset"
    /\ unreset = {}
    /\ updater' = "wait"
    /\ UNCHANGED <<engineVars, cache, configMapVars, watcherVars, config, unpublished, unreset>>
    /\ Beside

StopUpdates ==
    /\ updater = "wait"
    /\ cancelled
    /\ updater' = "stopped"
    /\ UNCHANGED <<engineVars, cache, configMapVars, watcherVars, config, unpublished, unreset>>
    /\ Beside

LookForConfigUpdates ==
    \/ ConfigChanged \/ ReadConfig \/ InitRegistryFails \/ InitRegistry
    \/ \E f \in unpublished : Publish(f)
    \/ DrainCache
    \/ \E c \in unreset : ResetMetric(c)
    \/ EndUpdate \/ StopUpdates

-----------------------------------------------------------------------------
(* The process ends and its container is started again.  The configuration *)
(* file it reads then may differ from the one of the last start.           *)
EngineStart ==
    \E c \in Config :
        /\ c.loads
        /\ registry' = RegistryFor(c)
        /\ enabledChecks' = getValidChecks(c)
        /\ registeredChecks' = getValidChecks(c)
        /\ metrics' = {}

ReconcilerStart ==
    /\ pc' = "discover"
    /\ ClearRound
    /\ discovered' = FALSE
    /\ cache' = newValidationCache
    /\ current' = {}

WatcherStart ==
    /\ events' = IF configMap = NoConfigMap THEN <<>> ELSE <<Event("add", TRUE, configMap)>>
    /\ handler' = "idle"
    /\ cfg' = ZeroConfig
    /\ newCfg' = ZeroConfig

UpdaterStart ==
    /\ updater' = "wait"
    /\ config' = ZeroConfig
    /\ unpublished' = {}
    /\ unreset' = {}

(* setupManager again: everything in memory is new. *)
StartAgain ==
    /\ EngineStart
    /\ ReconcilerStart
    /\ WatcherStart
    /\ UpdaterStart
    /\ raced' = FALSE
    /\ UNCHANGED <<clusterVars, configMapVars, cancelled, faults>>

Restart ==
    /\ ~cancelled
    /\ restarts < MaxRestarts
    /\ restarts' = restarts + 1
    /\ StartAgain

(* The panic of a handler takes the process down. *)
HandlerPanics ==
    /\ Panics
    /\ ~cancelled
    /\ StartAgain
    /\ UNCHANGED restarts

-----------------------------------------------------------------------------
(* What the steps of the other goroutines and of the environment leave.    *)
BesideReconciler ==
    UNCHANGED <<configMapVars, watcherVars, updaterVars, restarts>> /\ Recorded

ReconcilerRound ==
    \/ Round /\ BesideReconciler
    \/ RunLintFails /\ BesideReconciler
    \/ \E r \in reports : ProcessReportFails(r) /\ BesideReconciler

ReconcilerStop == Stop /\ BesideReconciler

BesideWatcher == UNCHANGED <<vars, updaterVars, restarts>> /\ Recorded

WatcherStep ==
    \/ SaveConfig /\ BesideWatcher
    \/ IgnoreEvent /\ BesideWatcher
    \/ SaveDefault /\ BesideWatcher
    \/ EndSave /\ BesideWatcher

Environment ==
    \/ ClusterStep /\ BesideReconciler
    \/ Cancel /\ BesideReconciler
    \/ \E d \in ConfigMapData : PutConfigMap(d) /\ BesideWatcher
    \/ DeleteConfigMap /\ BesideWatcher
    \/ ForeignChange /\ BesideWatcher

OperatorNext ==
    \/ ReconcilerRound \/ ReconcilerStop
    \/ LookForConfigUpdates
    \/ WatcherStep \/ HandlerPanics
    \/ Restart
    \/ Environment

OperatorSpec == OperatorInit /\ [][OperatorNext]_opVars

(* Each goroutine keeps running; a panicking handler does panic; the loop   *)
(* of Start ends at last, as in Reconciler.                                 *)
OperatorFairSpec ==
    /\ OperatorSpec
    /\ WF_opVars(ReconcilerRound) /\ SF_opVars(ReconcilerStop)
    /\ WF_opVars(LookForConfigUpdates)
    /\ WF_opVars(WatcherStep) /\ WF_opVars(HandlerPanics)

-----------------------------------------------------------------------------
(* Between updates the engine runs one configuration: every check it asks   *)
(* kube-linter for exists and can be reported, so a rejected configuration  *)
(* left nothing behind and a round fails for lack of a check only while an  *)
(* update is published (InitRegistry).                                      *)
ConsistentConfig ==
    updater # "publish" =>
        enabledChecks = registeredChecks /\ enabledChecks \subseteq registry

(* Draining the cache and resetting the gauges after an update hides no     *)
(* failure, unless a group was being validated meanwhile                    *)
(* (LookForConfigUpdates).                                                  *)
HiddenOnlyByRace == updater = "wait" /\ ~raced => NoFailureHidden

(* After an update every series on the gauges is one whose deletion can     *)
(* still come about, from the cache or from the group in process, unless a  *)
(* group was being validated meanwhile: its old reports are set on gauges   *)
(* already reset, or end the round before the group is stored               *)
(* (LookForConfigUpdates, processResult).                                   *)
OrphanOnlyByRace == updater # "reset" /\ ~raced => SeriesTracked

(* What the engine runs once the operator's ConfigMap is left alone.        *)
Follows(c) ==
    /\ registry = RegistryFor(c)
    /\ enabledChecks = getValidChecks(c)
    /\ registeredChecks = getValidChecks(c)

(* No update is lost: a configuration that stays in the ConfigMap and loads *)
(* is in force for good at last, through torn reads, restarts and panics.   *)
ConfigConverges ==
    \A c \in Config :
        (c.loads /\ <>[](configMap = c /\ ~cancelled)) => <>[]Follows(c)

(* A failure that persists is reported for good after restarts and updates  *)
(* of the configuration too, if no update met a group in validation.        *)
FailureReportedUnlessRaced ==
    \A o \in Object, c \in Check :
        <>[](discovered /\ ~cancelled /\ ~raced /\ AllConverting /\ Failing(o, c))
            => <>[]Reported(o, c)
===============================================================================
