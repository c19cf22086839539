-------------------------------- MODULE Process --------------------------------
(***************************************************************************)
(* The life of the operator's process (main.go): setupManager step by step, *)
(* with the settings and the configuration file it reads; the runnables     *)
(* under controller-runtime's manager - metrics server, ConfigMap watcher,  *)
(* reconciler - and the goroutine of LookForConfigUpdates that the last one *)
(* starts; signals, errors and the way out.                                 *)
(*                                                                         *)
(* The manager is external: it cancels the context of its runnables at the  *)
(* first signal or error, waits for them for the grace period, and returns. *)
(* What the reconciler does while it loops is module Reconciler's.          *)
(***************************************************************************)
EXTENDS CheckConfig, MetricsServer

CONSTANTS
    BadSettings,  \* the settings that may be bad together
    NoFile,       \* there is no configuration file
    Unreadable,   \* there is one that config.Load rejects
    GetDefaultChecks, \* what the engine runs without a file
    MaxUpdates    \* bound: configurations read from the ConfigMap

(* The steps of setupManager that a setting can make fail, in their order;  *)
(* then the interval, which the reconciler's Start reads.                   *)
SetUpSteps == <<"kubeconfig", "WATCH_NAMESPACE", "KUBECLIENT_QPS", "POD_NAMESPACE",
                "config_file", "RESOURCES_PER_LIST_QUERY", "NAMESPACE_IGNORE_PATTERN">>
Settings == ToSet(SetUpSteps) \cup {"interval_malformed", "interval_not_positive"}

ASSUME ProcessAssumption ==
    /\ BadSettings \subseteq SUBSET (Settings \ {"config_file"})
    /\ GetDefaultChecks \in Lists
    /\ MaxUpdates \in Nat

VARIABLES
    stage,        \* what main does
    step,         \* the step of setupManager it has reached
    bad,          \* the settings that are bad
    file,         \* the configuration file
    reconciler,   \* where the reconciler's Start is
    updater,      \* where LookForConfigUpdates is
    updates,      \* configurations read from the ConfigMap
    tombstone,    \* a deletion reached the informer as DeletedFinalStateUnknown
    signals,      \* termination signals received
    mgrError,     \* mgr.Start returns an error
    exitCode      \* how the process ended

vars == <<configVars, cancelled, serverVars, stage, step, bad, file, reconciler,
          updater, updates, tombstone, signals, mgrError, exitCode>>

Alive == 99       \* no exit code yet
Panicked == 2     \* of a Go program that panics or overflows its stack
KilledBySignal == 143

ProcessTypeOK ==
    /\ CheckConfigTypeOK
    /\ ServerTypeOK
    /\ stage \in {"setup", "resolving", "running", "stopping", "exited"}
    /\ step \in 1..(Len(SetUpSteps) + 1)
    /\ bad \in BadSettings
    /\ file \in Lists \cup {NoFile, Unreadable}
    /\ reconciler \in {"idle", "starting", "looping", "failed", "returned"}
    /\ updater \in {"idle", "wait", "init", "stopped"}
    /\ updates \in 0..MaxUpdates
    /\ tombstone \in BOOLEAN
    /\ signals \in 0..2
    /\ mgrError \in BOOLEAN
    /\ exitCode \in {Alive, 0, 1, Panicked, KilledBySignal}

Init ==
    /\ CheckConfigInit
    /\ ServerInit
    /\ cancelled = FALSE
    /\ stage = "setup"
    /\ step = 1
    /\ bad \in BadSettings
    /\ file \in Lists \cup {NoFile, Unreadable}
    /\ reconciler = "idle"
    /\ updater = "idle"
    /\ updates = 0
    /\ tombstone = FALSE
    /\ signals = 0
    /\ mgrError = FALSE
    /\ exitCode = Alive

-----------------------------------------------------------------------------
Exit(code) == stage' = "exited" /\ exitCode' = code

BesideSetUp ==
    UNCHANGED <<cancelled, serverVars, bad, file, reconciler, updater, updates,
                tombstone, signals, mgrError>>

SetUpGoes ==
    /\ stage = "setup"
    /\ step <= Len(SetUpSteps)
    /\ SetUpSteps[step] \notin bad \cup {"config_file"}
    /\ step' = step + 1
    /\ UNCHANGED <<configVars, stage, exitCode>>
    /\ BesideSetUp

(* setupManager returns an error; the ignore pattern is given to            *)
(* regexp.MustCompile, which panics.                                        *)
SetUpFails ==
    /\ stage = "setup"
    /\ step <= Len(SetUpSteps)
    /\ SetUpSteps[step] \in bad
    /\ Exit(IF SetUpSteps[step] = "NAMESPACE_IGNORE_PATTERN" THEN Panicked ELSE 1)
    /\ UNCHANGED <<configVars, step>>
    /\ BesideSetUp

AtConfigFile == stage = "setup" /\ step <= Len(SetUpSteps) /\ SetUpSteps[step] = "config_file"

(* loadConfig and NewValidationEngine. *)
LoadConfig ==
    /\ AtConfigFile
    /\ file # Unreadable
    /\ stage' = "resolving"
    /\ BeginResolution(IF file = NoFile THEN GetDefaultChecks ELSE file)
    /\ UNCHANGED <<step, exitCode>>
    /\ BesideSetUp

LoadConfigFails ==
    /\ AtConfigFile
    /\ file = Unreadable
    /\ Exit(1)
    /\ UNCHANGED <<configVars, step>>
    /\ BesideSetUp

(* InitRegistry, called by NewValidationEngine and by LookForConfigUpdates. *)
InitRegistryStep ==
    /\ stage # "exited"
    /\ Resolve
    /\ UNCHANGED <<stage, step, exitCode>>
    /\ BesideSetUp

(* The recursion of getValidChecks uses up the stack, which no recover can  *)
(* help.                                                                    *)
StackOverflows ==
    /\ stage # "exited"
    /\ resolution = "ask"
    /\ depth = MaxDepth
    /\ Exit(Panicked)
    /\ UNCHANGED <<configVars, step>>
    /\ BesideSetUp

NewValidationEngine ==
    /\ stage = "resolving"
    /\ resolution = "done"
    /\ stage' = "setup"
    /\ step' = step + 1
    /\ UNCHANGED <<configVars, exitCode>>
    /\ BesideSetUp

NewValidationEngineFails ==
    /\ stage = "resolving"
    /\ resolution = "rejected"
    /\ Exit(1)
    /\ UNCHANGED <<configVars, step>>
    /\ BesideSetUp

(* mgr.Start begins: it starts the runnables.  The watcher's Start returns  *)
(* nil at once and is not heard of again.                                   *)
StartManager ==
    /\ stage = "setup"
    /\ step > Len(SetUpSteps)
    /\ stage' = "running"
    /\ reconciler' = "starting"
    /\ UNCHANGED <<configVars, cancelled, serverVars, step, bad, file, updater, updates,
                   tombstone, signals, mgrError, exitCode>>

-----------------------------------------------------------------------------
Up == stage \in {"running", "stopping"}

MetricsServerStep ==
    /\ Up
    /\ ServerStep
    /\ UNCHANGED <<configVars, stage, step, bad, file, reconciler, updater, updates,
                   tombstone, signals, mgrError, exitCode>>

ServingFails ==
    /\ Up
    /\ ServeFails
    /\ UNCHANGED <<configVars, stage, step, bad, file, reconciler, updater, updates,
                   tombstone, signals, mgrError, exitCode>>

BesideReconciler ==
    UNCHANGED <<configVars, cancelled, serverVars, step, bad, file, updates, tombstone,
                signals, mgrError>>

(* Start of the reconciler: the updater is started before the interval is   *)
(* read.                                                                    *)
StartReconciler ==
    /\ Up
    /\ reconciler = "starting"
    /\ "interval_not_positive" \notin bad
    /\ reconciler' = IF "interval_malformed" \in bad THEN "failed" ELSE "looping"
    /\ updater' = "wait"
    /\ UNCHANGED <<stage, exitCode>>
    /\ BesideReconciler

(* time.NewTicker panics. *)
NewTickerPanics ==
    /\ Up
    /\ reconciler = "starting"
    /\ "interval_not_positive" \in bad
    /\ Exit(Panicked)
    /\ UNCHANGED <<reconciler, updater>>
    /\ BesideReconciler

(* The loop sees ctx.Done() (module Reconciler: ShutdownStops). *)
ReconcilerReturns ==
    /\ Up
    /\ reconciler = "looping"
    /\ cancelled
    /\ reconciler' = "returned"
    /\ UNCHANGED <<updater, stage, exitCode>>
    /\ BesideReconciler

BesideUpdater ==
    UNCHANGED <<cancelled, serverVars, step, bad, file, reconciler, tombstone, signals,
                mgrError>>

(* A handler of the watcher has saved a configuration and signalled it. *)
ConfigChanged(c) ==
    /\ Up
    /\ updater = "wait"
    /\ updates < MaxUpdates
    /\ updates' = updates + 1
    /\ updater' = "init"
    /\ BeginResolution(c)
    /\ UNCHANGED <<stage, exitCode>>
    /\ BesideUpdater

(* Mutant: a configuration that is rejected takes the process down. *)
EndUpdate_ExitOnError ==
    /\ Up
    /\ updater = "init"
    /\ resolution \in {"done", "rejected"}
    /\ updater' = "wait"
    /\ IF resolution = "rejected" THEN Exit(1) ELSE UNCHANGED <<stage, exitCode>>
    /\ UNCHANGED <<configVars, updates>>
    /\ BesideUpdater

(* The loop continues whether or not the configuration was rejected. *)
EndUpdate ==
    /\ Up
    /\ updater = "init"
    /\ resolution \in {"done", "rejected"}
    /\ updater' = "wait"
    /\ UNCHANGED <<configVars, updates, stage, exitCode>>
    /\ BesideUpdater

StopUpdates ==
    /\ Up
    /\ updater = "wait"
    /\ cancelled
    /\ updater' = "stopped"
    /\ UNCHANGED <<configVars, updates, stage, exitCode>>
    /\ BesideUpdater

-----------------------------------------------------------------------------
(* Of the watcher, only what can end the process: module ConfigWatcher has  *)
(* its handlers and the order of the events.                                *)
DeletionMissed ==
    /\ Up
    /\ tombstone' = TRUE
    /\ UNCHANGED <<configVars, cancelled, serverVars, stage, step, bad, file, reconciler,
                   updater, updates, signals, mgrError, exitCode>>

(* DeleteFunc asserts that it is given a ConfigMap, if it is called before  *)
(* the process ends.                                                        *)
DeleteFuncPanics ==
    /\ Up
    /\ tombstone
    /\ Exit(Panicked)
    /\ UNCHANGED <<configVars, cancelled, serverVars, step, bad, file, reconciler, updater,
                   updates, tombstone, signals, mgrError>>

-----------------------------------------------------------------------------
BesideManager ==
    UNCHANGED <<configVars, serverVars, step, bad, file, reconciler, updater, updates,
                tombstone>>

(* The process has no handler before setupManager is done; then the first   *)
(* signal cancels the context and the second ends the process.              *)
Signal ==
    /\ stage # "exited"
    /\ signals < 2
    /\ signals' = signals + 1
    /\ CASE ~Up -> Exit(KilledBySignal) /\ UNCHANGED cancelled
         [] Up /\ signals = 0 -> cancelled' = TRUE /\ UNCHANGED <<stage, exitCode>>
         [] OTHER -> Exit(1) /\ UNCHANGED cancelled
    /\ UNCHANGED mgrError
    /\ BesideManager

RunnableFailed == (server = "returned" /\ serverError) \/ reconciler = "failed"

(* The manager receives the error of a runnable, or sees the signal; the    *)
(* errors that arrive later are dropped.                                    *)
StopOnError ==
    /\ stage = "running"
    /\ RunnableFailed
    /\ stage' = "stopping"
    /\ cancelled' = TRUE
    /\ mgrError' = TRUE
    /\ UNCHANGED <<signals, exitCode>>
    /\ BesideManager

StopOnSignal ==
    /\ stage = "running"
    /\ cancelled
    /\ stage' = "stopping"
    /\ UNCHANGED <<cancelled, mgrError, signals, exitCode>>
    /\ BesideManager

RunnablesEnded == server = "returned" /\ reconciler \in {"returned", "failed"}

(* mgr.Start returns and main with it. *)
EndProcess ==
    /\ stage = "stopping"
    /\ RunnablesEnded
    /\ Exit(IF mgrError THEN 1 ELSE 0)
    /\ UNCHANGED <<cancelled, mgrError, signals>>
    /\ BesideManager

(* The grace period is over. *)
GraceTimeout ==
    /\ stage = "stopping"
    /\ ~RunnablesEnded
    /\ Exit(1)
    /\ UNCHANGED <<cancelled, mgrError, signals>>
    /\ BesideManager

-----------------------------------------------------------------------------
SetUp ==
    \/ SetUpGoes \/ SetUpFails \/ LoadConfig \/ LoadConfigFails
    \/ NewValidationEngine \/ NewValidationEngineFails \/ StartManager

Manager == StopOnError \/ StopOnSignal \/ EndProcess

ReconcilerStep == StartReconciler \/ NewTickerPanics \/ ReconcilerReturns

UpdaterStep == EndUpdate \/ StopUpdates

Next ==
    \/ SetUp \/ InitRegistryStep \/ StackOverflows
    \/ MetricsServerStep \/ ServingFails
    \/ ReconcilerStep \/ UpdaterStep \/ \E c \in Lists : ConfigChanged(c)
    \/ DeletionMissed \/ DeleteFuncPanics
    \/ Signal \/ Manager \/ GraceTimeout

(* Every goroutine keeps running.  Neither a signal, a failure, an update,  *)
(* a panic of the watcher nor the end of the grace period is counted on.    *)
Spec ==
    /\ Init /\ [][Next]_vars
    /\ WF_vars(SetUp) /\ WF_vars(InitRegistryStep \/ StackOverflows)
    /\ WF_vars(MetricsServerStep)
    /\ WF_vars(ReconcilerStep) /\ WF_vars(UpdaterStep)
    /\ WF_vars(Manager)

-----------------------------------------------------------------------------
(* A process that reports success was asked to stop and left nobody behind: *)
(* the goroutine that serves has ended, and so have the runnables           *)
(* (main, Server.Start).                                                    *)
CleanExit ==
    exitCode = 0 =>
        /\ signals > 0
        /\ serving = "ended"
        /\ reconciler \in {"returned", "failed"}

(* The process does not end by itself without a cause, and its exit code    *)
(* tells which: 1 for a setting or a file that is refused and for a metrics *)
(* server that failed, 2 for a setting that makes the program panic, for a  *)
(* deletion the informer missed, and for a name that getValidChecks         *)
(* misreads.  No other configuration that comes from the ConfigMap is a     *)
(* cause.  Set aside are panics of the libraries and what a data race may   *)
(* do to memory (main, setupManager, DeleteFunc, getValidChecks).           *)
PanicSettings == {"NAMESPACE_IGNORE_PATTERN", "interval_not_positive"}

ExitHasCause ==
    stage = "exited" /\ signals = 0 =>
        \/ /\ exitCode = 1
           /\ \/ bad \ PanicSettings # {}
              \/ file = Unreadable
              \/ servingFailed
              \/ updates = 0 /\ resolution = "rejected"
        \/ /\ exitCode = Panicked
           /\ \/ bad \cap PanicSettings # {}
              \/ tombstone
              \/ Misread(asked) # {}

(* The operator is never left half alive: when it cannot serve its metrics, *)
(* or cannot start its reconciler for a bad setting, the whole process      *)
(* ends, and not with success unless it was being stopped (setupManager,    *)
(* Server.Start, GenericReconciler.Start).                                  *)
NeverHalfAlive ==
    (servingFailed \/ bad # {}) ~> (stage = "exited" /\ (exitCode = 0 => signals > 0))

(* One signal is enough, whatever the process is doing (Server.Start closes *)
(* and drains, the reconciler's loop returns).                              *)
SignalEnds == signals > 0 ~> stage = "exited"

(* getValidChecks comes to an end for every configuration, of the file or   *)
(* of the ConfigMap, none of whose names is misread: it is put in force or  *)
(* rejected at last, or the process ends for another reason than a stack    *)
(* that is used up, so that neither setupManager nor LookForConfigUpdates   *)
(* hangs in it.                                                             *)
ResolutionEnds ==
    (resolution \in {"ask", "remove"} /\ Misread(asked) = {})
        ~> \/ resolution \in {"done", "rejected"}
           \/ stage = "exited" /\ depth < MaxDepth
===============================================================================
