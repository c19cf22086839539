---------------------------- MODULE ConfigWatcher ----------------------------
(***************************************************************************)
(* configmap.Watcher (pkg/configmap/configmap_watcher.go): the handlers of *)
(* the informer on the ConfigMaps of the operator's namespace, and the     *)
(* configuration they save before they signal it on an unbuffered channel. *)
(*                                                                         *)
(* The informer is client-go's: it calls the handlers one at a time, in    *)
(* the order of the changes, without bound on those that wait.  A resync   *)
(* calls UpdateFunc with two equal objects, which it ignores.              *)
(***************************************************************************)
EXTENDS Checks, Naturals, Sequences

CONSTANTS
    DefaultConfig,  \* GetDefaultChecks
    ZeroConfig,     \* the zero config.Config
    Malformed,      \* ConfigMap data readConfig cannot parse
    NoConfigMap,    \* the operator's ConfigMap does not exist
    MaxChanges,     \* bound: changes of the operator's ConfigMap
    MaxForeign      \* bound: changes of other ConfigMaps in the namespace

ASSUME WatcherAssumption ==
    /\ DefaultConfig \in Configs
    /\ ZeroConfig \in Configs
    /\ Malformed \notin Configs
    /\ NoConfigMap \notin Configs \cup {Malformed}
    /\ MaxChanges \in Nat
    /\ MaxForeign \in Nat

VARIABLES
    configMap,   \* data of the operator's ConfigMap in the cluster
    changes,     \* changes made to it
    foreign,     \* changes made to other ConfigMaps
    events,      \* notifications the informer has not delivered yet
    handler,     \* what the goroutine of the handlers does next
    cfg,         \* Watcher.cfg
    newCfg       \* the configuration a handler is saving in it

configMapVars == <<configMap, changes, foreign>>
watcherVars == <<events, handler, cfg, newCfg>>

ConfigMapData == Config \cup {Malformed}

EventTypes == {"add", "update", "delete", "deletedFinalStateUnknown"}

Event(t, own, d) == [type |-> t, own |-> own, data |-> d]

WatcherTypeOK ==
    /\ configMap \in ConfigMapData \cup {NoConfigMap}
    /\ changes \in 0..MaxChanges
    /\ foreign \in 0..MaxForeign
    /\ events \in Seq([type : EventTypes, own : BOOLEAN, data : ConfigMapData])
    /\ handler \in {"idle", "writing", "sending"}
    /\ cfg \in Configs
    /\ newCfg \in Configs

-----------------------------------------------------------------------------
(* NewWatcher and Start: the informer begins with an Add for what exists.  *)
WatcherInit ==
    /\ events = IF configMap = NoConfigMap THEN <<>>
                ELSE <<Event("add", TRUE, configMap)>>
    /\ handler = "idle"
    /\ cfg = ZeroConfig
    /\ newCfg = ZeroConfig

ConfigMapInit ==
    /\ configMap \in ConfigMapData \cup {NoConfigMap}
    /\ changes = 0
    /\ foreign = 0

(* Somebody creates or rewrites the operator's ConfigMap. *)
PutConfigMap(d) ==
    /\ changes < MaxChanges
    /\ configMap # d
    /\ changes' = changes + 1
    /\ configMap' = d
    /\ events' = Append(events,
                        Event(IF configMap = NoConfigMap THEN "add" ELSE "update", TRUE, d))
    /\ UNCHANGED <<foreign, handler, cfg, newCfg>>

(* Somebody deletes it; an informer that missed the deletion finds out when *)
(* it lists again, and passes a DeletedFinalStateUnknown.                   *)
DeleteConfigMap ==
    /\ changes < MaxChanges
    /\ configMap # NoConfigMap
    /\ changes' = changes + 1
    /\ configMap' = NoConfigMap
    /\ \E t \in {"delete", "deletedFinalStateUnknown"} :
          events' = Append(events, Event(t, TRUE, configMap))
    /\ UNCHANGED <<foreign, handler, cfg, newCfg>>

(* Another ConfigMap of the namespace changes or disappears. *)
ForeignChange ==
    /\ foreign < MaxForeign
    /\ foreign' = foreign + 1
    /\ \E t \in {"update", "delete"} :
          events' = Append(events, Event(t, FALSE, Malformed))
    /\ UNCHANGED <<configMap, changes, handler, cfg, newCfg>>

-----------------------------------------------------------------------------
(* The handlers.  `cmw.cfg = c' is not atomic: a reader in another goroutine *)
(* may find the include list and addAllBuiltIn of one configuration with the *)
(* exclude list of the other, which can leave or take out any checks, and    *)
(* the custom checks of either.                                              *)
Mixed(old, new) == {[d EXCEPT !.checks = s] : d \in {old, new}, s \in SUBSET Check}

BeginSave(c) ==
    /\ handler' = "writing"
    /\ newCfg' = c
    /\ cfg' \in Mixed(cfg, c)
    /\ events' = Tail(events)
    /\ UNCHANGED configMapVars

Handles(t) == handler = "idle" /\ events # <<>> /\ Head(events).type \in t

(* AddFunc and UpdateFunc for the operator's ConfigMap. *)
SaveConfig ==
    /\ Handles({"add", "update"})
    /\ Head(events).own
    /\ Head(events).data # Malformed
    /\ BeginSave(Head(events).data)

(* Their early returns: another name, or data that does not parse. *)
IgnoreEvent ==
    /\ Handles({"add", "update"})
    /\ ~Head(events).own \/ Head(events).data = Malformed
    /\ events' = Tail(events)
    /\ UNCHANGED <<configMapVars, handler, cfg, newCfg>>

(* DeleteFunc, which does not look at the name. *)
SaveDefault ==
    /\ Handles({"delete"})
    /\ BeginSave(DefaultConfig)

(* The assignment is complete; the handler blocks on cmw.ch. *)
EndSave ==
    /\ handler = "writing"
    /\ handler' = "sending"
    /\ cfg' = newCfg
    /\ UNCHANGED <<configMapVars, events, newCfg>>

(* DeleteFunc asserts *ConfigMap on a DeletedFinalStateUnknown and panics.  *)
Panics == Handles({"deletedFinalStateUnknown"})
===============================================================================
