-------------------------------- MODULE Checks --------------------------------
(***************************************************************************)
(* Checks and configurations of checks, as the ConfigMap watcher hands     *)
(* them to the validation engine, with the part of kube-linter's           *)
(* configresolver that turns one into the other.                           *)
(***************************************************************************)
CONSTANTS
    Check,       \* names of lint checks, built-in, custom and unknown ones
    BuiltIn,     \* the checks kube-linter ships
    Metered,     \* the checks PreloadMetrics made a gauge vector for
    Config       \* configurations that occur

(***************************************************************************)
(* A configuration, include / exclude / default lists already resolved:    *)
(*   checks  the names to enable, which may be unknown;                    *)
(*   custom  the custom checks it declares;                                *)
(*   loads   LoadCustomChecksInto accepts them.                            *)
(***************************************************************************)
Configs == [checks : SUBSET Check, custom : SUBSET Check, loads : BOOLEAN]

ASSUME ChecksAssumption ==
    /\ BuiltIn \subseteq Check
    /\ Metered \subseteq BuiltIn
    /\ Config \subseteq Configs

(* GetKubeLinterRegistry and LoadCustomChecksInto. *)
RegistryFor(cfg) == BuiltIn \cup cfg.custom

(* getValidChecks drops the names the registry does not know, one by one.  *)
getValidChecks(cfg) == cfg.checks \cap RegistryFor(cfg)
===============================================================================
