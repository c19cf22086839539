----------------------------- MODULE MCOperator -----------------------------
(***************************************************************************)
(* One deployment that fails both checks with gauges, and configurations   *)
(* that enable one of them, or both and a custom check.                    *)
(***************************************************************************)
EXTENDS Operator

CONSTANTS l1, c1, c2, c3

Conf(ch, cu, ld) == [checks |-> ch, custom |-> cu, loads |-> ld]

(* The first two share a check, so that an old report may still be accepted *)
(* after the update; the third does not load.                               *)
MCConfig == {Conf({c1}, {}, TRUE), Conf({c1, c2, c3}, {c3}, TRUE), Conf({c1, c2}, {}, FALSE)}
MCDefault == Conf({c1}, {}, TRUE)

Workload(f) == [labels |-> l1, selects |-> {}, fails |-> f, needs |-> {},
                provides |-> {}, isOwner |-> TRUE, noReplicas |-> FALSE, typed |-> TRUE]

MCObject == {1}
MCKindOf == <<1>>
MCNamespaceOf == <<1>>
MCManifestsOf == <<{Workload({c1, c2})}>>

(* Two checks only, for the runs about which configuration is in force.     *)
LiveConfig == {Conf({c1}, {}, TRUE), Conf({c1, c2}, {c2}, TRUE), Conf({c1}, {c2}, FALSE)}
NoManifests == <<{}>>

(* Only one configuration that loads, and one check to fail.               *)
OneConfig == {Conf({c1}, {}, TRUE)}
OneManifest == <<{Workload({c1})}>>
=============================================================================
