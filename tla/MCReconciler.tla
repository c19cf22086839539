---------------------------- MODULE MCReconciler ----------------------------
(***************************************************************************)
(* Small clusters for the runs of Reconciler: label sets l1 and l2, a      *)
(* built-in check c1 with a gauge and a custom check c2 without.           *)
(***************************************************************************)
EXTENDS Reconciler

CONSTANTS l1, l2, c1, c2

MCConfig == {[checks |-> {c1, c2}, custom |-> {c2}, loads |-> TRUE]}

Workload(l, f) == [labels |-> l, selects |-> {}, fails |-> f, needs |-> {},
                   provides |-> {}, isOwner |-> TRUE, noReplicas |-> FALSE, typed |-> TRUE]
Scaled0(m) == [m EXCEPT !.noReplicas = TRUE]
Untyped(m) == [m EXCEPT !.typed = FALSE]
Selector(m, ls) == [m EXCEPT !.selects = ls]

(* groups: a deployment that can be fixed, one that can be scaled down and  *)
(* also fails the custom check, and a service that selects both and has a   *)
(* label set of its own, so that two groups overlap.                        *)
GroupsObject == 1..3
GroupsKindOf == <<1, 1, 2>>
GroupsNamespaceOf == <<1, 1, 1>>
GroupsManifestsOf ==
    <<{Workload(l1, {c1}), Workload(l1, {})},
      {Workload(l1, {c1, c2}), Scaled0(Workload(l1, {c1}))},
      {Selector(Workload(l2, {c1}), {l1})}>>

(* aborts: two namespaces, a deployment in each; the first can become       *)
(* unconvertible, the second's namespace can be created again.              *)
AbortsObject == 1..2
AbortsKindOf == <<1, 1>>
AbortsNamespaceOf == <<1, 2>>
AbortsManifestsOf ==
    <<{Workload(l1, {}), Untyped(Workload(l1, {c1}))},
      {Workload(l1, {c1}), Workload(l1, {})}>>

(* live: two deployments of one group, two checks with a gauge; the first    *)
(* can be fixed, the second can come to fail one check less, or to be       *)
(* unconvertible in a group of its own.                                     *)
LiveConfig == {[checks |-> {c1, c2}, custom |-> {}, loads |-> TRUE]}
LiveObject == 1..2
LiveKindOf == <<1, 1>>
LiveNamespaceOf == <<1, 1>>
LiveManifestsOf ==
    <<{Workload(l1, {c1}), Workload(l1, {})},
      {Workload(l1, {c1, c2}), Workload(l1, {c2}), Untyped(Workload(l2, {}))}>>

(* stale_series: both fail the same check. *)
StaleManifestsOf == <<{Workload(l1, {c1}), Workload(l1, {})}, {Workload(l1, {c1})}>>
=============================================================================
