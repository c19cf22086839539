------------------------------ MODULE Selectors ------------------------------
(***************************************************************************)
(* utils.GetLabelSelector (pkg/utils/selector.go): how the selector of an  *)
(* unstructured object is found under one of five paths, and what the      *)
(* apimachinery makes of it.                                               *)
(*                                                                         *)
(* A spec has the fields selector and podSelector, each NoField or a map.  *)
(* A map has plain entries (`plain', strings to strings, as a Service      *)
(* writes its selector) and the entries matchLabels and matchExpressions   *)
(* of a metav1.LabelSelector, each of which may be NoField.  Label sets    *)
(* and matchLabels are functions from keys to values.                      *)
(***************************************************************************)
EXTENDS Sequences

CONSTANTS
    NoField,            \* a field that is not in the object
    NoLabelSelector     \* the nil GetLabelSelector returns

NoMatchLabels == [k \in {} |-> ""]     \* the nil or empty map

present(f) == f # NoField

(* pathExistsAsMap, pathExistsAsSlice under a field that may be missing. *)
hasMatchLabels(f) == present(f) /\ f.matchLabels # NoField
hasMatchExpressions(f) == present(f) /\ f.matchExpressions # NoField

isEmptyMap(f) == /\ present(f) /\ DOMAIN f.plain = {}
                 /\ ~hasMatchLabels(f) /\ ~hasMatchExpressions(f)

(* NestedStringMap fails on a map with an entry that is not a string. *)
NestedStringMap(f) ==
    IF hasMatchLabels(f) \/ hasMatchExpressions(f) THEN NoMatchLabels ELSE f.plain

hasSelector(spec) == present(spec.selector) \/ present(spec.podSelector)
hasEmptySelector(spec) == isEmptyMap(spec.selector) \/ isEmptyMap(spec.podSelector)

(* Mutant: the selector is read as a plain map before anything else. *)
readMatchLabels_MapFirst(spec) ==
    IF present(spec.selector) THEN NestedStringMap(spec.selector)
    ELSE IF hasMatchLabels(spec.podSelector) THEN spec.podSelector.matchLabels
    ELSE NoMatchLabels

(* The first of the three paths that exists. *)
readMatchLabels(spec) ==
    IF hasMatchLabels(spec.selector) THEN spec.selector.matchLabels
    ELSE IF hasMatchLabels(spec.podSelector) THEN spec.podSelector.matchLabels
    ELSE IF present(spec.selector) THEN NestedStringMap(spec.selector)
    ELSE NoMatchLabels

expressionsOf(f) == IF hasMatchExpressions(f) THEN f.matchExpressions ELSE <<>>

readMatchExpressions(spec) == expressionsOf(spec.selector) \o expressionsOf(spec.podSelector)

EmptyLabelSelector == [matchLabels |-> NoMatchLabels, matchExpressions |-> <<>>]

GetLabelSelector(spec) ==
    IF ~hasSelector(spec) THEN NoLabelSelector
    ELSE IF hasEmptySelector(spec) THEN EmptyLabelSelector
    ELSE [matchLabels |-> readMatchLabels(spec),
          matchExpressions |-> readMatchExpressions(spec)]

-----------------------------------------------------------------------------
(* metav1.LabelSelectorAsSelector: requirements of another shape are an    *)
(* error, for which processResourceSelectors leaves the object out.        *)
ValidRequirement(e) ==
    \/ e.operator \in {"In", "NotIn"} /\ e.values # {}
    \/ e.operator \in {"Exists", "DoesNotExist"} /\ e.values = {}

RequirementHolds(e, l) ==
    CASE e.operator = "In"           -> e.key \in DOMAIN l /\ l[e.key] \in e.values
      [] e.operator = "NotIn"        -> e.key \in DOMAIN l => l[e.key] \notin e.values
      [] e.operator = "Exists"       -> e.key \in DOMAIN l
      [] e.operator = "DoesNotExist" -> e.key \notin DOMAIN l

Subset(ml, l) == \A k \in DOMAIN ml : k \in DOMAIN l /\ l[k] = ml[k]

(* Whether the selector of an object matches label set l: labels.Nothing() *)
(* for nil, labels.Everything() for a selector without requirements.       *)
SelectorMatches(ls, l) ==
    /\ ls # NoLabelSelector
    /\ Subset(ls.matchLabels, l)
    /\ \A i \in DOMAIN ls.matchExpressions :
          ValidRequirement(ls.matchExpressions[i]) /\ RequirementHolds(ls.matchExpressions[i], l)

-----------------------------------------------------------------------------
(* What the Kubernetes API says of an object with this spec: a field that  *)
(* is written as a LabelSelector selects what satisfies all of it, a field *)
(* that is written as a plain map what carries all its labels, and an      *)
(* object with an invalid requirement or without such a field nothing.     *)
FieldMatches(f, l) ==
    IF hasMatchLabels(f) \/ hasMatchExpressions(f)
    THEN /\ hasMatchLabels(f) => Subset(f.matchLabels, l)
         /\ \A i \in DOMAIN expressionsOf(f) :
               ValidRequirement(f.matchExpressions[i]) /\ RequirementHolds(f.matchExpressions[i], l)
    ELSE Subset(f.plain, l)

SpecifiedMatches(spec, l) ==
    \E f \in {spec.selector, spec.podSelector} : present(f) /\ FieldMatches(f, l)

(* The specs the API server admits: no kind has both fields, a map is plain *)
(* or a LabelSelector, and podSelector, of NetworkPolicy, is the latter.   *)
AsLabelSelector(f) ==
    /\ f.plain = NoMatchLabels
    /\ hasMatchExpressions(f) =>
         f.matchExpressions \in Seq({f.matchExpressions[i] : i \in DOMAIN f.matchExpressions})

AsPlainMap(f) == f.matchLabels = NoField /\ f.matchExpressions = NoField

WellFormed(spec) ==
    /\ ~(present(spec.selector) /\ present(spec.podSelector))
    /\ present(spec.selector) => AsLabelSelector(spec.selector) \/ AsPlainMap(spec.selector)
    /\ present(spec.podSelector) => AsLabelSelector(spec.podSelector)
    /\ hasSelector(spec) => GetLabelSelector(spec) # NoLabelSelector
===============================================================================
