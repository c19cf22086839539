------------------------------ MODULE MCGrouping ------------------------------
(***************************************************************************)
(* A namespace with a pod, a service, two deployments and a network policy *)
(* in the groups "" (0), apps (1) and networking.k8s.io (2).               *)
(***************************************************************************)
EXTENDS Grouping

Res(g, v, k, s, n) == [group |-> g, version |-> v, kind |-> k, sub |-> s, namespaced |-> n]

Pods == Res(0, "v1", 2, FALSE, TRUE)
PodStatus == Res(0, "v1", 2, TRUE, TRUE)
Services == Res(0, "v1", 3, FALSE, TRUE)
Namespaces == Res(0, "v1", 1, FALSE, FALSE)
Deployments == {Res(1, v, 1, FALSE, TRUE) : v \in {"v1", "v1beta1", "v1beta2"}}
Policies == Res(2, "v1", 1, FALSE, TRUE)
Widgets == Res(3, "v1", 1, FALSE, TRUE)
Ingresses == Res(2, "v1beta1", 2, FALSE, TRUE)

(* A server with every version of deployments, and an older one with an     *)
(* ingress that kube-linter knows and the client's scheme does not.         *)
MCServed ==
    {{Pods, PodStatus, Services, Namespaces, Policies, Widgets} \cup rs :
        rs \in {Deployments, {Res(1, "v1beta1", 1, FALSE, TRUE), Ingresses}}}

MCRecognized ==
    {gvkFromMetav1APIResource(r) : r \in {Pods, Services, Namespaces, Policies} \cup Deployments}

MCLinterGVK == MCRecognized \cup {gvkFromMetav1APIResource(Ingresses)}

MCPriority ==
    <<<<0, "v1">>, <<1, "v1">>, <<1, "v1beta2">>, <<1, "v1beta1">>, <<2, "v1">>, <<2, "v1beta1">>>>

AppA == [app |-> "a"]
AppB == [app |-> "b"]
AppATierW == [app |-> "a", tier |-> "w"]
MCLabelSet == {AppA, AppB, AppATierW}

Plain(ls) == [plain |-> ls, matchLabels |-> NoField, matchExpressions |-> NoField]
Nested(ls, es) == [plain |-> NoMatchLabels, matchLabels |-> ls, matchExpressions |-> es]
Expr(k, op, vs) == [key |-> k, operator |-> op, values |-> vs]

Unselective == [selector |-> NoField, podSelector |-> NoField]
Selector(f) == [selector |-> f, podSelector |-> NoField]
PodSelector(f) == [selector |-> NoField, podSelector |-> f]
M(l, s) == [labels |-> l, spec |-> s]

MCObject == 1..5
MCKindOf == <<<<0, 2>>, <<0, 3>>, <<1, 1>>, <<1, 1>>, <<2, 1>>>>

(* Every path a selector can be read from, alone and with expressions of    *)
(* each operator, empty selectors, and requirements that are not valid.     *)
MCManifestsOf ==
    <<{M(AppATierW, Unselective), M(NoLabels, Unselective)},
      {M(AppB, Selector(Plain(AppA))), M(NoLabels, Selector(Plain(NoMatchLabels)))},
      {M(AppA, Selector(Nested(AppA, <<Expr("tier", "DoesNotExist", {})>>))),
       M(AppB, Selector(Nested(NoField, <<Expr("app", "In", {"a"}), Expr("tier", "Exists", {})>>)))},
      {M(AppA, Selector(Nested(AppB, <<Expr("app", "In", {})>>))),
       M(AppB, Selector(Nested(NoField, <<Expr("app", "NotIn", {"b"})>>)))},
      {M(NoLabels, PodSelector(Nested(NoField, <<Expr("tier", "NotIn", {"w"})>>))),
       M(AppA, PodSelector(Nested(AppA, NoField)))}>>
===============================================================================
