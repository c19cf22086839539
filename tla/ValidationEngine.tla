--------------------------- MODULE ValidationEngine ---------------------------
(***************************************************************************)
(* validationEngine (pkg/validations/validation_engine.go): the check      *)
(* registry built from a configuration, one run of kube-linter over a      *)
(* group of objects, and the gauges that publish its reports.              *)
(*                                                                         *)
(* A gauge vector holds one series per label set; a series, once set, is 1 *)
(* until it is deleted.  `metrics' is therefore the set of series present. *)
(* The operators below are the pieces of the engine's methods; the module  *)
(* that calls the engine says in which steps they run.                     *)
(***************************************************************************)
EXTENDS Cluster

VARIABLES
    registry,           \* checks run.Run can instantiate
    enabledChecks,      \* checks run.Run is asked to run
    registeredChecks,   \* checks processResult accepts reports of
    metrics             \* series present in the gauge vectors

engineConfigVars == <<registry, enabledChecks, registeredChecks>>
engineVars == <<registry, enabledChecks, registeredChecks, metrics>>

Series(c, o, u) == [check |-> c, object |-> o, nsUid |-> u]
AllSeries == [check : Metered, object : Object, nsUid : NsUid]

Report(c, o) == [check |-> c, object |-> o]
AllReports == [check : Check, object : Object]

EngineTypeOK ==
    /\ registry \subseteq Check
    /\ enabledChecks \subseteq Check
    /\ registeredChecks \subseteq Check
    /\ metrics \subseteq AllSeries

-----------------------------------------------------------------------------
(* NewValidationEngine: the process does not start with a configuration    *)
(* InitRegistry rejects.                                                   *)
EngineInit ==
    \E cfg \in Config :
        /\ cfg.loads
        /\ registry = RegistryFor(cfg)
        /\ enabledChecks = getValidChecks(cfg)
        /\ registeredChecks = getValidChecks(cfg)
        /\ metrics = {}

-----------------------------------------------------------------------------
(* RunValidationsForObjects: objs is the group, man[o] the listed manifest *)
(* of each of its members, u the namespace UID of the round.               *)

isControllersWithNoReplicas(m) == m.noReplicas

(* The objects that enter the lint context. *)
Lintable(m) == m.isOwner /\ ~isControllersWithNoReplicas(m)

LintContext(objs, man) == {o \in objs : Lintable(man[o])}

(* run.Run fails on an enabled check the registry does not hold. *)
RunSucceeds == enabledChecks \subseteq registry

(* What kube-linter says of object o among the objects ctx. *)
Fails(c, o, ctx, man) ==
    \/ c \in man[o].fails
    \/ c \in man[o].needs /\ \A p \in ctx : c \notin man[p].provides

RunReports(objs, man) ==
    {r \in [check : enabledChecks, object : LintContext(objs, man)] :
        Fails(r.check, r.object, LintContext(objs, man), man)}

-----------------------------------------------------------------------------
(* The series carries the labels of object o under namespace UID u. *)
Labelled(s, o, u) == s.object = o /\ s.nsUid = u

(* DeleteMetrics deletes one label set from every gauge vector. *)
DeleteMetrics(ms, o, u) == {s \in ms : ~Labelled(s, o, u)}

(* The DeleteMetrics calls of isControllersWithNoReplicas: the request is   *)
(* built from the object alone and has no NamespaceUID.                    *)
DeleteNoReplicas(ms, objs, man) ==
    {s \in ms : ~\E o \in objs : /\ man[o].isOwner
                                 /\ isControllersWithNoReplicas(man[o])
                                 /\ Labelled(s, o, NoUid)}

(* Mutants: every series of a member is deleted, also of the checks that are *)
(* reported again; the namespace UID is missing from the labels.            *)
clearMetrics_Everything(ms, reports, objs, u) ==
    {s \in ms : ~(s.object \in objs /\ s.nsUid = u)}

clearMetrics_NoUid(ms, reports, objs, u) ==
    {s \in ms : ~(/\ s.object \in objs
                  /\ s.nsUid = NoUid
                  /\ \A r \in reports : r.check # s.check)}

(* clearMetrics, called for every member of the group with the reports of  *)
(* the whole group.                                                        *)
clearMetrics(ms, reports, objs, u) ==
    {s \in ms : ~(/\ s.object \in objs
                  /\ s.nsUid = u
                  /\ \A r \in reports : r.check # s.check)}

(* Mutant: the check for a missing gauge is dropped. *)
processResult_NoGaugeCheck(ms, r, u) == ms \cup {Series(r.check, r.object, u)}

(* One iteration of processResult: a check without gauge is skipped. *)
processResult(ms, r, u) ==
    IF r.check \in Metered THEN ms \cup {Series(r.check, r.object, u)} ELSE ms
==============================================================================
