------------------------------ MODULE Reporting ------------------------------
(***************************************************************************)
(* What the reconciler promises its users, without rounds, namespaces,     *)
(* listings or groups: things fail checks and change; a reporter works on  *)
(* some of them at a time, adjusts the gauges of those only, and settles a *)
(* thing at a version once the gauges tell the truth about it.  A settled  *)
(* thing is left alone until it changes or goes away.                      *)
(*                                                                         *)
(* Module Reconciler is shown to implement this specification: every step  *)
(* of its rounds is one of the steps below or changes nothing here.        *)
(***************************************************************************)
EXTENDS Integers

CONSTANTS
    Thing,      \* what is validated: an object under the UID of its namespace
    Gauge,      \* the checks that have a gauge
    Version     \* versions of a thing, numbered from 1

Nothing == 0    \* the version of a thing that was never settled
Versions == [Thing -> Version \cup {Nothing}]

VARIABLES
    version,    \* the last version each thing was given
    alive,      \* the things that exist
    kept,       \* those of them the reporter may not lose sight of
    owed,       \* the checks each thing fails
    verdict,    \* the version each thing is settled at
    gauges,     \* pairs of a check and a thing on the gauges
    inWork      \* the things the reporter works on

worldVars == <<version, alive, kept, owed>>
reporterVars == <<verdict, gauges, inWork>>
reportingVars == <<worldVars, reporterVars>>

Fresh(t) == t \in alive /\ verdict[t] = version[t] /\ verdict[t] # Nothing

(* The gauges hold every check a thing fails. *)
Told(t, gs) == \A c \in owed[t] : <<c, t>> \in gs

Init ==
    /\ version = [t \in Thing |-> Nothing]
    /\ alive = {}
    /\ kept = {}
    /\ owed \in [Thing -> SUBSET Gauge]
    /\ verdict = [t \in Thing |-> Nothing]
    /\ gauges = {}
    /\ inWork = {}

-----------------------------------------------------------------------------
(* Things appear, change and disappear: a thing that exists at the version *)
(* it had before has not changed, and existed before.                      *)
Change ==
    /\ version' \in Versions
    /\ \A t \in Thing :
         /\ version'[t] >= version[t]
         /\ t \in alive' /\ version'[t] = version[t] =>
               t \in alive /\ owed'[t] = owed[t] /\ (t \in kept' => t \in kept)
    /\ UNCHANGED reporterVars

(* Settled things are only dropped when they changed, went away, or are not *)
(* the reporter's to keep.                                                 *)
DropsOnlyStale ==
    /\ verdict' \in Versions
    /\ \A t \in Thing : \/ verdict'[t] = verdict[t]
                        \/ verdict'[t] = Nothing /\ ~(Fresh(t) /\ t \in kept)

(* Work begins on some things; outdated verdicts may be dropped with it. *)
Begin ==
    /\ inWork = {}
    /\ inWork' \subseteq Thing
    /\ DropsOnlyStale
    /\ UNCHANGED <<worldVars, gauges>>

(* The gauges of the things in work change, and only theirs; what is fresh  *)
(* stays told.                                                             *)
Adjust ==
    /\ \A e \in gauges \cup gauges' : (e \in gauges) # (e \in gauges') => e[2] \in inWork
    /\ \A t \in inWork : Fresh(t) /\ Told(t, gauges) => Told(t, gauges')
    /\ UNCHANGED <<worldVars, verdict, inWork>>

(* A thing is settled at its version only if the gauges tell its failures;  *)
(* a thing that changed meanwhile is settled at a version it no longer has. *)
Settle ==
    /\ \E t \in inWork :
         /\ inWork' = inWork \ {t}
         /\ \E v \in Version :
              /\ v <= version[t]
              /\ t \in alive /\ v = version[t] => Told(t, gauges)
              /\ verdict' = [verdict EXCEPT ![t] = v]
    /\ UNCHANGED <<worldVars, gauges>>

(* Verdicts are forgotten together with everything on the gauges.          *)
Forget ==
    /\ inWork = {}
    /\ DropsOnlyStale
    /\ gauges' = {e \in gauges : verdict'[e[2]] = verdict[e[2]]}
    /\ UNCHANGED <<worldVars, inWork>>

Next == Change \/ Begin \/ Adjust \/ Settle \/ Forget

Spec == Init /\ [][Next]_reportingVars

(* What the specification is for: whatever is settled at the version it has *)
(* is told on the gauges (the cache of reconcileGroupOfObjects hides no     *)
(* failure).                                                               *)
Truthful == \A t \in Thing : Fresh(t) => Told(t, gauges)

(* An update can make a verdict outdated, never ahead of the thing. *)
NeverAhead == \A t \in Thing : verdict[t] <= version[t]
===============================================================================
