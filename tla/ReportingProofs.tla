---------------------------- MODULE ReportingProofs ----------------------------
(***************************************************************************)
(* What Reporting is for follows from its steps, for all things, checks    *)
(* and versions.                                                           *)
(***************************************************************************)
EXTENDS Reporting, TLAPS

(* An update outdates a verdict and never confirms it: the verdict is of a  *)
(* version the thing has or had.                                           *)
Grounded ==
    /\ version \in Versions
    /\ verdict \in Versions
    /\ NeverAhead
    /\ Truthful

(* What a step keeps told: a thing that was fresh and is fresh, unchanged.  *)
LEMMA StaysTold ==
  ASSUME NEW t \in Thing, Fresh(t), Truthful, UNCHANGED owed,
         \A c : <<c, t>> \in gauges => <<c, t>> \in gauges'
  PROVE  Told(t, gauges)'
  BY DEF Truthful, Told

(* Every step of the abstract reporter keeps its invariant. *)
LEMMA GroundedStep ==
  ASSUME Version \subseteq Nat PROVE Grounded /\ [Next]_reportingVars => Grounded'
<1> SUFFICES ASSUME Grounded, [Next]_reportingVars PROVE Grounded'
  OBVIOUS
<1>n. \A v \in Version \cup {Nothing} : v \in Nat
  BY DEF Nothing
<1>v. \A t \in Thing : version[t] \in Nat /\ verdict[t] \in Nat /\ verdict[t] <= version[t]
  BY <1>n DEF Grounded, Versions, NeverAhead
<1>1. CASE Change
  <2>1. version' \in Versions /\ UNCHANGED <<verdict, gauges, inWork>>
    BY <1>1 DEF Change, reporterVars
  <2>2. ASSUME NEW t \in Thing
        PROVE  /\ verdict'[t] <= version'[t]
               /\ Fresh(t)' => Told(t, gauges)'
    <3>1. version'[t] \in Nat /\ version'[t] >= version[t] /\ verdict'[t] = verdict[t]
      BY <1>1, <1>n, <2>1 DEF Change, Versions
    <3>2. ASSUME Fresh(t)' PROVE Told(t, gauges)'
      <4>0. verdict'[t] = version'[t] /\ t \in alive'
        BY <3>2 DEF Fresh
      <4>1. version'[t] = version[t] /\ t \in alive'
        BY <4>0, <3>1, <1>v
      <4>2. t \in alive /\ owed'[t] = owed[t]
        BY <4>1, <1>1 DEF Change
      <4>3. Fresh(t)
        BY <4>1, <4>2, <3>1, <3>2 DEF Fresh, Nothing
      <4> QED
        BY <4>2, <4>3, <2>1 DEF Grounded, Truthful, Told
    <3> QED
      BY <3>1, <3>2, <1>v
  <2> QED
    BY <2>1, <2>2 DEF Grounded, NeverAhead, Truthful
<1>2. ASSUME DropsOnlyStale, UNCHANGED worldVars,
             \A t \in Thing : \A c :
                verdict'[t] = verdict[t] /\ <<c, t>> \in gauges => <<c, t>> \in gauges'
      PROVE  Grounded'
  <2>1. verdict' \in Versions /\ UNCHANGED <<version, alive, owed>>
    BY <1>2 DEF DropsOnlyStale, worldVars
  <2>2. ASSUME NEW t \in Thing PROVE verdict'[t] <= version'[t]
    BY <1>2, <2>1, <1>v DEF DropsOnlyStale, Nothing
  <2>3. ASSUME NEW t \in Thing, Fresh(t)' PROVE Told(t, gauges)'
    <3>1. verdict'[t] = verdict[t]
      BY <1>2, <2>3 DEF DropsOnlyStale, Fresh, Nothing
    <3>2. Fresh(t)
      BY <3>1, <2>1, <2>3 DEF Fresh, Nothing
    <3> QED
      BY <3>1, <3>2, <2>1, <1>2, StaysTold DEF Grounded
  <2> QED
    BY <2>1, <2>2, <2>3 DEF Grounded, NeverAhead, Truthful
<1>3. CASE Begin \/ Forget
  BY <1>2, <1>3 DEF Begin, Forget, worldVars
<1>4. CASE Adjust
  <2>1. UNCHANGED <<version, alive, owed, verdict>>
    BY <1>4 DEF Adjust, worldVars
  <2>2. ASSUME NEW t \in Thing, Fresh(t) PROVE Told(t, gauges)'
    <3>1. CASE t \in inWork
      BY <3>1, <2>1, <2>2, <1>4 DEF Adjust, Grounded, Truthful, Told
    <3>2. CASE t \notin inWork
      <4>1. ASSUME NEW c, <<c, t>> \in gauges PROVE <<c, t>> \in gauges'
        <5>1. <<c, t>>[2] \notin inWork
          BY <3>2
        <5> QED
          BY <4>1, <5>1, <1>4 DEF Adjust
      <4> QED
        BY <4>1, <2>1, <2>2, StaysTold DEF Grounded
    <3> QED
      BY <3>1, <3>2
  <2> QED
    BY <2>1, <2>2 DEF Grounded, NeverAhead, Truthful, Fresh
<1>5. CASE Settle
  <2>1. PICK t \in inWork, v \in Version :
          /\ v <= version[t]
          /\ t \in alive /\ v = version[t] => Told(t, gauges)
          /\ verdict' = [verdict EXCEPT ![t] = v]
    BY <1>5 DEF Settle
  <2>2. UNCHANGED <<version, alive, owed, gauges>>
    BY <1>5 DEF Settle, worldVars
  <2>3. verdict' \in Versions
    BY <2>1 DEF Grounded, Versions
  <2>4. ASSUME NEW p \in Thing
        PROVE  verdict'[p] <= version'[p] /\ (Fresh(p)' => Told(p, gauges)')
    <3>1. CASE p = t
      BY <3>1, <2>1, <2>2 DEF Grounded, Versions, Fresh, Told
    <3>2. CASE p # t
      BY <3>2, <2>1, <2>2, <1>v DEF Grounded, Versions, Fresh, Truthful, Told, Nothing
    <3> QED
      BY <3>1, <3>2
  <2> QED
    BY <2>2, <2>3, <2>4 DEF Grounded, NeverAhead, Truthful
<1>6. CASE UNCHANGED reportingVars
  BY <1>6
  DEF reportingVars, worldVars, reporterVars, Grounded, NeverAhead, Truthful, Fresh, Told, Nothing
<1> QED
  BY <1>1, <1>3, <1>4, <1>5, <1>6 DEF Next

(* Whatever is settled at the version it has is told on the gauges, in      *)
(* every implementation of Reporting: no verdict hides a failure           *)
(* (reconcileGroupOfObjects stores one only after processResult).          *)
THEOREM ReportingIsTruthful == ASSUME Version \subseteq Nat PROVE Spec => []Truthful
<1>1. Init => Grounded
  BY DEF Init, Grounded, Versions, NeverAhead, Truthful, Fresh, Nothing
<1>2. Grounded => Truthful
  BY DEF Grounded
<1> QED
  BY <1>1, <1>2, GroundedStep, PTL DEF Spec
===============================================================================
