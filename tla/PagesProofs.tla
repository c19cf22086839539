------------------------------ MODULE PagesProofs ------------------------------
(***************************************************************************)
(* Theorems about Grouping: no page, kind or object is left out, and the    *)
(* groups are those of module Groups.                                      *)
(***************************************************************************)
EXTENDS GroupingProofs, SequenceTheorems

-----------------------------------------------------------------------------
(* Of a spec with one field, readMatchLabels takes what that field selects  *)
(* by its labels.                                                          *)
LEMMA SelectorField ==
  ASSUME NEW spec, WellFormed(spec), present(spec.selector), ~ hasEmptySelector(spec), NEW l
  PROVE  SelectorMatches(GetLabelSelector(spec), l) <=> FieldMatches(spec.selector, l)
<1> DEFINE f == spec.selector
           ml == readMatchLabels(spec)
           me == readMatchExpressions(spec)
<1>1. ~ present(spec.podSelector) /\ expressionsOf(spec.podSelector) = <<>>
      /\ ~ hasMatchLabels(spec.podSelector)
  BY DEF WellFormed, expressionsOf, hasMatchExpressions, hasMatchLabels
<1>2. /\ GetLabelSelector(spec) = [matchLabels |-> ml, matchExpressions |-> me]
      /\ GetLabelSelector(spec) # NoLabelSelector
  BY DEF GetLabelSelector, hasSelector, WellFormed
<1>3. SelectorMatches(GetLabelSelector(spec), l)
        <=> /\ Subset(ml, l)
            /\ \A i \in DOMAIN me : ValidRequirement(me[i]) /\ RequirementHolds(me[i], l)
  <2> HIDE DEF ml, me
  <2> QED
    BY <1>2 DEF SelectorMatches
<1>4. CASE hasMatchExpressions(f)
  <2>1. AsLabelSelector(f)
    BY <1>4 DEF WellFormed, AsPlainMap, hasMatchExpressions
  <2>2. me = f.matchExpressions
    <3>1. f.matchExpressions \in Seq({f.matchExpressions[i] : i \in DOMAIN f.matchExpressions})
      BY <1>4, <2>1 DEF AsLabelSelector
    <3> QED
      BY <1>1, <1>4, <3>1, ConcatEmptySeq DEF readMatchExpressions, expressionsOf
  <2>3. CASE hasMatchLabels(f)
    BY <1>3, <1>4, <2>2, <2>3 DEF readMatchLabels, FieldMatches, expressionsOf
  <2>4. CASE ~ hasMatchLabels(f)
    <3>1. ml = NoMatchLabels
      BY <1>1, <1>4, <2>4 DEF readMatchLabels, NestedStringMap
    <3>2. Subset(NoMatchLabels, l)
      BY DEF Subset, NoMatchLabels
    <3> QED
      BY <1>3, <1>4, <2>2, <2>4, <3>1, <3>2 DEF FieldMatches, expressionsOf
  <2> QED
    BY <2>3, <2>4
<1>5. CASE ~ hasMatchExpressions(f)
  <2>1. me = <<>>
    BY <1>1, <1>5 DEF readMatchExpressions, expressionsOf
  <2>2. CASE hasMatchLabels(f)
    BY <1>3, <1>5, <2>1, <2>2 DEF readMatchLabels, FieldMatches, expressionsOf
  <2>3. CASE ~ hasMatchLabels(f)
    <3>1. ml = f.plain
      BY <1>1, <1>5, <2>3 DEF readMatchLabels, NestedStringMap
    <3> QED
      BY <1>3, <1>5, <2>1, <2>3, <3>1 DEF FieldMatches
  <2> QED
    BY <2>2, <2>3
<1> QED
  BY <1>4, <1>5

(* The same for podSelector. *)
LEMMA PodSelectorField ==
  ASSUME NEW spec, WellFormed(spec), present(spec.podSelector), ~ hasEmptySelector(spec), NEW l
  PROVE  SelectorMatches(GetLabelSelector(spec), l) <=> FieldMatches(spec.podSelector, l)
<1> DEFINE f == spec.podSelector
           ml == readMatchLabels(spec)
           me == readMatchExpressions(spec)
<1>1. ~ present(spec.selector) /\ expressionsOf(spec.selector) = <<>>
      /\ ~ hasMatchLabels(spec.selector) /\ AsLabelSelector(f)
  BY DEF WellFormed, expressionsOf, hasMatchExpressions, hasMatchLabels
<1>2. /\ GetLabelSelector(spec) = [matchLabels |-> ml, matchExpressions |-> me]
      /\ GetLabelSelector(spec) # NoLabelSelector
  BY DEF GetLabelSelector, hasSelector, WellFormed
<1>3. SelectorMatches(GetLabelSelector(spec), l)
        <=> /\ Subset(ml, l)
            /\ \A i \in DOMAIN me : ValidRequirement(me[i]) /\ RequirementHolds(me[i], l)
  <2> HIDE DEF ml, me
  <2> QED
    BY <1>2 DEF SelectorMatches
<1>4. me = expressionsOf(f)
  <2>1. CASE hasMatchExpressions(f)
    <3>1. f.matchExpressions \in Seq({f.matchExpressions[i] : i \in DOMAIN f.matchExpressions})
      BY <1>1, <2>1 DEF AsLabelSelector
    <3> QED
      BY <1>1, <2>1, <3>1, ConcatEmptySeq DEF readMatchExpressions, expressionsOf
  <2>2. CASE ~ hasMatchExpressions(f)
    BY <1>1, <2>2 DEF readMatchExpressions, expressionsOf
  <2> QED
    BY <2>1, <2>2
<1>5. hasMatchLabels(f) \/ hasMatchExpressions(f)
  <2>1. DOMAIN f.plain = {}
    BY <1>1 DEF AsLabelSelector, NoMatchLabels
  <2> QED
    BY <2>1 DEF hasEmptySelector, isEmptyMap
<1>6. Subset(ml, l) <=> (hasMatchLabels(f) => Subset(f.matchLabels, l))
  <2>1. CASE hasMatchLabels(f)
    BY <1>1, <2>1 DEF readMatchLabels
  <2>2. CASE ~ hasMatchLabels(f)
    BY <1>1, <2>2 DEF readMatchLabels, Subset, NoMatchLabels
  <2> QED
    BY <2>1, <2>2
<1>7. \A i \in DOMAIN expressionsOf(f) : expressionsOf(f)[i] = f.matchExpressions[i]
  BY DEF expressionsOf
<1> QED
  BY <1>3, <1>4, <1>5, <1>6, <1>7 DEF FieldMatches

(* An empty selector matches everything, in either field. *)
LEMMA EmptyField ==
  ASSUME NEW f, isEmptyMap(f), NEW l
  PROVE  FieldMatches(f, l)
BY DEF isEmptyMap, FieldMatches, Subset

(* GetLabelSelector finds what the Kubernetes API says an object selects, in *)
(* whichever of the five paths it is written.                               *)
LEMMA SelectorsAgree ==
  ASSUME NEW spec, WellFormed(spec), NEW l
  PROVE  SelectorMatches(GetLabelSelector(spec), l) <=> SpecifiedMatches(spec, l)
<1>1. CASE ~ hasSelector(spec)
  BY <1>1 DEF GetLabelSelector, SelectorMatches, SpecifiedMatches, hasSelector
<1>2. CASE hasEmptySelector(spec)
  <2>1. hasSelector(spec)
    BY <1>2 DEF hasEmptySelector, isEmptyMap, hasSelector
  <2>2. GetLabelSelector(spec) = EmptyLabelSelector /\ EmptyLabelSelector # NoLabelSelector
    BY <1>2, <2>1 DEF GetLabelSelector, WellFormed
  <2>3. SelectorMatches(EmptyLabelSelector, l)
    BY <2>2 DEF SelectorMatches, EmptyLabelSelector, Subset, NoMatchLabels
  <2>4. SpecifiedMatches(spec, l)
    BY <1>2, EmptyField DEF SpecifiedMatches, hasEmptySelector, isEmptyMap
  <2> QED
    BY <2>2, <2>3, <2>4
<1>3. CASE present(spec.selector) /\ ~ hasEmptySelector(spec)
  BY <1>3, SelectorField DEF SpecifiedMatches, WellFormed
<1>4. CASE present(spec.podSelector) /\ ~ hasEmptySelector(spec)
  BY <1>4, PodSelectorField DEF SpecifiedMatches, WellFormed
<1> QED
  BY <1>1, <1>2, <1>3, <1>4 DEF hasSelector

-----------------------------------------------------------------------------
(* An element put at the end of a sequence appears once more. *)
LEMMA AppearsOnceMore ==
  ASSUME NEW S, NEW s \in Seq(S), NEW e \in S
  PROVE  /\ ToSet(Append(s, e)) = ToSet(s) \cup {e}
         /\ Appearances(e, Append(s, e)) = Appearances(e, s) + 1
         /\ \A o : o # e => Appearances(o, Append(s, e)) = Appearances(o, s)
<1> DEFINE t == Append(s, e)
           At(o, q) == {i \in DOMAIN q : q[i] = o}
<1>1. /\ Len(s) \in Nat /\ DOMAIN s = 1..Len(s) /\ DOMAIN t = 1..(Len(s) + 1)
      /\ t[Len(s) + 1] = e /\ \A i \in 1..Len(s) : t[i] = s[i]
  OBVIOUS
<1>2. ToSet(t) = ToSet(s) \cup {e}
  BY <1>1 DEF ToSet
<1> HIDE DEF t
<1>3. At(e, t) = At(e, s) \cup {Len(s) + 1} /\ Len(s) + 1 \notin At(e, s)
  BY <1>1
<1>4. \A o : o # e => At(o, t) = At(o, s)
  BY <1>1
<1>5. IsFiniteSet(At(e, s))
  <2>1. IsFiniteSet(1..Len(s))
    BY <1>1, FS_Interval
  <2>2. At(e, s) \subseteq 1..Len(s)
    BY <1>1
  <2> QED
    BY <2>1, <2>2, FS_Subset
<1>6. Cardinality(At(e, t)) = Cardinality(At(e, s)) + 1
  <2> HIDE DEF At
  <2> QED
    BY <1>3, <1>5, FS_AddElement
<1> QED
  BY <1>2, <1>4, <1>6 DEF Appearances, t

(* What is not in a sequence does not appear in it. *)
LEMMA NeverAppears ==
  ASSUME NEW s, NEW o, o \notin ToSet(s)
  PROVE  Appearances(o, s) = 0
<1>1. {i \in DOMAIN s : s[i] = o} = {}
  BY DEF ToSet
<1> QED
  BY <1>1, FS_EmptySet DEF Appearances

(* A sequence is empty if nothing is in it. *)
LEMMA EmptyOrNot ==
  ASSUME NEW S, NEW s \in Seq(S)
  PROVE  s = <<>> <=> ToSet(s) = {}
BY DEF ToSet

(* How many of two reasons apply. *)
Reasons(a, b) == {why \in {"labels", "selector"} : \/ why = "labels" /\ a
                                                   \/ why = "selector" /\ b}

LEMMA ReasonsCounted ==
  ASSUME NEW a \in BOOLEAN, NEW b \in BOOLEAN
  PROVE  /\ a /\ b => Cardinality(Reasons(a, b)) = 2
         /\ (a /\ ~ b) \/ (~ a /\ b) => Cardinality(Reasons(a, b)) = 1
         /\ ~ a /\ ~ b => Cardinality(Reasons(a, b)) = 0
<1>1. Cardinality({"labels"}) = 1 /\ Cardinality({"selector"}) = 1 /\ IsFiniteSet({"labels"})
  BY FS_Singleton
<1>2. Cardinality({"labels", "selector"}) = 2
  <2>1. Cardinality({"labels"} \cup {"selector"}) = Cardinality({"labels"}) + 1
    BY <1>1, FS_AddElement
  <2>2. {"labels"} \cup {"selector"} = {"labels", "selector"}
    OBVIOUS
  <2> QED
    BY <1>1, <2>1, <2>2
<1>3. a /\ b => Reasons(a, b) = {"labels", "selector"}
  BY DEF Reasons
<1>4. a /\ ~ b => Reasons(a, b) = {"labels"}
  BY DEF Reasons
<1>5. ~ a /\ b => Reasons(a, b) = {"selector"}
  BY DEF Reasons
<1>6. ~ a /\ ~ b => Reasons(a, b) = {} /\ Cardinality({}) = 0
  BY FS_EmptySet DEF Reasons
<1> QED
  BY <1>1, <1>2, <1>3, <1>4, <1>5, <1>6, Zenon

-----------------------------------------------------------------------------
GK(gvk) == <<gvk[1], gvk[3]>>

(* The items still to put into groups, and the kinds still to list. *)
Pending == page \o rest
Unlisted == IF rest = <<>> THEN gvks ELSE Tail(gvks)

(* Objects come in the order of their numbers, kinds in the order of their  *)
(* names, and no kind twice.                                               *)
InOrder ==
    /\ \A i, j \in DOMAIN Pending : i < j => Pending[i].object < Pending[j].object
    /\ \A o \in ListedObjects : \A i \in DOMAIN Pending : o < Pending[i].object
    /\ \A i, j \in DOMAIN Unlisted : i < j => Before(GK(Unlisted[i]), GK(Unlisted[j]))
    /\ \A o \in ListedObjects \cup {Pending[i].object : i \in DOMAIN Pending} :
          \A j \in DOMAIN Unlisted : Before(KindOf[o], GK(Unlisted[j]))

(* The groups are right for what was put into them so far. *)
GroupHolds(l) ==
    /\ ToSet(relatedObjects[l]) = Related(ListedObjects, AsSpecified, l)
    /\ \A o \in ListedObjects :
         Appearances(o, relatedObjects[l]) =
            Cardinality(Reasons(HasLabels(AsSpecified, o, l),
                                Selects(ListedObjects, AsSpecified, o, l)))

(* What is steady was or will be seen as it is. *)
SteadyAsSeen ==
    /\ \A o \in steady : seen[o] \in {Absent, manifest[o]}
    /\ \A i \in DOMAIN Pending :
          Pending[i].object \in steady => Pending[i].manifest = manifest[Pending[i].object]

WantedKind(o) == \E r \in served : Wanted(r) /\ r.namespaced /\ GroupKind(r) = KindOf[o]

NoneLost ==
    pc # "idle" /\ discovery = "done" =>
        \A o \in steady : WantedKind(o) =>
            \/ seen[o] = manifest[o]
            \/ \E i \in DOMAIN Pending : Pending[i].object = o
            \/ \E j \in DOMAIN Unlisted : GK(Unlisted[j]) = KindOf[o]

Stages ==
    /\ pc # "idle" => Discovered
    /\ pc # "list" => gvks = <<>> /\ page = <<>>
    /\ gvks = <<>> => rest = <<>>

GroupingInv ==
    /\ DiscoveryInv /\ GroupingTypeOK /\ Stages
    /\ InOrder /\ SteadyAsSeen /\ NoneLost
    /\ \A l \in LabelSet : GroupHolds(l)

-----------------------------------------------------------------------------
(* An item is an object with one of the manifests it may have. *)
LEMMA ItemShape ==
  ASSUME NEW it \in Item
  PROVE  /\ it.object \in Object /\ it.manifest \in ManifestsOf[it.object]
         /\ it.manifest # Absent /\ it.manifest \in AnyManifest
         /\ it.manifest.labels \in LabelSet \cup {NoLabels} /\ WellFormed(it.manifest.spec)
<1>1. PICK o \in Object : \E m \in ManifestsOf[o] : it = [object |-> o, manifest |-> m]
  BY DEF Item
<1>2. PICK m \in ManifestsOf[o] : it = [object |-> o, manifest |-> m]
  BY <1>1
<1> QED
  BY <1>2, ManifestAssumption DEF AnyManifest

(* What putting the first item of the page into groups does. *)
LEMMA ItemProcessed ==
  ASSUME GroupingTypeOK, ProcessItem, NEW o, NEW m,
         o = Head(page).object, m = Head(page).manifest
  PROVE  /\ Head(page) \in Item /\ o \in Object /\ m # Absent
         /\ seen'[o] = m /\ \A q \in Object : q # o => seen'[q] = seen[q]
         /\ ListedObjects' = ListedObjects \cup {o}
         /\ \A l \in LabelSet :
              LET first == IF m.labels = l THEN Append(relatedObjects[l], o) ELSE relatedObjects[l]
              IN  relatedObjects'[l] =
                    IF first # <<>> /\ SpecifiedMatches(m.spec, l) THEN Append(first, o) ELSE first
<1>1. Head(page) \in Item
  BY DEF GroupingTypeOK, ProcessItem
<1>2. o \in Object /\ m # Absent /\ m.labels \in LabelSet \cup {NoLabels} /\ WellFormed(m.spec)
  BY <1>1, ItemShape
<1>3. seen' = [seen EXCEPT ![o] = m] /\ seen \in [Object -> AnyManifest]
  BY DEF ProcessItem, GroupingTypeOK
<1>4. ListedObjects' = ListedObjects \cup {o}
  BY <1>2, <1>3 DEF ListedObjects
<1> DEFINE ro == processResourceLabels(Head(page), relatedObjects)
<1>5. relatedObjects' = processResourceSelectors(Head(page), ro)
  BY DEF ProcessItem, process
<1>6. \A l \in LabelSet :
        ro[l] = IF m.labels = l THEN Append(relatedObjects[l], o) ELSE relatedObjects[l]
  BY <1>2, ManifestAssumption DEF processResourceLabels, GroupingTypeOK
<1>7. \A l \in LabelSet :
        relatedObjects'[l] = IF ro[l] # <<>> /\ SpecifiedMatches(m.spec, l)
                             THEN Append(ro[l], o) ELSE ro[l]
  <2> HIDE DEF ro
  <2> QED
    BY <1>2, <1>5, SelectorsAgree DEF processResourceSelectors
<1> HIDE DEF ro
<1> QED
  BY <1>1, <1>2, <1>3, <1>4, <1>6, <1>7

(* Putting an object behind all that were put before it keeps a group. *)
LEMMA ItemKeepsGroup ==
  ASSUME GroupingTypeOK, ProcessItem, NEW o, NEW m,
         o = Head(page).object, m = Head(page).manifest,
         \A p \in ListedObjects : p < o,
         NEW l \in LabelSet, GroupHolds(l)
  PROVE  GroupHolds(l)'
<1> DEFINE ro == relatedObjects[l]
           has == m.labels = l
           selects == SpecifiedMatches(m.spec, l)
           met == \E p \in ListedObjects : HasLabels(AsSpecified, p, l)
           first == IF has THEN Append(ro, o) ELSE ro
<1>0. /\ o \in Object /\ ListedObjects' = ListedObjects \cup {o} /\ m # Absent
      /\ seen'[o] = m /\ \A q \in Object : q # o => seen'[q] = seen[q]
  BY ItemProcessed
<1>1. /\ o \in Nat /\ ListedObjects \subseteq Object /\ ListedObjects \subseteq Nat
      /\ o \notin ListedObjects /\ ro \in Seq(Object)
  BY <1>0, GroupingAssumption DEF ListedObjects, GroupingTypeOK
<1>2. relatedObjects'[l] = IF first # <<>> /\ selects THEN Append(first, o) ELSE first
  BY ItemProcessed
<1>3. /\ \A q \in ListedObjects : AsSpecified'[q] = AsSpecified[q]
      /\ AsSpecified'[o].labels = m.labels
      /\ l \in AsSpecified'[o].selects <=> selects
  <2>1. AsSpecified' = [q \in ListedObjects' |->
                          [labels |-> seen'[q].labels,
                           selects |-> {k \in LabelSet : SpecifiedMatches(seen'[q].spec, k)}]]
    BY DEF AsSpecified
  <2>2. \A q \in ListedObjects : seen'[q] = seen[q]
    BY <1>0, <1>1
  <2>3. \A q \in ListedObjects : AsSpecified'[q] = AsSpecified[q]
    BY <1>0, <2>1, <2>2 DEF AsSpecified
  <2>4. AsSpecified'[o] = [labels |-> m.labels,
                           selects |-> {k \in LabelSet : SpecifiedMatches(m.spec, k)}]
    BY <1>0, <2>1
  <2> QED
    BY <2>3, <2>4
<1>4. \A q \in ListedObjects :
        /\ HasLabels(AsSpecified, q, l)' = HasLabels(AsSpecified, q, l)
        /\ Selects(ListedObjects, AsSpecified, q, l)' = Selects(ListedObjects, AsSpecified, q, l)
  <2> SUFFICES ASSUME NEW q \in ListedObjects
               PROVE  /\ HasLabels(AsSpecified', q, l) = HasLabels(AsSpecified, q, l)
                      /\ Selects(ListedObjects', AsSpecified', q, l) = Selects(ListedObjects, AsSpecified, q, l)
    OBVIOUS
  <2>1. \A p \in ListedObjects : HasLabels(AsSpecified', p, l) = HasLabels(AsSpecified, p, l)
    BY <1>3 DEF HasLabels
  <2>2. ~ (o <= q)
    BY <1>1
  <2>3. (\E p \in ListedObjects' : p <= q /\ HasLabels(AsSpecified', p, l))
          <=> (\E p \in ListedObjects : p <= q /\ HasLabels(AsSpecified, p, l))
    BY <1>0, <2>1, <2>2
  <2>4. AsSpecified'[q] = AsSpecified[q]
    BY <1>3
  <2>5. Selects(ListedObjects', AsSpecified', q, l) <=> Selects(ListedObjects, AsSpecified, q, l)
    BY <2>3, <2>4 DEF Selects
  <2> QED
    BY <2>1, <2>5 DEF Selects
<1>5. /\ HasLabels(AsSpecified', o, l) <=> has
      /\ Selects(ListedObjects', AsSpecified', o, l) <=> selects /\ (has \/ met)
  <2>1. HasLabels(AsSpecified', o, l) <=> has
    BY <1>3 DEF HasLabels
  <2>2. \A p \in ListedObjects : p <= o
    BY <1>1
  <2>3. (\E p \in ListedObjects' : p <= o /\ HasLabels(AsSpecified', p, l)) <=> has \/ met
    <3>1. o <= o
      BY <1>1
    <3> QED
      BY <1>0, <1>4, <2>1, <2>2, <3>1
  <2> QED
    BY <1>3, <2>1, <2>3 DEF Selects
<1>6. ro # <<>> <=> met
  <2>1. ro # <<>> <=> ToSet(ro) # {}
    BY <1>1, EmptyOrNot
  <2>2. ToSet(ro) # {} <=> met
    <3>1. \A p \in ListedObjects : p <= p
      BY <1>1
    <3> QED
      BY <3>1 DEF GroupHolds, Related, Selects
  <2> QED
    BY <2>1, <2>2
<1>7. first # <<>> <=> has \/ met
  <2>1. Append(ro, o) # <<>>
    <3>1. Len(Append(ro, o)) = Len(ro) + 1 /\ Len(ro) \in Nat /\ Len(<<>>) = 0
      BY <1>0, <1>1
    <3> QED
      BY <3>1
  <2> QED
    BY <1>6, <2>1
<1>8. /\ o \notin ToSet(ro) /\ Appearances(o, ro) = 0
  <2>1. o \notin ToSet(ro)
    BY <1>1 DEF GroupHolds, Related
  <2> QED
    BY <2>1, NeverAppears
<1>9. /\ first \in Seq(Object)
      /\ ToSet(first) = ToSet(ro) \cup (IF has THEN {o} ELSE {})
      /\ Appearances(o, first) = IF has THEN 1 ELSE 0
      /\ \A q : q # o => Appearances(q, first) = Appearances(q, ro)
  <2>1. CASE has
    BY <1>0, <1>1, <1>8, <2>1, AppearsOnceMore
  <2>2. CASE ~ has
    BY <1>1, <1>8, <2>2
  <2> QED
    BY <2>1, <2>2
<1> HIDE DEF first
<1>10. /\ ToSet(relatedObjects'[l]) =
             ToSet(ro) \cup (IF has \/ (selects /\ (has \/ met)) THEN {o} ELSE {})
       /\ Appearances(o, relatedObjects'[l]) =
             (IF has THEN 1 ELSE 0) + (IF selects /\ (has \/ met) THEN 1 ELSE 0)
       /\ \A q : q # o => Appearances(q, relatedObjects'[l]) = Appearances(q, ro)
  <2>1. CASE selects /\ (has \/ met)
    <3>1. relatedObjects'[l] = Append(first, o)
      BY <1>2, <1>7, <2>1
    <3> QED
      BY <1>0, <1>9, <2>1, <3>1, AppearsOnceMore
  <2>2. CASE ~ (selects /\ (has \/ met))
    <3>1. relatedObjects'[l] = first
      BY <1>2, <1>7, <2>2
    <3> QED
      BY <1>9, <2>2, <3>1
  <2> QED
    BY <2>1, <2>2
<1>11. ToSet(relatedObjects'[l]) = Related(ListedObjects', AsSpecified', l)
  <2>1. \A q \in ListedObjects :
          q \in Related(ListedObjects', AsSpecified', l) <=> q \in ToSet(ro)
    BY <1>0, <1>4 DEF Related, GroupHolds
  <2>2. o \in Related(ListedObjects', AsSpecified', l) <=> has \/ (selects /\ (has \/ met))
    BY <1>0, <1>5 DEF Related
  <2>3. Related(ListedObjects', AsSpecified', l) \subseteq ListedObjects \cup {o}
    BY <1>0 DEF Related
  <2>4. ToSet(ro) \subseteq ListedObjects
    BY DEF GroupHolds, Related
  <2> QED
    BY <1>8, <1>10, <2>1, <2>2, <2>3, <2>4
<1>12. Appearances(o, relatedObjects'[l]) =
         Cardinality(Reasons(HasLabels(AsSpecified', o, l), Selects(ListedObjects', AsSpecified', o, l)))
  <2>1. HasLabels(AsSpecified', o, l) \in BOOLEAN /\ Selects(ListedObjects', AsSpecified', o, l) \in BOOLEAN
    BY DEF HasLabels, Selects
  <2>2. CASE has /\ selects /\ (has \/ met)
    BY <1>5, <1>10, <2>1, <2>2, ReasonsCounted
  <2>3. CASE has /\ ~ (selects /\ (has \/ met))
    BY <1>5, <1>10, <2>1, <2>3, ReasonsCounted
  <2>4. CASE ~ has /\ selects /\ (has \/ met)
    BY <1>5, <1>10, <2>1, <2>4, ReasonsCounted
  <2>5. CASE ~ has /\ ~ (selects /\ (has \/ met))
    BY <1>5, <1>10, <2>1, <2>5, ReasonsCounted
  <2> QED
    BY <2>2, <2>3, <2>4, <2>5
<1>13. \A q \in ListedObjects :
         Appearances(q, relatedObjects'[l]) =
           Cardinality(Reasons(HasLabels(AsSpecified', q, l), Selects(ListedObjects', AsSpecified', q, l)))
  BY <1>1, <1>4, <1>10 DEF GroupHolds
<1> QED
  BY <1>0, <1>11, <1>12, <1>13 DEF GroupHolds

-----------------------------------------------------------------------------
(* The sequences SetToSeqs makes of a finite set hold each element once. *)
LEMMA SequencesOfASet ==
  ASSUME NEW S, IsFiniteSet(S), NEW s \in SetToSeqs(S)
  PROVE  /\ s \in Seq(S)
         /\ \A i, j \in DOMAIN s : i # j => s[i] # s[j]
         /\ \A e \in S : \E i \in DOMAIN s : s[i] = e
<1> DEFINE n == Cardinality(S)
<1>1. n \in Nat
  BY FS_CardinalityType
<1>2. s \in [1..n -> S] /\ \A i, j \in 1..n : i # j => s[i] # s[j]
  BY DEF SetToSeqs
<1>3. s \in Seq(S)
  BY <1>1, <1>2
<1>4. ASSUME NEW e \in S, \A i \in 1..n : s[i] # e
      PROVE  FALSE
  <2>1. s \in [1..n -> S \ {e}]
    BY <1>2, <1>4
  <2>2. IsFiniteSet(S \ {e}) /\ Cardinality(S \ {e}) = n - 1
    BY <1>4, FS_RemoveElement
  <2>3. IsFiniteSet(1..n) /\ Cardinality(1..n) = n
    BY <1>1, FS_Interval
  <2>4. Cardinality(S \ {e}) < Cardinality(1..n)
    BY <1>1, <2>2, <2>3
  <2> HIDE DEF n
  <2>5. \E x, y \in 1..n : x # y /\ s[x] = s[y]
    BY <2>1, <2>2, <2>3, <2>4, FS_PigeonHole
  <2> QED
    BY <1>2, <2>5
<1> QED
  BY <1>2, <1>3, <1>4

(* A page and what its token leads to are the list. *)
LEMMA PageSplits ==
  ASSUME NEW S, NEW items \in Seq(S)
  PROVE  /\ PageOf(items).page \in Seq(S) /\ PageOf(items).remaining \in Seq(S)
         /\ PageOf(items).page \o PageOf(items).remaining = items
<1> DEFINE n == IF ListLimit = 0 \/ ListLimit > Len(items) THEN Len(items) ELSE ListLimit
<1>1. n \in 0..Len(items) /\ Len(items) \in Nat
  BY GroupingAssumption
<1> HIDE DEF n
<1> DEFINE front == SubSeq(items, 1, n)
           back == SubSeq(items, n + 1, Len(items))
<1>2. PageOf(items) = [page |-> front, remaining |-> back]
  BY DEF PageOf, n
<1>3. front \in Seq(S) /\ back \in Seq(S)
  BY <1>1, SubSeqProperties
<1>4. front \o back = SubSeq(items, 1, Len(items))
  <2>1. 1 \in 1..(Len(items) + 1) /\ n \in (1 - 1)..Len(items) /\ Len(items) \in n..Len(items)
    BY <1>1
  <2> QED
    BY <2>1, ConcatAdjacentSubSeq
<1>5. SubSeq(items, 1, Len(items)) = items
  BY SubSeqFull
<1> HIDE DEF front, back
<1>6. PageOf(items).page = front /\ PageOf(items).remaining = back
  BY <1>2
<1> QED
  BY <1>3, <1>4, <1>5, <1>6, Zenon

(* A snapshot has every object of the kind that exists, as it is, in order. *)
LEMMA SnapshotComplete ==
  ASSUME GroupingTypeOK, NEW gvk, NEW items \in Snapshots(gvk)
  PROVE  /\ items \in Seq(Item)
         /\ \A i \in DOMAIN items : /\ items[i].object \in Object
                                    /\ items[i].manifest = manifest[items[i].object]
                                    /\ KindOf[items[i].object] = GK(gvk)
         /\ \A i, j \in DOMAIN items : i < j => items[i].object < items[j].object
         /\ \A o \in Object : manifest[o] # Absent /\ KindOf[o] = GK(gvk) =>
               \E i \in DOMAIN items : items[i].object = o
<1> DEFINE objs == {o \in Object : manifest[o] # Absent /\ KindOf[o] = <<gvk[1], gvk[3]>>}
<1>1. PICK s \in InListOrder(objs) :
        items = [i \in DOMAIN s |-> [object |-> s[i], manifest |-> manifest[s[i]]]]
  BY DEF Snapshots
<1>2. IsFiniteSet(objs)
  BY GroupingAssumption, FS_Subset
<1>3. s \in SetToSeqs(objs) /\ \A i, j \in DOMAIN s : i < j => s[i] < s[j]
  BY <1>1 DEF InListOrder
<1> HIDE DEF objs
<1>4. s \in Seq(objs) /\ \A o \in objs : \E i \in DOMAIN s : s[i] = o
  BY <1>2, <1>3, SequencesOfASet
<1>5. \A o \in objs : o \in Object /\ manifest[o] \in ManifestsOf[o] /\ KindOf[o] = GK(gvk)
  BY DEF objs, GroupingTypeOK, GK
<1>6. \A i \in DOMAIN s : s[i] \in objs
  BY <1>4
<1>7. DOMAIN items = DOMAIN s
      /\ \A i \in DOMAIN s : items[i].object = s[i] /\ items[i].manifest = manifest[s[i]]
  BY <1>1
<1>8. \A i \in DOMAIN s : [object |-> s[i], manifest |-> manifest[s[i]]] \in Item
  BY <1>5, <1>6 DEF Item
<1>9. items \in Seq(Item)
  <2>1. Len(s) \in Nat /\ DOMAIN s = 1..Len(s)
    BY <1>4, LenProperties
  <2>2. items \in [1..Len(s) -> Item]
    BY <1>1, <1>8, <2>1
  <2> QED
    BY <2>1, <2>2
<1>10. \A o \in Object : manifest[o] # Absent /\ KindOf[o] = GK(gvk) => o \in objs
  BY DEF objs, GK
<1> QED
  BY <1>3, <1>4, <1>5, <1>6, <1>7, <1>9, <1>10

(* A call of List goes on with the list it began, or takes up the next kind. *)
LEMMA ListAdvances ==
  ASSUME GroupingTypeOK, ListPage
  PROVE  /\ gvks' \in Seq(Recognized) /\ page' \in Seq(Item) /\ rest' \in Seq(Item)
         /\ \/ Pending' = Pending /\ Unlisted' = Unlisted
            \/ /\ Pending = <<>> /\ Unlisted \in Seq(Recognized) /\ Unlisted # <<>>
               /\ Pending' \in Snapshots(Head(Unlisted)) /\ Unlisted' = Tail(Unlisted)
<1>1. gvks \in Seq(Recognized) /\ page = <<>> /\ rest \in Seq(Item) /\ gvks # <<>>
  BY DEF GroupingTypeOK, ListPage
<1>2. Pending = rest
  BY <1>1, ConcatEmptySeq DEF Pending
<1>3. gvks' = (IF rest' = <<>> THEN Tail(gvks) ELSE gvks) /\ Unlisted' = Tail(gvks)
  <2>1. gvks' = (IF rest' = <<>> THEN Tail(gvks) ELSE gvks)
    BY DEF ListPage
  <2> QED
    BY <2>1 DEF Unlisted
<1>4. gvks' \in Seq(Recognized)
  BY <1>1, <1>3, HeadTailProperties
<1>5. PICK items \in (IF rest = <<>> THEN Snapshots(Head(gvks)) ELSE {rest}) :
        page' = PageOf(items).page /\ rest' = PageOf(items).remaining
  BY DEF ListPage
<1>6. items \in Seq(Item)
  BY <1>1, <1>5, SnapshotComplete
<1>7. page' \in Seq(Item) /\ rest' \in Seq(Item) /\ Pending' = items
  BY <1>5, <1>6, PageSplits DEF Pending
<1>8. CASE rest = <<>>
  BY <1>1, <1>2, <1>3, <1>4, <1>5, <1>7, <1>8 DEF Unlisted
<1>9. CASE rest # <<>>
  BY <1>2, <1>3, <1>4, <1>5, <1>7, <1>9 DEF Unlisted
<1> QED
  BY <1>8, <1>9

(* The loop over a page takes the first of what is pending. *)
LEMMA ItemLeavesPending ==
  ASSUME GroupingTypeOK, ProcessItem
  PROVE  /\ Pending \in Seq(Item) /\ Pending # <<>> /\ Head(page) = Pending[1]
         /\ Pending' \in Seq(Item) /\ Len(Pending) = Len(Pending') + 1
         /\ \A i \in DOMAIN Pending' : Pending'[i] = Pending[i + 1] /\ i + 1 \in DOMAIN Pending
         /\ \A i \in DOMAIN Pending : i # 1 => i - 1 \in DOMAIN Pending' /\ Pending'[i - 1] = Pending[i]
         /\ 1 \in DOMAIN Pending /\ page' \in Seq(Item) /\ Unlisted' = Unlisted
<1>1. page \in Seq(Item) /\ page # <<>> /\ rest \in Seq(Item)
      /\ page' = Tail(page) /\ rest' = rest /\ gvks' = gvks
  BY DEF GroupingTypeOK, ProcessItem
<1>2. /\ page' \in Seq(Item) /\ Len(page') = Len(page) - 1 /\ Len(page) \in Nat \ {0}
      /\ \A i \in 1..Len(page') : page'[i] = page[i + 1]
      /\ Len(rest) \in Nat /\ Head(page) = page[1]
  BY <1>1, HeadTailProperties, EmptySeq, LenProperties
<1>3. /\ Pending \in Seq(Item) /\ Len(Pending) = Len(page) + Len(rest)
      /\ \A i \in 1..(Len(page) + Len(rest)) :
            Pending[i] = IF i <= Len(page) THEN page[i] ELSE rest[i - Len(page)]
  BY <1>1, ConcatProperties DEF Pending
<1>4. /\ Pending' \in Seq(Item) /\ Len(Pending') = Len(page') + Len(rest)
      /\ \A i \in 1..(Len(page') + Len(rest)) :
            Pending'[i] = IF i <= Len(page') THEN page'[i] ELSE rest[i - Len(page')]
  BY <1>1, <1>2, ConcatProperties DEF Pending
<1>5. DOMAIN Pending = 1..Len(Pending) /\ DOMAIN Pending' = 1..Len(Pending')
  BY <1>3, <1>4, LenProperties
<1>6. Unlisted' = Unlisted
  BY <1>1 DEF Unlisted
<1> HIDE DEF Pending, Unlisted
<1>7. \A i \in DOMAIN Pending' : Pending'[i] = Pending[i + 1] /\ i + 1 \in DOMAIN Pending
  <2> SUFFICES ASSUME NEW i \in DOMAIN Pending'
               PROVE  Pending'[i] = Pending[i + 1] /\ i + 1 \in DOMAIN Pending
    OBVIOUS
  <2>1. CASE i <= Len(page')
    BY <1>2, <1>3, <1>4, <1>5, <2>1
  <2>2. CASE ~ (i <= Len(page'))
    <3>1. /\ i \in 1..Len(Pending') /\ i + 1 \in 1..Len(Pending)
          /\ (i + 1) - Len(page) = i - Len(page') /\ ~ (i + 1 <= Len(page))
      BY <1>2, <1>3, <1>4, <1>5, <2>2
    <3> QED
      BY <1>3, <1>4, <1>5, <2>2, <3>1
  <2> QED
    BY <2>1, <2>2
<1>8. /\ Len(Pending) = Len(Pending') + 1 /\ Len(Pending') \in Nat /\ 1 \in DOMAIN Pending
      /\ Pending[1] = page[1]
  BY <1>2, <1>3, <1>4, <1>5
<1>9. \A i \in DOMAIN Pending : i # 1 => i - 1 \in DOMAIN Pending' /\ Pending'[i - 1] = Pending[i]
  <2> SUFFICES ASSUME NEW i \in DOMAIN Pending, i # 1
               PROVE  i - 1 \in DOMAIN Pending' /\ Pending'[i - 1] = Pending[i]
    OBVIOUS
  <2>1. i - 1 \in DOMAIN Pending' /\ (i - 1) + 1 = i
    BY <1>5, <1>8
  <2> QED
    BY <1>7, <2>1
<1> QED
  BY <1>1, <1>2, <1>3, <1>4, <1>6, <1>7, <1>8, <1>9, EmptySeq

(* The kinds in an order sort.Slice may leave: each once, in the order of    *)
(* their names.                                                             *)
LEMMA KindsSorted ==
  ASSUME DiscoveryInv, NEW kinds \in SortedOrders(getNamespacedResourcesGVK)
  PROVE  /\ kinds \in Seq(Recognized)
         /\ \A i, j \in DOMAIN kinds : i < j => Before(GK(kinds[i]), GK(kinds[j]))
         /\ discovery = "done" => \A o \in Object : WantedKind(o) =>
               \E i \in DOMAIN kinds : GK(kinds[i]) = KindOf[o]
<1> DEFINE entries == {e \in apiResources : e.namespaced}
           listed == {gvkFromMetav1APIResource(r) : r \in entries}
<1>1. getNamespacedResourcesGVK = listed
  BY DEF getNamespacedResourcesGVK
<1>2. IsFiniteSet(listed)
  <2>1. IsFiniteSet(entries)
    BY FS_Subset DEF DiscoveryInv
  <2> DEFINE f == [e \in entries |-> gvkFromMetav1APIResource(e)]
  <2>2. f \in Surjection(entries, listed)
    BY DEF Surjection
  <2> HIDE DEF entries, listed, f
  <2> QED
    BY <2>1, <2>2, FS_Surjection
<1>3. \A e \in apiResources : \E q \in served :
        /\ Wanted(q) /\ e.namespaced = q.namespaced
        /\ gvkFromMetav1APIResource(e) = gvkFromMetav1APIResource(q)
        /\ GroupKind(e) = GroupKind(q) /\ GroupKind(q) \in Nat \X Nat
  BY ServedOnes DEF DiscoveryInv, Read, SameScope, GroupKind, gvkFromMetav1APIResource
<1>4. \A e \in apiResources : GK(gvkFromMetav1APIResource(e)) = GroupKind(e)
  BY DEF GK, gvkFromMetav1APIResource, GroupKind
<1>5. listed \subseteq Recognized
  BY <1>3 DEF Wanted
<1>6. \A k \in listed : GK(k) \in Nat \X Nat
  BY <1>3, <1>4
<1>7. \A k, h \in listed : GK(k) = GK(h) => k = h
  BY <1>4 DEF DiscoveryInv
<1>8. kinds \in SetToSeqs(listed) /\ Sorted(kinds)
  BY <1>1 DEF SortedOrders
<1> HIDE DEF listed
<1>9. /\ kinds \in Seq(listed) /\ \A i, j \in DOMAIN kinds : i # j => kinds[i] # kinds[j]
      /\ \A k \in listed : \E i \in DOMAIN kinds : kinds[i] = k
  BY <1>2, <1>8, SequencesOfASet
<1>10. kinds \in Seq(Recognized)
  BY <1>5, <1>9, SeqMonotonic
<1>11. ASSUME NEW i \in DOMAIN kinds, NEW j \in DOMAIN kinds, i < j
       PROVE  Before(GK(kinds[i]), GK(kinds[j]))
  <2>1. kinds[i] \in listed /\ kinds[j] \in listed /\ i # j
    BY <1>9, <1>11
  <2>2. GK(kinds[i]) # GK(kinds[j]) /\ GK(kinds[i]) \in Nat \X Nat /\ GK(kinds[j]) \in Nat \X Nat
    BY <1>6, <1>7, <1>9, <2>1
  <2>3. ~ Before(GK(kinds[j]), GK(kinds[i]))
    BY <1>8, <1>11 DEF Sorted, GK
  <2> HIDE DEF GK
  <2> QED
    BY <2>2, <2>3 DEF Before
<1>12. ASSUME discovery = "done", NEW o \in Object, WantedKind(o)
       PROVE  \E i \in DOMAIN kinds : GK(kinds[i]) = KindOf[o]
  <2>1. PICK r \in served : Wanted(r) /\ r.namespaced /\ GroupKind(r) = KindOf[o]
    BY <1>12 DEF WantedKind
  <2>2. r \in Read
    BY <1>12 DEF DiscoveryInv, Read
  <2>3. PICK e \in apiResources : GroupKind(e) = GroupKind(r)
    BY <1>12, <2>1, <2>2 DEF DiscoveryInv
  <2>4. e.namespaced
    BY <1>3, <2>1, <2>3, ServedOnes
  <2>5. gvkFromMetav1APIResource(e) \in listed
    BY <2>4 DEF listed
  <2> QED
    BY <1>4, <1>9, <2>1, <2>3, <2>5
<1> QED
  BY <1>10, <1>11, <1>12

-----------------------------------------------------------------------------
(* Groups depend on what was seen and on the map alone. *)
LEMMA GroupsUntouched ==
  ASSUME NEW l \in LabelSet, GroupHolds(l), seen' = seen, relatedObjects' = relatedObjects
  PROVE  GroupHolds(l)'
<1>1. ListedObjects' = ListedObjects
  BY DEF ListedObjects
<1>2. AsSpecified' = AsSpecified
  BY <1>1 DEF AsSpecified
<1> QED
  BY <1>1, <1>2 DEF GroupHolds

(* Before anything was put into groups they are right. *)
LEMMA NothingGrouped ==
  ASSUME NEW l \in LabelSet
  PROVE  /\ seen = NothingSeen /\ relatedObjects = NothingRelated => GroupHolds(l)
         /\ seen' = NothingSeen /\ relatedObjects' = NothingRelated => GroupHolds(l)'
<1>1. NothingRelated[l] = <<>> /\ ToSet(<<>>) = {}
  BY DEF NothingRelated, ToSet
<1>2. ASSUME seen = NothingSeen, relatedObjects = NothingRelated
      PROVE  GroupHolds(l)
  <2>1. ListedObjects = {}
    BY <1>2 DEF ListedObjects, NothingSeen
  <2> QED
    BY <1>1, <1>2, <2>1 DEF GroupHolds, Related
<1>3. ASSUME seen' = NothingSeen, relatedObjects' = NothingRelated
      PROVE  GroupHolds(l)'
  <2>1. ListedObjects' = {}
    BY <1>3 DEF ListedObjects, NothingSeen
  <2> QED
    BY <1>1, <1>3, <2>1 DEF GroupHolds, Related
<1> QED
  BY <1>2, <1>3

(* The map and the history at the beginning are well-typed. *)
LEMMA NothingTyped ==
  /\ NothingRelated \in [LabelSet -> Seq(Object)]
  /\ NothingSeen \in [Object -> AnyManifest]
  /\ \A o \in Object : NothingSeen[o] = Absent
BY DEF NothingRelated, NothingSeen, AnyManifest

(* Nothing is lost, nor out of order, where nothing is held. *)
LEMMA InitKeeps == Init => GroupingInv
<1> SUFFICES ASSUME Init PROVE GroupingInv
  OBVIOUS
<1>1. /\ gvks = <<>> /\ page = <<>> /\ rest = <<>> /\ pc = "idle" /\ steady = {}
      /\ seen = NothingSeen /\ relatedObjects = NothingRelated /\ edits = 0
  BY DEF Init
<1>2. Pending = <<>> /\ Unlisted = <<>> /\ ListedObjects = {}
  BY <1>1 DEF Pending, Unlisted, ListedObjects, NothingSeen
<1>3. DiscoveryInv
  BY FS_EmptySet DEF Init, DiscoveryInit, DiscoveryInv, Read
<1>4. GroupingTypeOK
  BY <1>1, NothingTyped, GroupingAssumption DEF Init, DiscoveryInit, GroupingTypeOK
<1>5. InOrder /\ SteadyAsSeen /\ NoneLost /\ Stages
  BY <1>1, <1>2 DEF InOrder, SteadyAsSeen, NoneLost, Stages
<1>6. \A l \in LabelSet : GroupHolds(l)
  BY <1>1, NothingGrouped
<1> QED
  BY <1>3, <1>4, <1>5, <1>6 DEF GroupingInv

(* While discovery runs no namespace is looked at. *)
LEMMA DiscoveryKeeps ==
  ASSUME GroupingInv, DiscoveryNext, UNCHANGED <<manifest, edits, groupingVars, steady>>
  PROVE  GroupingInv'
<1>1. DiscoveryInv'
  <2>1. Next
    BY DEF Next
  <2> QED
    BY <2>1, DiscoveryStep DEF GroupingInv
<1>2. pc = "idle"
  BY DEF DiscoveryNext, AskServer, DiscoveryFails, EndDiscovery, AddResource, GroupingInv,
         Stages, Discovered, GroupingTypeOK
<1>3. discovery' \in {"ask", "read", "done", "failed"}
  BY DEF DiscoveryNext, AskServer, DiscoveryFails, EndDiscovery, AddResource
<1>4. /\ manifest' = manifest /\ edits' = edits /\ steady' = steady /\ pc' = pc /\ gvks' = gvks
      /\ page' = page /\ rest' = rest /\ relatedObjects' = relatedObjects /\ seen' = seen
  BY DEF groupingVars
<1>5. Pending' = Pending /\ Unlisted' = Unlisted /\ ListedObjects' = ListedObjects
  BY <1>4 DEF Pending, Unlisted, ListedObjects
<1>6. GroupingTypeOK'
  <2>1. unread' \subseteq served'
    BY <1>1 DEF DiscoveryInv
  <2> QED
    BY <1>3, <1>4, <2>1 DEF GroupingTypeOK, GroupingInv
<1>7. InOrder' /\ SteadyAsSeen'
  BY <1>4, <1>5 DEF InOrder, SteadyAsSeen, GroupingInv
<1>8. NoneLost' /\ Stages'
  BY <1>2, <1>4 DEF NoneLost, Stages, GroupingInv
<1>9. \A l \in LabelSet : GroupHolds(l)'
  BY <1>4, GroupsUntouched DEF GroupingInv
<1> QED
  BY <1>1, <1>6, <1>7, <1>8, <1>9 DEF GroupingInv

(* A namespace is begun with every wanted kind still to list. *)
LEMMA BeginKeeps ==
  ASSUME GroupingInv, BeginGrouping
  PROVE  GroupingInv'
<1>1. /\ gvks' \in SortedOrders(getNamespacedResourcesGVK) /\ page' = <<>> /\ rest' = <<>>
      /\ pc' = "list" /\ relatedObjects' = NothingRelated /\ seen' = NothingSeen
      /\ steady' = Object /\ manifest' = manifest /\ edits' = edits /\ Discovered
      /\ discovery' = discovery /\ served' = served /\ unread' = unread /\ apiResources' = apiResources
  BY DEF BeginGrouping, discoveryVars
<1>2. /\ gvks' \in Seq(Recognized)
      /\ \A i, j \in DOMAIN gvks' : i < j => Before(GK(gvks'[i]), GK(gvks'[j]))
      /\ discovery = "done" => \A o \in Object : WantedKind(o) =>
            \E i \in DOMAIN gvks' : GK(gvks'[i]) = KindOf[o]
  BY <1>1, KindsSorted DEF GroupingInv
<1>3. Pending' = <<>> /\ Unlisted' = gvks' /\ ListedObjects' = {}
  BY <1>1 DEF Pending, Unlisted, ListedObjects, NothingSeen
<1>4. DiscoveryInv'
  BY <1>1 DEF GroupingInv, DiscoveryInv, Read
<1>5. GroupingTypeOK'
  BY <1>1, <1>2, NothingTyped DEF GroupingInv, GroupingTypeOK
<1>6. InOrder'
  BY <1>2, <1>3 DEF InOrder
<1>7. SteadyAsSeen'
  BY <1>1, <1>3, NothingTyped DEF SteadyAsSeen
<1>8. NoneLost'
  BY <1>1, <1>2, <1>3 DEF NoneLost, WantedKind
<1>9. Stages'
  BY <1>1 DEF Stages, Discovered
<1>10. \A l \in LabelSet : GroupHolds(l)'
  BY <1>1, NothingGrouped
<1> QED
  BY <1>4, <1>5, <1>6, <1>7, <1>8, <1>9, <1>10 DEF GroupingInv

(* A namespace that is given up, or done with, leaves nothing. *)
LEMMA ForgetKeeps ==
  ASSUME GroupingInv, Forget
  PROVE  GroupingInv'
<1>1. /\ gvks' = <<>> /\ page' = <<>> /\ rest' = <<>> /\ pc' = "idle"
      /\ relatedObjects' = NothingRelated /\ seen' = NothingSeen
      /\ steady' = steady /\ manifest' = manifest /\ edits' = edits
      /\ discovery' = discovery /\ served' = served /\ unread' = unread /\ apiResources' = apiResources
  BY DEF Forget, discoveryVars
<1>2. Pending' = <<>> /\ Unlisted' = <<>> /\ ListedObjects' = {}
  BY <1>1 DEF Pending, Unlisted, ListedObjects, NothingSeen
<1>3. DiscoveryInv'
  BY <1>1 DEF GroupingInv, DiscoveryInv, Read
<1>4. GroupingTypeOK'
  BY <1>1, NothingTyped DEF GroupingInv, GroupingTypeOK
<1>5. SteadyAsSeen'
  <2>1. steady \subseteq Object
    BY DEF GroupingInv, GroupingTypeOK
  <2> QED
    BY <1>1, <1>2, <2>1, NothingTyped DEF SteadyAsSeen
<1>6. InOrder' /\ NoneLost' /\ Stages'
  BY <1>1, <1>2 DEF InOrder, NoneLost, Stages
<1>7. \A l \in LabelSet : GroupHolds(l)'
  BY <1>1, NothingGrouped
<1> QED
  BY <1>3, <1>4, <1>5, <1>6, <1>7 DEF GroupingInv

(* All lists are read and all items are in their groups. *)
LEMMA EndKeeps ==
  ASSUME GroupingInv, EndGrouping
  PROVE  GroupingInv'
<1>1. /\ gvks' = gvks /\ page' = page /\ rest' = rest /\ pc = "list" /\ pc' = "grouped"
      /\ gvks = <<>> /\ page = <<>>
      /\ relatedObjects' = relatedObjects /\ seen' = seen
      /\ steady' = steady /\ manifest' = manifest /\ edits' = edits
      /\ discovery' = discovery /\ served' = served /\ unread' = unread /\ apiResources' = apiResources
  BY DEF EndGrouping, discoveryVars
<1>2. Pending' = Pending /\ Unlisted' = Unlisted /\ ListedObjects' = ListedObjects
  BY <1>1 DEF Pending, Unlisted, ListedObjects
<1>3. DiscoveryInv'
  BY <1>1 DEF GroupingInv, DiscoveryInv, Read
<1>4. GroupingTypeOK'
  BY <1>1 DEF GroupingInv, GroupingTypeOK
<1>5. InOrder' /\ SteadyAsSeen'
  BY <1>1, <1>2 DEF InOrder, SteadyAsSeen, GroupingInv
<1>6. NoneLost' /\ Stages'
  BY <1>1, <1>2 DEF NoneLost, Stages, WantedKind, Discovered, GroupingInv
<1>7. \A l \in LabelSet : GroupHolds(l)'
  BY <1>1, GroupsUntouched DEF GroupingInv
<1> QED
  BY <1>3, <1>4, <1>5, <1>6, <1>7 DEF GroupingInv

(* An object that changes is not steady any more. *)
LEMMA EditKeeps ==
  ASSUME GroupingInv, NEW o \in Object, NEW m \in ManifestsOf[o] \cup {Absent}, EditObject(o, m)
  PROVE  GroupingInv'
<1>1. /\ gvks' = gvks /\ page' = page /\ rest' = rest /\ pc' = pc
      /\ relatedObjects' = relatedObjects /\ seen' = seen
      /\ steady' = steady \ {o} /\ manifest' = [manifest EXCEPT ![o] = m]
      /\ edits < MaxEdits /\ edits' = edits + 1
      /\ discovery' = discovery /\ served' = served /\ unread' = unread /\ apiResources' = apiResources
  BY DEF EditObject, discoveryVars, groupingVars
<1>2. Pending' = Pending /\ Unlisted' = Unlisted /\ ListedObjects' = ListedObjects
  BY <1>1 DEF Pending, Unlisted, ListedObjects
<1>3. manifest \in [Object -> AnyManifest] /\ m \in AnyManifest
  BY DEF GroupingInv, GroupingTypeOK, AnyManifest
<1>4. /\ manifest' \in [Object -> AnyManifest] /\ manifest'[o] = m
      /\ \A p \in Object : p # o => manifest'[p] = manifest[p]
  BY <1>1, <1>3
<1>5. DiscoveryInv'
  BY <1>1 DEF GroupingInv, DiscoveryInv, Read
<1>6. edits' \in 0..MaxEdits
  BY <1>1, GroupingAssumption DEF GroupingInv, GroupingTypeOK
<1>7. \A p \in Object : manifest'[p] \in ManifestsOf[p] \cup {Absent}
  BY <1>4 DEF GroupingInv, GroupingTypeOK
<1>8. GroupingTypeOK'
  BY <1>1, <1>4, <1>6, <1>7 DEF GroupingInv, GroupingTypeOK
<1>9. \A p \in steady' : p \in steady /\ p \in Object /\ manifest'[p] = manifest[p]
  BY <1>1, <1>4 DEF GroupingInv, GroupingTypeOK
<1>10. InOrder' /\ Stages'
  BY <1>1, <1>2 DEF InOrder, Stages, Discovered, GroupingInv
<1>11. SteadyAsSeen'
  BY <1>1, <1>2, <1>9 DEF SteadyAsSeen, GroupingInv
<1>12. NoneLost'
  BY <1>1, <1>2, <1>9 DEF NoneLost, WantedKind, GroupingInv
<1>13. \A l \in LabelSet : GroupHolds(l)'
  BY <1>1, GroupsUntouched DEF GroupingInv
<1> QED
  BY <1>5, <1>8, <1>10, <1>11, <1>12, <1>13 DEF GroupingInv

-----------------------------------------------------------------------------
(* Objects come in the order in which their kinds do. *)
LEMMA KindsOrderObjects ==
  ASSUME NEW o \in Object, NEW p \in Object, Before(KindOf[o], KindOf[p])
  PROVE  o < p
<1>1. o \in Nat /\ p \in Nat /\ KindOf[o] \in Nat \X Nat /\ KindOf[p] \in Nat \X Nat
  BY GroupingAssumption
<1>2. ~ (p < o)
  BY GroupingAssumption
<1>3. o # p
  BY <1>1 DEF Before
<1> QED
  BY <1>1, <1>2, <1>3

(* A call of List. *)
LEMMA ListKeeps ==
  ASSUME GroupingInv, ListPage
  PROVE  GroupingInv'
<1>1. /\ pc = "list" /\ pc' = pc /\ page = <<>> /\ gvks # <<>>
      /\ gvks' = (IF rest' = <<>> THEN Tail(gvks) ELSE gvks)
      /\ relatedObjects' = relatedObjects /\ seen' = seen
      /\ steady' = steady /\ manifest' = manifest /\ edits' = edits
      /\ discovery' = discovery /\ served' = served /\ unread' = unread /\ apiResources' = apiResources
  BY DEF ListPage, discoveryVars
<1>2. GroupingTypeOK /\ DiscoveryInv
  BY DEF GroupingInv
<1>3. /\ gvks' \in Seq(Recognized) /\ page' \in Seq(Item) /\ rest' \in Seq(Item)
      /\ \/ Pending' = Pending /\ Unlisted' = Unlisted
         \/ /\ Pending = <<>> /\ Unlisted \in Seq(Recognized) /\ Unlisted # <<>>
            /\ Pending' \in Snapshots(Head(Unlisted)) /\ Unlisted' = Tail(Unlisted)
  BY <1>2, ListAdvances
<1>4. DiscoveryInv'
  BY <1>1, <1>2 DEF DiscoveryInv, Read
<1>5. GroupingTypeOK'
  BY <1>1, <1>2, <1>3 DEF GroupingTypeOK
<1>6. Stages'
  BY <1>1 DEF Stages, Discovered, GroupingInv
<1>7. \A l \in LabelSet : GroupHolds(l)'
  BY <1>1, GroupsUntouched DEF GroupingInv
<1>8. ListedObjects' = ListedObjects
  BY <1>1 DEF ListedObjects
<1>9. CASE Pending' = Pending /\ Unlisted' = Unlisted
  <2>1. InOrder' /\ SteadyAsSeen'
    BY <1>1, <1>8, <1>9 DEF InOrder, SteadyAsSeen, GroupingInv
  <2>2. NoneLost'
    BY <1>1, <1>9 DEF NoneLost, WantedKind, GroupingInv
  <2> QED
    BY <1>4, <1>5, <1>6, <1>7, <2>1, <2>2 DEF GroupingInv
<1>10. CASE /\ Pending = <<>> /\ Unlisted \in Seq(Recognized) /\ Unlisted # <<>>
            /\ Pending' \in Snapshots(Head(Unlisted)) /\ Unlisted' = Tail(Unlisted)
  <2> DEFINE items == Pending'
             kind == GK(Head(Unlisted))
  <2>1. /\ items \in Seq(Item)
        /\ \A i \in DOMAIN items : /\ items[i].object \in Object
                                   /\ items[i].manifest = manifest[items[i].object]
                                   /\ KindOf[items[i].object] = kind
        /\ \A i, j \in DOMAIN items : i < j => items[i].object < items[j].object
        /\ \A o \in Object : manifest[o] # Absent /\ KindOf[o] = kind =>
              \E i \in DOMAIN items : items[i].object = o
    BY <1>2, <1>10, SnapshotComplete
  <2>2. /\ Head(Unlisted) = Unlisted[1] /\ 1 \in DOMAIN Unlisted
        /\ \A j \in DOMAIN Tail(Unlisted) :
              /\ j + 1 \in DOMAIN Unlisted /\ 1 < j + 1
              /\ Tail(Unlisted)[j] = Unlisted[j + 1]
        /\ \A j \in DOMAIN Unlisted : j # 1 =>
              j - 1 \in DOMAIN Tail(Unlisted) /\ Tail(Unlisted)[j - 1] = Unlisted[j]
    BY <1>10, HeadTailProperties, LenProperties, EmptySeq
  <2>3. /\ \A i, j \in DOMAIN Unlisted : i < j => Before(GK(Unlisted[i]), GK(Unlisted[j]))
        /\ \A o \in ListedObjects : \A j \in DOMAIN Unlisted : Before(KindOf[o], GK(Unlisted[j]))
    BY DEF InOrder, GroupingInv
  <2>4. Unlisted' = Tail(Unlisted)
    BY <1>10
  <2> HIDE DEF items, kind, GK
  <2>5. \A o \in ListedObjects : \A i \in DOMAIN items : o < items[i].object
    <3> SUFFICES ASSUME NEW o \in ListedObjects, NEW i \in DOMAIN items
                 PROVE  o < items[i].object
      OBVIOUS
    <3>1. Before(KindOf[o], kind)
      BY <2>2, <2>3 DEF kind
    <3>2. o \in Object
      BY DEF ListedObjects
    <3> QED
      BY <2>1, <3>1, <3>2, KindsOrderObjects
  <2>6. \A i, j \in DOMAIN Tail(Unlisted) :
          i < j => Before(GK(Tail(Unlisted)[i]), GK(Tail(Unlisted)[j]))
    <3> SUFFICES ASSUME NEW i \in DOMAIN Tail(Unlisted), NEW j \in DOMAIN Tail(Unlisted), i < j
                 PROVE  Before(GK(Tail(Unlisted)[i]), GK(Tail(Unlisted)[j]))
      OBVIOUS
    <3>1. DOMAIN Tail(Unlisted) \subseteq Nat
      BY <1>10, HeadTailProperties, LenProperties
    <3>2. i + 1 < j + 1
      BY <3>1
    <3> QED
      BY <2>2, <2>3, <3>2
  <2>7. \A o \in ListedObjects \cup {items[i].object : i \in DOMAIN items} :
          \A j \in DOMAIN Tail(Unlisted) : Before(KindOf[o], GK(Tail(Unlisted)[j]))
    <3>1. \A j \in DOMAIN Tail(Unlisted) : Before(kind, GK(Tail(Unlisted)[j]))
      BY <2>2, <2>3 DEF kind
    <3>2. \A o \in ListedObjects : \A j \in DOMAIN Tail(Unlisted) :
            Before(KindOf[o], GK(Tail(Unlisted)[j]))
      BY <2>2, <2>3
    <3> QED
      BY <2>1, <3>1, <3>2
  <2>8. InOrder'
    BY <1>8, <2>1, <2>4, <2>5, <2>6, <2>7 DEF InOrder, items
  <2>9. SteadyAsSeen'
    BY <1>1, <2>1 DEF SteadyAsSeen, GroupingInv, items
  <2>10. NoneLost'
    <3> SUFFICES ASSUME discovery = "done", NEW o \in steady, WantedKind(o)
                 PROVE  \/ seen[o] = manifest[o]
                        \/ \E i \in DOMAIN items : items[i].object = o
                        \/ \E j \in DOMAIN Tail(Unlisted) : GK(Tail(Unlisted)[j]) = KindOf[o]
      BY <1>1, <2>4 DEF NoneLost, WantedKind, items
    <3>1. \/ seen[o] = manifest[o]
          \/ \E i \in DOMAIN Pending : Pending[i].object = o
          \/ \E j \in DOMAIN Unlisted : GK(Unlisted[j]) = KindOf[o]
      BY <1>1 DEF NoneLost, GroupingInv
    <3>2. DOMAIN Pending = {}
      BY <1>10
    <3>3. o \in Object
      BY <1>2 DEF GroupingTypeOK
    <3>4. ASSUME NEW j \in DOMAIN Unlisted, GK(Unlisted[j]) = KindOf[o], j # 1
          PROVE  \E i \in DOMAIN Tail(Unlisted) : GK(Tail(Unlisted)[i]) = KindOf[o]
      BY <2>2, <3>4
    <3>5. ASSUME KindOf[o] = kind
          PROVE  seen[o] = manifest[o] \/ \E i \in DOMAIN items : items[i].object = o
      <4>1. CASE manifest[o] = Absent
        BY <4>1 DEF SteadyAsSeen, GroupingInv
      <4>2. CASE manifest[o] # Absent
        BY <2>1, <3>3, <3>5, <4>2
      <4> QED
        BY <4>1, <4>2
    <3> QED
      BY <2>2, <3>1, <3>2, <3>4, <3>5 DEF kind
  <2> QED
    BY <1>4, <1>5, <1>6, <1>7, <2>8, <2>9, <2>10 DEF GroupingInv
<1> QED
  BY <1>3, <1>9, <1>10

(* An item of a page. *)
LEMMA ItemKeeps ==
  ASSUME GroupingInv, ProcessItem
  PROVE  GroupingInv'
<1> DEFINE o == Head(page).object
           m == Head(page).manifest
<1>1. /\ pc = "list" /\ pc' = pc /\ gvks' = gvks /\ rest' = rest
      /\ relatedObjects' = process(relatedObjects, Head(page))
      /\ steady' = steady /\ manifest' = manifest /\ edits' = edits
      /\ discovery' = discovery /\ served' = served /\ unread' = unread /\ apiResources' = apiResources
  BY DEF ProcessItem, discoveryVars
<1>2. GroupingTypeOK /\ DiscoveryInv
  BY DEF GroupingInv
<1>3. /\ Pending \in Seq(Item) /\ Head(page) = Pending[1] /\ 1 \in DOMAIN Pending
      /\ Pending' \in Seq(Item) /\ page' \in Seq(Item) /\ Unlisted' = Unlisted
      /\ \A i \in DOMAIN Pending' : Pending'[i] = Pending[i + 1] /\ i + 1 \in DOMAIN Pending
      /\ \A i \in DOMAIN Pending : i # 1 => i - 1 \in DOMAIN Pending' /\ Pending'[i - 1] = Pending[i]
  BY <1>2, ItemLeavesPending
<1>4. /\ Head(page) \in Item /\ o \in Object /\ m # Absent
      /\ seen'[o] = m /\ \A q \in Object : q # o => seen'[q] = seen[q]
      /\ ListedObjects' = ListedObjects \cup {o}
  BY <1>2, ItemProcessed
<1>5. \A p \in ListedObjects : p < o
  BY <1>3 DEF InOrder, GroupingInv
<1>6. \A l \in LabelSet : GroupHolds(l)'
  BY <1>2, <1>5, ItemKeepsGroup DEF GroupingInv
<1>7. DiscoveryInv'
  BY <1>1, <1>2 DEF DiscoveryInv, Read
<1>8. GroupingTypeOK'
  <2>1. /\ relatedObjects \in [LabelSet -> Seq(Object)] /\ seen \in [Object -> AnyManifest]
        /\ \A q \in Object : seen[q] \in ManifestsOf[q] \cup {Absent}
    BY <1>2 DEF GroupingTypeOK
  <2>2. m \in AnyManifest /\ m \in ManifestsOf[o] /\ m.labels \in LabelSet \cup {NoLabels}
    BY <1>4, ItemShape
  <2>3. seen' = [seen EXCEPT ![o] = m]
    BY DEF ProcessItem
  <2>4. seen' \in [Object -> AnyManifest] /\ \A q \in Object : seen'[q] \in ManifestsOf[q] \cup {Absent}
    BY <1>4, <2>1, <2>2, <2>3
  <2> DEFINE ro == processResourceLabels(Head(page), relatedObjects)
  <2>5. ro \in [LabelSet -> Seq(Object)]
    <3>1. CASE m.labels = NoLabels
      BY <2>1, <3>1 DEF processResourceLabels
    <3>2. CASE m.labels # NoLabels
      <4>1. m.labels \in LabelSet
        BY <2>2, <3>2
      <4>2. Append(relatedObjects[m.labels], o) \in Seq(Object)
        BY <1>4, <2>1, <4>1
      <4>3. ro = [relatedObjects EXCEPT ![m.labels] = Append(relatedObjects[m.labels], o)]
        BY <3>2 DEF processResourceLabels
      <4> QED
        BY <2>1, <4>1, <4>2, <4>3
    <3> QED
      BY <3>1, <3>2
  <2>6. relatedObjects' = processResourceSelectors(Head(page), ro)
    BY <1>1 DEF process
  <2> HIDE DEF ro
  <2>7. relatedObjects' \in [LabelSet -> Seq(Object)]
    BY <1>4, <2>5, <2>6 DEF processResourceSelectors
  <2> QED
    BY <1>1, <1>2, <1>3, <2>4, <2>7 DEF GroupingTypeOK
<1>9. Stages'
  BY <1>1 DEF Stages, Discovered, GroupingInv
<1>10. InOrder'
  <2>1. /\ \A i, j \in DOMAIN Pending : i < j => Pending[i].object < Pending[j].object
        /\ \A p \in ListedObjects : \A i \in DOMAIN Pending : p < Pending[i].object
        /\ \A i, j \in DOMAIN Unlisted : i < j => Before(GK(Unlisted[i]), GK(Unlisted[j]))
        /\ \A p \in ListedObjects \cup {Pending[i].object : i \in DOMAIN Pending} :
              \A j \in DOMAIN Unlisted : Before(KindOf[p], GK(Unlisted[j]))
    BY DEF InOrder, GroupingInv
  <2>2. DOMAIN Pending' \subseteq Nat \ {0}
    BY <1>3, LenProperties
  <2>3. \A i, j \in DOMAIN Pending' : i < j => Pending'[i].object < Pending'[j].object
    <3> SUFFICES ASSUME NEW i \in DOMAIN Pending', NEW j \in DOMAIN Pending', i < j
                 PROVE  Pending'[i].object < Pending'[j].object
      OBVIOUS
    <3>1. i + 1 < j + 1
      BY <2>2
    <3> QED
      BY <1>3, <2>1, <3>1
  <2>4. \A p \in ListedObjects' : \A i \in DOMAIN Pending' : p < Pending'[i].object
    <3> SUFFICES ASSUME NEW p \in ListedObjects', NEW i \in DOMAIN Pending'
                 PROVE  p < Pending'[i].object
      OBVIOUS
    <3>1. 1 < i + 1
      BY <2>2
    <3> QED
      BY <1>3, <1>4, <2>1, <3>1
  <2>5. \A p \in ListedObjects' \cup {Pending'[i].object : i \in DOMAIN Pending'} :
          p \in ListedObjects \cup {Pending[i].object : i \in DOMAIN Pending}
    BY <1>3, <1>4
  <2>6. \A p \in ListedObjects' \cup {Pending'[i].object : i \in DOMAIN Pending'} :
          \A j \in DOMAIN Unlisted' : Before(KindOf[p], GK(Unlisted'[j]))
    BY <1>3, <2>1, <2>5
  <2> QED
    BY <1>3, <2>1, <2>3, <2>4, <2>6 DEF InOrder
<1>11. SteadyAsSeen'
  <2>1. /\ \A p \in steady : seen[p] \in {Absent, manifest[p]}
        /\ \A i \in DOMAIN Pending :
              Pending[i].object \in steady => Pending[i].manifest = manifest[Pending[i].object]
    BY DEF SteadyAsSeen, GroupingInv
  <2>2. \A p \in steady : seen'[p] \in {Absent, manifest[p]}
    <3>1. steady \subseteq Object
      BY <1>2 DEF GroupingTypeOK
    <3>2. o \in steady => m = manifest[o]
      BY <1>3, <2>1
    <3> QED
      BY <1>4, <2>1, <3>1, <3>2
  <2>3. \A i \in DOMAIN Pending' :
          Pending'[i].object \in steady => Pending'[i].manifest = manifest[Pending'[i].object]
    BY <1>3, <2>1
  <2> QED
    BY <1>1, <2>2, <2>3 DEF SteadyAsSeen
<1>12. NoneLost'
  <2> SUFFICES ASSUME discovery = "done", NEW p \in steady, WantedKind(p)
               PROVE  \/ seen'[p] = manifest[p]
                      \/ \E i \in DOMAIN Pending' : Pending'[i].object = p
                      \/ \E j \in DOMAIN Unlisted' : GK(Unlisted'[j]) = KindOf[p]
    BY <1>1 DEF NoneLost, WantedKind
  <2>1. \/ seen[p] = manifest[p]
        \/ \E i \in DOMAIN Pending : Pending[i].object = p
        \/ \E j \in DOMAIN Unlisted : GK(Unlisted[j]) = KindOf[p]
    BY <1>1 DEF NoneLost, GroupingInv
  <2>2. p \in Object
    BY <1>2 DEF GroupingTypeOK
  <2>3. p = o => seen'[p] = manifest[p]
    BY <1>3, <1>4 DEF SteadyAsSeen, GroupingInv
  <2>4. ASSUME p # o, NEW i \in DOMAIN Pending, Pending[i].object = p
        PROVE  \E j \in DOMAIN Pending' : Pending'[j].object = p
    BY <1>3, <2>4
  <2> HIDE DEF o
  <2> QED
    BY <1>3, <1>4, <2>1, <2>2, <2>3, <2>4
<1> QED
  BY <1>6, <1>7, <1>8, <1>9, <1>10, <1>11, <1>12 DEF GroupingInv

(* Every step keeps the invariant. *)
LEMMA GroupingStep == GroupingInv /\ [Next]_vars => GroupingInv'
<1> SUFFICES ASSUME GroupingInv, [Next]_vars PROVE GroupingInv'
  OBVIOUS
<1>1. CASE DiscoveryNext /\ UNCHANGED <<manifest, edits, groupingVars, steady>>
  BY <1>1, DiscoveryKeeps
<1>2. CASE BeginGrouping
  BY <1>2, BeginKeeps
<1>3. CASE ListPage
  BY <1>3, ListKeeps
<1>4. CASE ProcessItem
  BY <1>4, ItemKeeps
<1>5. CASE ListFails \/ EndNamespace
  BY <1>5, ForgetKeeps DEF ListFails, EndNamespace
<1>6. CASE EndGrouping
  BY <1>6, EndKeeps
<1>7. CASE \E o \in Object : \E m \in ManifestsOf[o] \cup {Absent} : EditObject(o, m)
  BY <1>7, EditKeeps
<1>8. CASE UNCHANGED vars
  <2>1. /\ gvks' = gvks /\ page' = page /\ rest' = rest /\ pc' = pc
        /\ relatedObjects' = relatedObjects /\ seen' = seen
        /\ steady' = steady /\ manifest' = manifest /\ edits' = edits
        /\ discovery' = discovery /\ served' = served /\ unread' = unread
        /\ apiResources' = apiResources
    BY <1>8 DEF vars, discoveryVars, groupingVars
  <2>2. Pending' = Pending /\ Unlisted' = Unlisted /\ ListedObjects' = ListedObjects
    BY <2>1 DEF Pending, Unlisted, ListedObjects
  <2>3. DiscoveryInv' /\ GroupingTypeOK'
    BY <2>1 DEF GroupingInv, DiscoveryInv, Read, GroupingTypeOK
  <2>4. InOrder' /\ SteadyAsSeen' /\ NoneLost' /\ Stages'
    BY <2>1, <2>2 DEF InOrder, SteadyAsSeen, NoneLost, WantedKind, Stages, Discovered, GroupingInv
  <2>5. \A l \in LabelSet : GroupHolds(l)'
    BY <2>1, GroupsUntouched DEF GroupingInv
  <2> QED
    BY <2>3, <2>4, <2>5 DEF GroupingInv
<1> QED
  BY <1>1, <1>2, <1>3, <1>4, <1>5, <1>6, <1>7, <1>8 DEF Next

(* The invariant says what the properties of Grouping say. *)
LEMMA InvMeans == GroupingInv => GroupingTypeOK /\ NothingMissed /\ GroupsAsSpecified
<1> SUFFICES ASSUME GroupingInv PROVE GroupingTypeOK /\ NothingMissed /\ GroupsAsSpecified
  OBVIOUS
<1>1. NothingMissed
  <2> SUFFICES ASSUME pc = "grouped", discovery = "done", NEW o \in steady, WantedKind(o)
               PROVE  seen[o] = manifest[o]
    BY DEF NothingMissed, WantedKind
  <2>1. page = <<>> /\ rest = <<>> /\ gvks = <<>>
    BY DEF Stages, GroupingInv
  <2>2. Pending = <<>> /\ Unlisted = <<>>
    BY <2>1 DEF Pending, Unlisted
  <2>3. DOMAIN Pending = {} /\ DOMAIN Unlisted = {}
    BY <2>2
  <2> QED
    BY <2>3 DEF NoneLost, GroupingInv
<1>2. GroupsAsSpecified
  BY DEF GroupsAsSpecified, GroupHolds, Reasons, GroupingInv
<1> QED
  BY <1>1, <1>2 DEF GroupingInv

-----------------------------------------------------------------------------
(* Kinds, pages, items and the map are well-typed: what is listed is of the  *)
(* operator's scheme, in every version of every server.                     *)
THEOREM GroupingTypeCorrect == Spec => []GroupingTypeOK
BY InitKeeps, GroupingStep, InvMeans, PTL DEF Spec

(* No object of a wanted kind is left out, whatever the server lists, however *)
(* long the pages are, and whatever else changes (groupAppObjects).         *)
THEOREM NoObjectIsMissed == Spec => []NothingMissed
BY InitKeeps, GroupingStep, InvMeans, PTL DEF Spec

(* The loop over kinds, pages and map keys computes the groups of module     *)
(* Groups, each member there once for each reason (processResourceLabels,   *)
(* processResourceSelectors, GetLabelSelector).                            *)
THEOREM GroupsAreAsSpecified == Spec => []GroupsAsSpecified
BY InitKeeps, GroupingStep, InvMeans, PTL DEF Spec

===============================================================================
