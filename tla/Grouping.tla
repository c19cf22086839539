------------------------------- MODULE Grouping -------------------------------
(***************************************************************************)
(* groupAppObjects (pkg/controller/generic_reconciler.go) for one          *)
(* namespace: the kinds that discovery left are sorted and listed page by  *)
(* page while the cluster changes, and the objects of a page are put, one  *)
(* by one, under their label set and under those their selector matches.   *)
(***************************************************************************)
EXTENDS Discovery, Groups, Selectors, SequencesExt

CONSTANTS
    Object,       \* the objects of the namespace, numbered in list order
    KindOf,       \* the group and kind of each object
    LabelSet,     \* the non-empty label sets, functions from keys to values
    NoLabels,     \* an object without labels
    ManifestsOf,  \* the manifests each object may have: labels and spec
    Absent,       \* the manifest of an object that does not exist
    ListLimit,    \* objects per page; 0 is no limit
    MaxEdits      \* bound: changes of objects

Before(a, b) == a[1] < b[1] \/ (a[1] = b[1] /\ a[2] < b[2])

ASSUME GroupingAssumption ==
    /\ Object \subseteq Nat /\ IsFiniteSet(Object)
    /\ KindOf \in [Object -> Nat \X Nat]
    /\ \A o, p \in Object : o < p => ~Before(KindOf[p], KindOf[o])
    /\ ListLimit \in Nat
    /\ MaxEdits \in Nat

(* The manifests are such as the API server admits.                        *)
ASSUME ManifestAssumption ==
    /\ NoLabels \notin LabelSet
    /\ \A o \in Object : \A m \in ManifestsOf[o] :
          m # Absent /\ m.labels \in LabelSet \cup {NoLabels} /\ WellFormed(m.spec)

VARIABLES
    manifest,         \* what each object is, in the cluster
    edits,            \* changes made
    pc,               \* what groupAppObjects does next
    gvks,             \* kinds with a List call still to come, in order
    page,             \* the items of the last List it has not put into groups
    rest,             \* what the continue token leads to: further items
    relatedObjects,   \* the map it builds; a key is met once its value is not empty
    seen,             \* history: the manifest each object was listed with
    steady            \* history: the objects that did not change since it began

groupingVars == <<pc, gvks, page, rest, relatedObjects, seen>>
vars == <<discoveryVars, manifest, edits, groupingVars, steady>>

AnyManifest == (UNION {ManifestsOf[o] : o \in Object}) \cup {Absent}

NothingRelated == [l \in LabelSet |-> <<>>]
NothingSeen == [o \in Object |-> Absent]

(* An object as it was when the first page of its kind was listed.         *)
Item ==
    UNION {{[object |-> o, manifest |-> m] : m \in ManifestsOf[o]} : o \in Object}

GroupingTypeOK ==
    /\ discovery \in {"ask", "read", "done", "failed"}
    /\ unread \subseteq served
    /\ pc \in {"idle", "list", "grouped"}
    /\ gvks \in Seq(Recognized)
    /\ page \in Seq(Item) /\ rest \in Seq(Item)
    /\ relatedObjects \in [LabelSet -> Seq(Object)]
    /\ {manifest, seen} \subseteq [Object -> AnyManifest]
    /\ \A o \in Object : {manifest[o], seen[o]} \subseteq ManifestsOf[o] \cup {Absent}
    /\ steady \subseteq Object
    /\ edits \in 0..MaxEdits

Init ==
    /\ DiscoveryInit
    /\ manifest \in {m \in [Object -> AnyManifest] :
                        \A o \in Object : m[o] \in ManifestsOf[o] \cup {Absent}}
    /\ edits = 0
    /\ pc = "idle"
    /\ gvks = <<>>
    /\ page = <<>>
    /\ rest = <<>>
    /\ relatedObjects = NothingRelated
    /\ seen = NothingSeen
    /\ steady = {}

-----------------------------------------------------------------------------
(* What sort.Slice may return: it is not stable, so two kinds of the same  *)
(* group and name would come in either order.                              *)
Sorted(s) ==
    \A i, j \in DOMAIN s : i < j => ~Before(<<s[j][1], s[j][3]>>, <<s[i][1], s[i][3]>>)

(* Mutant: the kinds are listed in the order ToSlice returned them. *)
SortedOrders_Unsorted(kinds) == SetToSeqs(kinds)

SortedOrders(kinds) == {s \in SetToSeqs(kinds) : Sorted(s)}

BeginGrouping ==
    /\ Discovered
    /\ pc = "idle"
    /\ pc' = "list"
    /\ gvks' \in SortedOrders(getNamespacedResourcesGVK)
    /\ page' = <<>>
    /\ rest' = <<>>
    /\ relatedObjects' = NothingRelated
    /\ seen' = NothingSeen
    /\ steady' = Object
    /\ UNCHANGED <<discoveryVars, manifest, edits>>

InListOrder(objs) ==
    {s \in SetToSeqs(objs) : \A i, j \in DOMAIN s : i < j => s[i] < s[j]}

(* The objects of a kind in list order, whatever version it is asked in.   *)
Snapshots(gvk) ==
    LET objs == {o \in Object : manifest[o] # Absent /\ KindOf[o] = <<gvk[1], gvk[3]>>}
    IN  {[i \in DOMAIN s |-> [object |-> s[i], manifest |-> manifest[s[i]]]] : s \in InListOrder(objs)}

processResourceLabels(item, ro) ==
    IF item.manifest.labels = NoLabels THEN ro
    ELSE [ro EXCEPT ![item.manifest.labels] = Append(@, item.object)]

processResourceSelectors(item, ro) ==
    LET selector == GetLabelSelector(item.manifest.spec)
    IN  [l \in LabelSet |-> IF ro[l] # <<>> /\ SelectorMatches(selector, l)
                            THEN Append(ro[l], item.object) ELSE ro[l]]

process(ro, item) == processResourceSelectors(item, processResourceLabels(item, ro))

(* Mutant: only the first page of a kind is read. *)
PageOf_First(items) ==
    LET n == IF ListLimit = 0 \/ ListLimit > Len(items) THEN Len(items) ELSE ListLimit
    IN  [page |-> SubSeq(items, 1, n), remaining |-> <<>>]

(* A page, and what its continue token leads to: the pages of one list     *)
(* come from one snapshot.                                                 *)
PageOf(items) ==
    LET n == IF ListLimit = 0 \/ ListLimit > Len(items) THEN Len(items) ELSE ListLimit
    IN  [page |-> SubSeq(items, 1, n), remaining |-> SubSeq(items, n + 1, Len(items))]

(* One call of List: the first page of the next kind, or, with a continue  *)
(* token, another one of the same kind.                                    *)
ListPage ==
    /\ pc = "list"
    /\ page = <<>>
    /\ gvks # <<>>
    /\ \E items \in (IF rest = <<>> THEN Snapshots(Head(gvks)) ELSE {rest}) :
          /\ page' = PageOf(items).page
          /\ rest' = PageOf(items).remaining
    /\ gvks' = IF rest' = <<>> THEN Tail(gvks) ELSE gvks
    /\ UNCHANGED <<discoveryVars, manifest, edits, pc, relatedObjects, seen, steady>>

(* The loop over list.Items.                                               *)
ProcessItem ==
    /\ pc = "list"
    /\ page # <<>>
    /\ relatedObjects' = process(relatedObjects, Head(page))
    /\ seen' = [seen EXCEPT ![Head(page).object] = Head(page).manifest]
    /\ page' = Tail(page)
    /\ UNCHANGED <<discoveryVars, manifest, edits, pc, gvks, rest, steady>>

Forget ==
    /\ pc' = "idle"
    /\ gvks' = <<>>
    /\ page' = <<>>
    /\ rest' = <<>>
    /\ relatedObjects' = NothingRelated
    /\ seen' = NothingSeen
    /\ UNCHANGED <<discoveryVars, manifest, edits, steady>>

(* Any page may fail, a stale continue token included: the map is dropped. *)
ListFails == pc = "list" /\ page = <<>> /\ gvks # <<>> /\ Forget

EndGrouping ==
    /\ pc = "list"
    /\ page = <<>>
    /\ gvks = <<>>
    /\ pc' = "grouped"
    /\ UNCHANGED <<discoveryVars, manifest, edits, gvks, page, rest, relatedObjects, seen, steady>>

(* processNamespacedResources has reconciled the groups. *)
EndNamespace == pc = "grouped" /\ Forget

(* An object is created, changed or deleted. *)
EditObject(o, m) ==
    /\ edits < MaxEdits
    /\ manifest[o] # m
    /\ edits' = edits + 1
    /\ manifest' = [manifest EXCEPT ![o] = m]
    /\ steady' = steady \ {o}
    /\ UNCHANGED <<discoveryVars, groupingVars>>

Next ==
    \/ DiscoveryNext /\ UNCHANGED <<manifest, edits, groupingVars, steady>>
    \/ BeginGrouping \/ ListPage \/ ProcessItem \/ ListFails \/ EndGrouping \/ EndNamespace
    \/ \E o \in Object : \E m \in ManifestsOf[o] \cup {Absent} : EditObject(o, m)

Spec == Init /\ [][Next]_vars

-----------------------------------------------------------------------------
ListedObjects == {o \in Object : seen[o] # Absent}

(* What the objects listed look like to module Groups: a selector matches  *)
(* what the Kubernetes API says it does.                                   *)
AsSpecified ==
    [o \in ListedObjects |->
        [labels  |-> seen[o].labels,
         selects |-> {l \in LabelSet : SpecifiedMatches(seen[o].spec, l)}]]

Appearances(o, s) == Cardinality({i \in DOMAIN s : s[i] = o})

(* The groups are those of module Groups, with every member there once for  *)
(* its labels and once for its selector, whatever the order of discovery,   *)
(* of map keys and of pages, and whatever changed between two lists         *)
(* (groupAppObjects, processResourceSelectors, GetLabelSelector).           *)
GroupsAsSpecified ==
    pc = "grouped" =>
        \A l \in LabelSet :
            /\ ToSet(relatedObjects[l]) = Related(ListedObjects, AsSpecified, l)
            /\ \A o \in ListedObjects :
                 Appearances(o, relatedObjects[l]) =
                    Cardinality({why \in {"labels", "selector"} :
                        \/ why = "labels" /\ HasLabels(AsSpecified, o, l)
                        \/ why = "selector" /\ Selects(ListedObjects, AsSpecified, o, l)})

(* Every object of a kind the server lists and the operator wants is seen,  *)
(* if it did not change during the round: no page and no kind is left out   *)
(* (reconcileResourceList, groupAppObjects).                               *)
NothingMissed ==
    pc = "grouped" /\ discovery = "done" =>
        \A o \in steady :
            (\E r \in served : Wanted(r) /\ r.namespaced /\ GroupKind(r) = KindOf[o])
                => seen[o] = manifest[o]
===============================================================================
