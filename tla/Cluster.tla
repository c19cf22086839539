------------------------------- MODULE Cluster -------------------------------
(***************************************************************************)
(* The Kubernetes cluster as the operator sees it through List calls: the  *)
(* namespaces with their UIDs and the objects with their resource versions *)
(* and manifests.  The API server is not part of the repository; this      *)
(* module is the environment of every component that reads it.             *)
(*                                                                         *)
(* An object is identified by its UID, so an element of Object is created  *)
(* at most once; an object deleted and created again under the same name   *)
(* is another element.  Objects and namespaces are numbered in the order   *)
(* the API server lists them.                                              *)
(***************************************************************************)
EXTENDS Integers, Checks

CONSTANTS
    Namespace,     \* namespace names, numbered in list order
    Object,        \* object UIDs, numbered in list order
    KindOf,        \* the position of an object's kind in the sorted GVK list
    NamespaceOf,   \* the namespace an object lives in
    NumKinds,      \* number of namespaced kinds the operator discovers
    LabelSet,      \* the distinct non-empty label sets carried by objects
    NoLabels,      \* an object without labels
    ManifestsOf,   \* the manifests each object may be given
    Absent,        \* the manifest of an object that does not exist
    MaxVersion,    \* bound: updates of one object
    MaxNsUid       \* bound: namespaces ever created

Version == 1..MaxVersion
NsUid == 1..MaxNsUid
NoUid == 0         \* the empty string where a namespace UID is expected

(***************************************************************************)
(* What the operator can tell from a manifest:                             *)
(*   labels    its label set;                                              *)
(*   selects   the label sets its spec.selector / spec.podSelector matches *)
(*             (empty when there is no selector: labels.Nothing());        *)
(*   fails     the checks it fails whatever else is in the lint context;   *)
(*   needs     the checks it fails unless some object in the same lint     *)
(*             context provides them (non-isolated-pod, dangling-service); *)
(*   provides  what it provides to such checks;                            *)
(*   isOwner   utils.IsOwner;                                              *)
(*   noReplicas  it has a spec.replicas field that is nil or <= 0;         *)
(*   typed     it converts to the Go type registered for its kind.         *)
(***************************************************************************)
Manifest == [labels : LabelSet \cup {NoLabels}, selects : SUBSET LabelSet,
             fails : SUBSET Check, needs : SUBSET Check, provides : SUBSET Check,
             isOwner : BOOLEAN, noReplicas : BOOLEAN, typed : BOOLEAN]

ASSUME ClusterAssumption ==
    /\ Namespace \subseteq Nat \ {0}
    /\ Object \subseteq Nat
    /\ NumKinds \in Nat
    /\ KindOf \in [Object -> 1..NumKinds]
    /\ NamespaceOf \in [Object -> Namespace]
    /\ \A o, p \in Object : o < p => KindOf[o] <= KindOf[p]
    /\ NoLabels \notin LabelSet
    /\ ManifestsOf \in [Object -> SUBSET Manifest]
    /\ Absent \notin Manifest
    /\ MaxVersion \in Nat
    /\ MaxNsUid \in Nat

VARIABLES
    nsUid,      \* UID of each namespace, NoUid while it does not exist
    lastUid,    \* the last namespace UID given out
    rv,         \* resource version of each object, 0 before its creation
    manifest    \* current manifest of each object, or Absent

clusterVars == <<nsUid, lastUid, rv, manifest>>

Live(o) == manifest[o] # Absent

ClusterTypeOK ==
    /\ nsUid \in [Namespace -> NsUid \cup {NoUid}]
    /\ lastUid \in 0..MaxNsUid
    /\ rv \in [Object -> Version \cup {0}]
    /\ manifest \in [Object -> Manifest \cup {Absent}]

ClusterInit ==
    /\ nsUid = [n \in Namespace |-> NoUid]
    /\ lastUid = 0
    /\ rv = [o \in Object |-> 0]
    /\ manifest = [o \in Object |-> Absent]

(* UIDs are never reused: a namespace created again gets a new one. *)
CreateNamespace(n) ==
    /\ nsUid[n] = NoUid
    /\ lastUid < MaxNsUid
    /\ lastUid' = lastUid + 1
    /\ nsUid' = [nsUid EXCEPT ![n] = lastUid + 1]
    /\ UNCHANGED <<rv, manifest>>

(* A namespace disappears only once its finalizer has emptied it. *)
DeleteNamespace(n) ==
    /\ nsUid[n] # NoUid
    /\ \A o \in Object : NamespaceOf[o] = n => ~Live(o)
    /\ nsUid' = [nsUid EXCEPT ![n] = NoUid]
    /\ UNCHANGED <<lastUid, rv, manifest>>

CreateObject(o, m) ==
    /\ rv[o] = 0
    /\ 0 < MaxVersion
    /\ nsUid[NamespaceOf[o]] # NoUid
    /\ rv' = [rv EXCEPT ![o] = 1]
    /\ manifest' = [manifest EXCEPT ![o] = m]
    /\ UNCHANGED <<nsUid, lastUid>>

(* Every write moves the resource version, a status-only write as well. *)
UpdateObject(o, m) ==
    /\ Live(o)
    /\ rv[o] < MaxVersion
    /\ rv' = [rv EXCEPT ![o] = @ + 1]
    /\ manifest' = [manifest EXCEPT ![o] = m]
    /\ UNCHANGED <<nsUid, lastUid>>

DeleteObject(o) ==
    /\ Live(o)
    /\ manifest' = [manifest EXCEPT ![o] = Absent]
    /\ UNCHANGED <<nsUid, lastUid, rv>>

ClusterNext ==
    \/ \E n \in Namespace : CreateNamespace(n) \/ DeleteNamespace(n)
    \/ \E o \in Object :
         \/ \E m \in ManifestsOf[o] : CreateObject(o, m) \/ UpdateObject(o, m)
         \/ DeleteObject(o)
==============================================================================
