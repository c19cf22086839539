------------------------------ MODULE Discovery ------------------------------
(***************************************************************************)
(* reconcileResourceList (pkg/controller/reconcileobjects.go): which kinds *)
(* the operator lists, and in which version, from what the API server says *)
(* it serves.  It runs once, before the first round.                       *)
(*                                                                         *)
(* Groups and kinds are numbered in the order of their names, the core     *)
(* group first.                                                            *)
(***************************************************************************)
EXTENDS Naturals, Sequences, FiniteSets

CONSTANTS
    Served,      \* the sets of resources a server may list
    LinterGVK,   \* the kinds kube-linter has a matcher for, but Any
    Recognized,  \* the kinds of the operator's scheme
    Priority     \* PrioritizedVersionsAllGroups: pairs of group and version

gvkFromMetav1APIResource(r) == <<r.group, r.version, r.kind>>
GroupKind(r) == <<r.group, r.kind>>

(* The place of a version among those of the scheme. *)
Place(g, v) == CHOOSE i \in DOMAIN Priority : Priority[i] = <<g, v>>

(* A metav1.APIResource, with what its list says of its group and version. *)
IsResource(r) ==
    r = [group |-> r.group, version |-> r.version, kind |-> r.kind, sub |-> r.sub,
         namespaced |-> r.namespaced]

VARIABLES
    discovery,      \* what once.Do does next
    served,         \* the resources the server listed
    unread,         \* those of them the loop has not reached
    apiResources    \* the map of the resource set, as the set of its values

discoveryVars == <<discovery, served, unread, apiResources>>

DiscoveryInit ==
    /\ discovery = "ask"
    /\ served = {}
    /\ unread = {}
    /\ apiResources = {}

-----------------------------------------------------------------------------
isSubResource(r) == r.sub

isRegisteredKubeLinterKind(r) == gvkFromMetav1APIResource(r) \in LinterGVK

(* Mutant: the client's scheme is not asked. *)
Wanted_AnyType(r) == ~isSubResource(r) /\ isRegisteredKubeLinterKind(r)

Wanted(r) ==
    /\ ~isSubResource(r)
    /\ isRegisteredKubeLinterKind(r)
    /\ gvkFromMetav1APIResource(r) \in Recognized

(* A scheme that recognizes a kind has observed its version, once; all     *)
(* versions of a kind have the same scope.                                 *)
ASSUME DiscoveryAssumption ==
    /\ \A k \in Recognized : \E i \in DOMAIN Priority : Priority[i] = <<k[1], k[2]>>
    /\ DOMAIN Priority \subseteq Nat
    /\ \A i, j \in DOMAIN Priority : Priority[i] = Priority[j] => i = j
    /\ \A resources \in Served : \A r \in resources :
          /\ IsResource(r) /\ GroupKind(r) \in Nat \X Nat
          /\ \A q \in resources :
                Wanted(r) /\ Wanted(q) /\ GroupKind(r) = GroupKind(q) => r.namespaced = q.namespaced

(* Mutant: the version read last is kept. *)
getPriorityVersion_Last(g, existingVer, currentVer) == currentVer

(* The first of the two the scheme lists; the existing one if none is.     *)
getPriorityVersion(g, existingVer, currentVer) ==
    LET places == {i \in DOMAIN Priority : Priority[i] \in {<<g, existingVer>>, <<g, currentVer>>}}
    IN  IF places = {} THEN existingVer
        ELSE Priority[CHOOSE i \in places : \A j \in places : i <= j][2]

(* resourceSet.Add: an entry of the same group and kind keeps everything   *)
(* but its version.                                                        *)
Add(set, r) ==
    LET existing == {e \in set : GroupKind(e) = GroupKind(r)}
    IN  IF ~Wanted(r) THEN set
        ELSE IF existing = {} THEN set \cup {r}
        ELSE (set \ existing) \cup
             {[e EXCEPT !.version = getPriorityVersion(e.group, e.version, r.version)] : e \in existing}

(* ServerGroupsAndResources. *)
AskServer ==
    /\ discovery = "ask"
    /\ discovery' = "read"
    /\ served' \in Served
    /\ unread' = served'
    /\ UNCHANGED apiResources

(* It fails, if only for one group, or a group version does not parse: the *)
(* resources read so far are dropped, and once.Do will not run again.      *)
DiscoveryFails ==
    /\ discovery \in {"ask", "read"}
    /\ discovery' = "failed"
    /\ unread' = {}
    /\ apiResources' = {}
    /\ UNCHANGED served

(* The lists and their entries come in the server's order, which is any.   *)
AddResource(r) ==
    /\ discovery = "read"
    /\ r \in unread
    /\ unread' = unread \ {r}
    /\ apiResources' = Add(apiResources, r)
    /\ UNCHANGED <<discovery, served>>

EndDiscovery ==
    /\ discovery = "read"
    /\ unread = {}
    /\ discovery' = "done"
    /\ UNCHANGED <<served, unread, apiResources>>

DiscoveryNext ==
    \/ AskServer \/ DiscoveryFails \/ EndDiscovery
    \/ \E r \in unread : AddResource(r)

Discovered == discovery \in {"done", "failed"}

(* getNamespacedResourcesGVK; ToSlice hands the resources over in any order. *)
getNamespacedResourcesGVK == {gvkFromMetav1APIResource(r) : r \in {e \in apiResources : e.namespaced}}

-----------------------------------------------------------------------------
(* Of every kind read so far that is wanted, one entry is held, in the      *)
(* version the scheme prefers among those read, whatever the order in which *)
(* the server listed them (Add, getPriorityVersion).                       *)
BestVersionKept ==
    discovery \in {"read", "done"} =>
        \A r \in served \ unread : Wanted(r) =>
            LET entries == {e \in apiResources : GroupKind(e) = GroupKind(r)}
            IN  /\ Cardinality(entries) = 1
                /\ \A e \in entries :
                     /\ Place(e.group, e.version) <= Place(r.group, r.version)
                     /\ gvkFromMetav1APIResource(e) \in
                          {gvkFromMetav1APIResource(q) : q \in served \ unread}
===============================================================================
