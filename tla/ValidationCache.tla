--------------------------- MODULE ValidationCache ---------------------------
(***************************************************************************)
(* validationCache (pkg/controller/validationscache.go): a map from object *)
(* keys to the resource version whose validation was stored.  The map is   *)
(* a total function on Key with NoEntry for the keys it does not hold.     *)
(* The cached ValidationOutcome is never read by the code and is left out. *)
(***************************************************************************)
EXTENDS Integers

CONSTANTS Key,      \* validationKey: group, version, kind, name, namespace, nsID, uid
          Version   \* resource versions, never NoEntry

NoEntry == 0

ValidationCaches == [Key -> Version \cup {NoEntry}]

newValidationCache == [k \in Key |-> NoEntry]

has(vc, k) == vc[k] # NoEntry

store(vc, k, v) == [vc EXCEPT ![k] = v]

(* drain replaces the map by an empty one. *)
drain == newValidationCache

removeKey(vc, k) == [vc EXCEPT ![k] = NoEntry]

(* Mutant: the resource version is not compared. *)
objectAlreadyValidated_AnyVersion(vc, k, v) == has(vc, k)

objectAlreadyValidated(vc, k, v) == has(vc, k) /\ vc[k] = v

(* The cache after objectAlreadyValidated was called for every key of ks:  *)
(* an entry of another version than the listed one, v[k], is removed.      *)
RemoveStale(vc, ks, v) ==
    [k \in Key |-> IF k \in ks /\ ~objectAlreadyValidated(vc, k, v[k])
                   THEN NoEntry ELSE vc[k]]
==============================================================================
