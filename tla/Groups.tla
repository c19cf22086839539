-------------------------------- MODULE Groups --------------------------------
(***************************************************************************)
(* Which objects belong together: what groupAppObjects makes of the objects *)
(* it listed in a namespace, as a function of their manifests alone.        *)
(*                                                                         *)
(* Objects are numbered in the order in which they are listed: by the group *)
(* and the name of their kind, then by their own name.  man[o].labels is    *)
(* the label set of o, man[o].selects the label sets its selector matches.  *)
(* Module Grouping shows that the loop over kinds, pages and map keys       *)
(* computes this; module Reconciler works with the result.                  *)
(***************************************************************************)
EXTENDS Naturals

(* processResourceLabels: an object goes under its own label set. *)
HasLabels(man, o, l) == man[o].labels = l

(* processResourceSelectors: an object goes under the label sets that its  *)
(* selector matches among those already met, its own included.             *)
Selects(objs, man, o, l) ==
    /\ l \in man[o].selects
    /\ \E p \in objs : p <= o /\ HasLabels(man, p, l)

(* The group of label set l among the objects objs. *)
Related(objs, man, l) == {o \in objs : HasLabels(man, o, l) \/ Selects(objs, man, o, l)}
===============================================================================
