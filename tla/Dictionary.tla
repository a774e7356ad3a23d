----------------------------- MODULE Dictionary -----------------------------
(***************************************************************************)
(* What a map of Wren promises: a partial function from keys to values,    *)
(* and an iteration that, while the map is left alone, comes to every key  *)
(* once ("All keys will be iterated over, but may be in any order",        *)
(* modules/core/map.markdown).                                             *)
(***************************************************************************)
CONSTANTS Keys, Values

VARIABLES
  dict,   (* The function.                                                 *)
  seen    (* The keys that the iteration under way has come to.            *)

DictionaryInit == dict = [k \in {} |-> k] /\ seen = {}

Put(k, v) ==
  /\ dict' = [x \in DOMAIN dict \cup {k} |-> IF x = k THEN v ELSE dict[x]]
  /\ seen' = {}

Delete(k) ==
  /\ dict' = [x \in DOMAIN dict \ {k} |-> dict[x]]
  /\ seen' = {}

DeleteAll == dict' = [k \in {} |-> k] /\ seen' = {}

(* iterate() comes to one more key ... *)
Visit(k) ==
  /\ k \in DOMAIN dict \ seen
  /\ seen' = seen \cup {k}
  /\ UNCHANGED dict

(* ... or returns false, having come to all of them. *)
Exhausted == seen = DOMAIN dict /\ seen' = {} /\ UNCHANGED dict

DictionaryNext ==
  \/ \E k \in Keys : Delete(k) \/ Visit(k) \/ \E v \in Values : Put(k, v)
  \/ DeleteAll \/ Exhausted

DictionarySpec == DictionaryInit /\ [][DictionaryNext]_<<dict, seen>>

=============================================================================
