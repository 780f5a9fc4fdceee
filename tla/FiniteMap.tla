----------------------------- MODULE FiniteMap -----------------------------
(***************************************************************************)
(* What `HashMap2<K, V>` promises: a partial map from keys to values.  How *)
(* big a table is kept, and when it is re-made, is nobody's business.      *)
(* `len`, `get` and the value every operation returns are functions of     *)
(* `bound`.                                                                *)
(***************************************************************************)
CONSTANTS Key, Val, None

VARIABLE bound   \* the value each key is bound to, None where it has none

Init == bound = [k \in Key |-> None]

Insert(k, v) == bound' = [bound EXCEPT ![k] = v]

(* `find_slot`, then `insert_at` on a miss: the binding that is there wins. *)
FindOrInsert(k, v) ==
  bound' = IF bound[k] = None THEN [bound EXCEPT ![k] = v] ELSE bound

Remove(k) == bound' = [bound EXCEPT ![k] = None]

Clear == bound' = [k \in Key |-> None]

=============================================================================
