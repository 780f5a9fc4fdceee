----------------------------- MODULE MCHashMap2 -----------------------------
(***************************************************************************)
(* HashMap2 in step with FiniteMap: every operation is done on the table   *)
(* and on the abstract map, and the two never disagree.  Four keys are     *)
(* enough to outgrow the smallest array; their hashes meet at the array's  *)
(* last slot, wrap to its first, and part again when it doubles.           *)
(***************************************************************************)
EXTENDS HashMap2, TLC

VARIABLE bound

Map == INSTANCE FiniteMap

Both ==
  \/ (Clear \/ ClearFit) /\ Map!Clear
  \/ \E k \in Key : Remove(k) /\ Map!Remove(k)
  \/ \E k \in Key, v \in Val :
       \/ Insert(k, v) /\ Map!Insert(k, v)
       \/ FindOrInsert(k, v) /\ Map!FindOrInsert(k, v)

BothInit == Init /\ Map!Init

BothSpec == BothInit /\ [][Both]_<<vars, bound>>

(* The table binds what the map binds, whatever was inserted, replaced,    *)
(* removed, cleared and re-sized before, and however the hashes collide    *)
(* (hashmap2.rs, "the same abstract object as ron::hashmap's HashMap").    *)
Agrees == \A k \in Key : Lookup(table, k) = bound[k]

MCSymmetry == Permutations(Key) \cup Permutations(Val)

=============================================================================
