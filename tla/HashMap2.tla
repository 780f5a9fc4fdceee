------------------------------ MODULE HashMap2 ------------------------------
(***************************************************************************)
(* con-ron-core/src/ron/hashmap2.rs: the open-addressed map with linear    *)
(* probing, an epoch stamp in every slot, and backward-shift removal.      *)
(*                                                                         *)
(* A table is a record; each operation of the code is an operator from a   *)
(* table to the table it leaves, and an action applies one to the variable *)
(* `table`.  What `hash64` and the mixing of `home_index` make of a key is *)
(* a number chosen once for each key in Init; its home is that number      *)
(* modulo the capacity, a power of two, as the mask computes.              *)
(***************************************************************************)
EXTENDS Integers, FiniteSets, FiniteSetsExt

CONSTANTS
  Key, Val, None,
  Hash,          \* the mixed hash values keys can have
  MinCapacity,   \* MIN_CAPACITY
  Pow2Fuel,      \* POW2_FUEL
  EpochMax,      \* EPOCH_MAX
  FitDecay,      \* FIT_DECAY
  FitSlack       \* FIT_SLACK

ASSUME SizeAssumption ==
  /\ MinCapacity \in Nat /\ MinCapacity >= 4
  /\ Pow2Fuel \in Nat /\ EpochMax \in Nat \ {0}
  /\ FitDecay \in Nat \ {0} /\ FitSlack \in Nat \ {0}
  /\ Hash \subseteq Nat
  /\ None \notin Val

VARIABLES
  hash,    \* the mixed hash of each key; it never changes
  table    \* the HashMap2 itself

vars == <<hash, table>>

(* `Slot<K, V>`: Vacant, or Live(stamp, key, value).                       *)
Vacant == <<>>
Live(g, k, v) == <<g, k, v>>
Stamp(s) == s[1]
KeyOf(s) == s[2]
ValOf(s) == s[3]

Capacity(t) == Cardinality(DOMAIN t.slots)
IsLive(t, i) == t.slots[i] # Vacant /\ Stamp(t.slots[i]) = t.epoch
LiveSlots(t) == {i \in DOMAIN t.slots : IsLive(t, i)}

-----------------------------------------------------------------------------
(* Sizes.                                                                  *)

Home(k, n) == hash[k] % n
MaxLoadFor(n) == (n \div 4) * 3

(* `pow2_at_least`: doubling from the least capacity, while fuel lasts.    *)
Pow2AtLeast(n) ==
  LET cap[f \in 0 .. Pow2Fuel] ==
        IF f = 0 THEN MinCapacity
        ELSE IF cap[f - 1] >= n THEN cap[f - 1] ELSE 2 * cap[f - 1]
  IN  cap[Pow2Fuel]

NoSlots == [i \in {} |-> Vacant]

(* `new_with_capacity_pow2`, and the unallocated table of `new`.           *)
NewWithCapacity(n) ==
  [num |-> 0, maxLoad |-> MaxLoadFor(n), epoch |-> 1, fitHw |-> 0,
   slots |-> [i \in 0 .. n - 1 |-> Vacant]]

New ==
  [num |-> 0, maxLoad |-> 0, epoch |-> 1, fitHw |-> 0, slots |-> NoSlots]

(* `ensure_slots`: an unallocated table gets its array, at the size the    *)
(* last rounds have needed.  The epoch stays.                              *)
EnsureSlots(t) ==
  IF Capacity(t) # 0 THEN t
  ELSE LET fresh == NewWithCapacity(Pow2AtLeast(2 * t.fitHw + 1))
       IN  [t EXCEPT !.maxLoad = fresh.maxLoad, !.slots = fresh.slots]

-----------------------------------------------------------------------------
(* The probe.  From the home slot on, wrapping around, to the first slot   *)
(* that is free or holds the key; after a whole round, the home slot.      *)
Stops(t, k, i) == ~ IsLive(t, i) \/ KeyOf(t.slots[i]) = k

Probe(t, k) ==
  LET n == Capacity(t)
      At(d) == (Home(k, n) + d) % n
      stops == {d \in 0 .. n - 1 : Stops(t, k, At(d))}
  IN  IF stops = {}
        THEN [at |-> Home(k, n), found |-> FALSE]
        ELSE [at |-> At(Min(stops)), found |-> IsLive(t, At(Min(stops)))]

(* `get`; also what `insert`, `find_slot` and `remove` return for the key. *)
Lookup(t, k) ==
  IF Capacity(t) = 0 \/ ~ Probe(t, k).found THEN None
  ELSE ValOf(t.slots[Probe(t, k).at])

-----------------------------------------------------------------------------
(* `insert_no_resize` and the write of `insert_at`.                        *)
WriteAt(t, i, k, v) ==
  [t EXCEPT !.slots[i] = Live(t.epoch, k, v), !.num = @ + 1]

InsertNoResize(t, k, v) ==
  LET r == Probe(t, k)
  IN  IF r.found THEN [t EXCEPT !.slots[r.at] = Live(t.epoch, k, v)]
      ELSE WriteAt(t, r.at, k, v)

(* Mutant: the new array starts a count of epochs of its own.              *)
ResizeFromEpochOne(t) ==
  LET n == Capacity(t)
      Move(new, i) ==
        IF IsLive(t, i)
          THEN InsertNoResize(new, KeyOf(t.slots[i]), ValOf(t.slots[i]))
          ELSE new
      moved[i \in 0 .. n] ==
        IF i = 0 THEN NewWithCapacity(2 * n) ELSE Move(moved[i - 1], i - 1)
  IN  [t EXCEPT !.maxLoad = moved[n].maxLoad, !.slots = moved[n].slots]

(* `try_resize`: twice the slots, the live ones re-inserted in index order *)
(* under the same epoch.  The stale ones are left behind.                  *)
Resize(t) ==
  LET n == Capacity(t)
      empty == [NewWithCapacity(2 * n) EXCEPT !.epoch = t.epoch]
      Move(new, i) ==
        IF IsLive(t, i)
          THEN InsertNoResize(new, KeyOf(t.slots[i]), ValOf(t.slots[i]))
          ELSE new
      moved[i \in 0 .. n] == IF i = 0 THEN empty ELSE Move(moved[i - 1], i - 1)
  IN  [t EXCEPT !.maxLoad = moved[n].maxLoad, !.slots = moved[n].slots]

(* Mutant: the resize comes one entry late.                                *)
GrownLate(t) == IF t.num > t.maxLoad + 1 THEN Resize(t) ELSE t

Grown(t) == IF t.num > t.maxLoad THEN Resize(t) ELSE t

Insert(k, v) ==
  LET t == EnsureSlots(table)
  IN  /\ table' = Grown(InsertNoResize(t, k, v))
      /\ UNCHANGED hash

(* The callers' only use of `find_slot` and `insert_at`: look the key up,  *)
(* and on a miss write at the slot the probe ended on.                     *)
FindOrInsert(k, v) ==
  LET t == EnsureSlots(table)
      r == Probe(t, k)
  IN  /\ table' = IF r.found THEN t ELSE Grown(WriteAt(t, r.at, k, v))
      /\ UNCHANGED hash

-----------------------------------------------------------------------------
(* `remove`: vacate the slot, then `repair` the run behind it.  The walk   *)
(* goes on to the first slot that is not live; each slot it meets whose    *)
(* home is not strictly between the hole and itself moves into the hole.   *)
StrictlyPast(h, hole, j, n) == (j + n - h) % n > (j + n - hole) % n   \* mutant
WrapsPast(h, hole, j, n) == (j + n - h) % n >= (j + n - hole) % n

Repair(t, hole0) ==
  LET n == Capacity(t)
      Visit(w, j) ==
        IF w.done \/ ~ IsLive(w.t, j)
          THEN [w EXCEPT !.done = TRUE]
        ELSE IF WrapsPast(Home(KeyOf(w.t.slots[j]), n), w.hole, j, n)
          THEN [w EXCEPT !.t.slots[w.hole] = w.t.slots[j],
                         !.t.slots[j] = Vacant, !.hole = j]
        ELSE w
      walk[d \in 0 .. n] ==
        IF d = 0 THEN [t |-> t, hole |-> hole0, done |-> FALSE]
        ELSE Visit(walk[d - 1], (hole0 + d) % n)
  IN  walk[n].t

Remove(k) ==
  /\ table' =
       IF Lookup(table, k) = None THEN table
       ELSE LET i == Probe(table, k).at
            IN  Repair([table EXCEPT !.slots[i] = Vacant, !.num = @ - 1], i)
  /\ UNCHANGED hash

-----------------------------------------------------------------------------
(* Mutants: the epoch starts over and the slots are left; the epoch is let *)
(* past its top.                                                           *)
ClearedNotSwept(t) ==
  [t EXCEPT !.num = 0, !.epoch = IF @ >= EpochMax THEN 1 ELSE @ + 1]

(* `clear`: one more on the epoch, and a real sweep when it is at its top. *)
Cleared(t) ==
  IF t.epoch >= EpochMax
    THEN [t EXCEPT !.num = 0, !.epoch = 1,
                   !.slots = [i \in DOMAIN t.slots |-> Vacant]]
    ELSE [t EXCEPT !.num = 0, !.epoch = @ + 1]

Clear ==
  /\ table' = Cleared(table)
  /\ UNCHANGED hash

(* `clear_fit`: clear, but drop an array whose size no longer fits the     *)
(* decaying high-water mark.                                               *)
ClearFit ==
  LET n == Capacity(table)
      decayed == table.fitHw - table.fitHw \div FitDecay
      hw == Max({table.num, decayed})
      want == Pow2AtLeast(2 * hw + 1)
      t == [table EXCEPT !.fitHw = hw]
  IN  /\ table' = IF n = 0 \/ (want <= n /\ n \div FitSlack <= want)
                    THEN Cleared(t)
                    ELSE [t EXCEPT !.num = 0, !.maxLoad = 0, !.epoch = 1,
                                   !.slots = NoSlots]
      /\ UNCHANGED hash

-----------------------------------------------------------------------------
(* `new`, or `with_capacity` at its least.                                 *)
Init ==
  /\ hash \in [Key -> Hash]
  /\ table \in {New, NewWithCapacity(MinCapacity)}

Next ==
  \/ Clear \/ ClearFit
  \/ \E k \in Key : Remove(k)
  \/ \E k \in Key, v \in Val : Insert(k, v) \/ FindOrInsert(k, v)

Spec == Init /\ [][Next]_vars

-----------------------------------------------------------------------------
RunsUnbroken ==
  \A i \in LiveSlots(table) :
    /\ Probe(table, KeyOf(table.slots[i])) = [at |-> i, found |-> TRUE]
    /\ \A j \in LiveSlots(table) :
         KeyOf(table.slots[i]) = KeyOf(table.slots[j]) => i = j

LoadKept ==
  /\ table.num = Cardinality(LiveSlots(table))
  /\ table.maxLoad = MaxLoadFor(Capacity(table))
  /\ table.num <= table.maxLoad

(* Every live key is reachable from its home slot by a run of live slots   *)
(* with no free slot in between, and no key is live twice, which is what   *)
(* the removal's backward shift is for (hashmap2.rs, Invariants).  And the *)
(* entry count is exact and within the load of the array there is, so a    *)
(* free slot ends every probe: no table is ever full or saturated, nor     *)
(* carries the load limit of an array it no longer has.                    *)
ProbesEnd == RunsUnbroken /\ LoadKept

(* No slot carries a stamp of the future.  A clear that only moves the     *)
(* epoch on would bring such a slot back to life with the value it had,    *)
(* many clears ago -- the epoch's wrap and the dropped array included.     *)
NoFutureStamp ==
  \A i \in DOMAIN table.slots :
    table.slots[i] # Vacant => Stamp(table.slots[i]) <= table.epoch

=============================================================================
