----------------------------- MODULE HashProofs -----------------------------
(***************************************************************************)
(* The open-addressed map is a map: whatever the operations, the hashes    *)
(* and the sizes, its table stays sound and binds what the abstract map    *)
(* binds.  First what the operations of hashmap2.rs keep of a table, one   *)
(* lemma for each of them (`Sound` is what they keep); then the inductive  *)
(* invariant of the specification, and of the composition with FiniteMap.  *)
(***************************************************************************)
EXTENDS MCHashMap2, LeastNumber, FiniteSetTheorems

(* The slots are a circle: the slot d steps on from a, and how far on from *)
(* a the slot b is.                                                        *)
Around(n, a, d) == IF a + d < n THEN a + d ELSE a + d - n
Dist(n, a, b) == IF b >= a THEN b - a ELSE b + (n - a)

(* The remainders of the code walk this circle.                            *)
LEMMA Mods ==
  ASSUME NEW n \in Nat, n # 0
  PROVE  /\ \A a \in 0 .. n - 1, d \in 0 .. n : (a + d) % n = Around(n, a, d)
         /\ \A a, b \in 0 .. n - 1 : (b + n - a) % n = Dist(n, a, b)
         /\ \A x \in Nat : x % n \in 0 .. n - 1
<1>1. \A x \in Nat : x < n => x % n = x
  OBVIOUS
<1>2. \A x \in Nat : n <= x /\ x < 2 * n => x % n = x - n
  OBVIOUS
<1>3. \A x \in Nat : x % n \in 0 .. n - 1
  OBVIOUS
<1>4. ASSUME NEW a \in 0 .. n - 1, NEW d \in 0 .. n
      PROVE  (a + d) % n = Around(n, a, d)
  <2>1. a + d \in Nat /\ a + d < 2 * n
    OBVIOUS
  <2> QED
    BY <1>1, <1>2, <2>1 DEF Around
<1>5. ASSUME NEW a \in 0 .. n - 1, NEW b \in 0 .. n - 1
      PROVE  (b + n - a) % n = Dist(n, a, b)
  <2>1. b + n - a \in Nat /\ b + n - a < 2 * n
    OBVIOUS
  <2>2. b < a => b + n - a < n
    OBVIOUS
  <2>3. b >= a => n <= b + n - a /\ (b + n - a) - n = b - a
    OBVIOUS
  <2> QED
    BY <1>1, <1>2, <2>1, <2>2, <2>3 DEF Dist
<1> QED
  BY <1>3, <1>4, <1>5

(* A slot is where its distance leads, and no two are equally far.         *)
LEMMA Circle ==
  ASSUME NEW n \in Nat, NEW a \in 0 .. n - 1
  PROVE  /\ \A b \in 0 .. n - 1 : Dist(n, a, b) \in 0 .. n - 1 /\ Around(n, a, Dist(n, a, b)) = b
         /\ \A d \in 0 .. n - 1 : Around(n, a, d) \in 0 .. n - 1 /\ Dist(n, a, Around(n, a, d)) = d
         /\ \A b, c \in 0 .. n - 1 : Dist(n, a, b) = Dist(n, a, c) => b = c
BY DEF Around, Dist

-----------------------------------------------------------------------------
(* A table of n slots.                                                     *)
Slot == {Vacant} \cup (Nat \X Key \X Val)
Tables(n) ==
  [num : Nat, maxLoad : Nat, epoch : Nat, fitHw : Nat, slots : [0 .. n - 1 -> Slot]]

(* The table binds k to v.                                                 *)
Binds(t, n, k, v) ==
  \E i \in 0 .. n - 1 : IsLive(t, i) /\ KeyOf(t.slots[i]) = k /\ ValOf(t.slots[i]) = v

(* From the home of a live key to its slot every slot is live; no key is   *)
(* live twice; no stamp is of the future; the entry count is exact.        *)
Unbroken(t, n) ==
  \A i, j \in 0 .. n - 1 :
    LET h == Home(KeyOf(t.slots[i]), n)
    IN  IsLive(t, i) /\ Dist(n, h, j) < Dist(n, h, i) => IsLive(t, j)
Once(t, n) ==
  \A i, j \in 0 .. n - 1 :
    IsLive(t, i) /\ IsLive(t, j) /\ KeyOf(t.slots[i]) = KeyOf(t.slots[j]) => i = j
Past(t, n) ==
  \A i \in 0 .. n - 1 : t.slots[i] # Vacant => Stamp(t.slots[i]) <= t.epoch

Sound(t, n) ==
  /\ t \in Tables(n)
  /\ Unbroken(t, n) /\ Once(t, n) /\ Past(t, n)
  /\ t.num = Cardinality(LiveSlots(t))

(* What a slot holds, by its parts.                                        *)
LEMMA SlotParts ==
  /\ \A g, k, v : /\ Live(g, k, v) # Vacant
                  /\ Stamp(Live(g, k, v)) = g /\ KeyOf(Live(g, k, v)) = k /\ ValOf(Live(g, k, v)) = v
  /\ \A g \in Nat, k \in Key, v \in Val : Live(g, k, v) \in Slot
  /\ \A s \in Slot : s # Vacant => /\ Stamp(s) \in Nat /\ KeyOf(s) \in Key /\ ValOf(s) \in Val
                                   /\ s = Live(Stamp(s), KeyOf(s), ValOf(s))
<1>1. \A g, k, v : DOMAIN <<g, k, v>> = {1, 2, 3} /\ DOMAIN <<>> = {}
  OBVIOUS
<1>2. \A g, k, v : Live(g, k, v) # Vacant
  BY <1>1 DEF Live, Vacant
<1>3. \A g, k, v : Stamp(Live(g, k, v)) = g /\ KeyOf(Live(g, k, v)) = k /\ ValOf(Live(g, k, v)) = v
  BY DEF Live, Stamp, KeyOf, ValOf
<1>4. \A s \in Nat \X Key \X Val : /\ Stamp(s) \in Nat /\ KeyOf(s) \in Key /\ ValOf(s) \in Val
                                   /\ s = Live(Stamp(s), KeyOf(s), ValOf(s))
  BY DEF Live, Stamp, KeyOf, ValOf
<1>5. \A g \in Nat, k \in Key, v \in Val : Live(g, k, v) \in Slot
  BY DEF Live, Slot
<1> QED
  BY <1>2, <1>3, <1>4, <1>5 DEF Slot

(* The capacity of a table of n slots is n, and its live slots are finite. *)
LEMMA CapacityIs ==
  ASSUME NEW n \in Nat, NEW t \in Tables(n)
  PROVE  /\ Capacity(t) = n /\ DOMAIN t.slots = 0 .. n - 1
         /\ LiveSlots(t) \subseteq 0 .. n - 1 /\ IsFiniteSet(LiveSlots(t))
         /\ Cardinality(LiveSlots(t)) \in 0 .. n
<1>1. DOMAIN t.slots = 0 .. n - 1
  BY DEF Tables
<1>2. IsFiniteSet(0 .. n - 1) /\ Cardinality(0 .. n - 1) = n
  <2>1. Cardinality(0 .. n - 1) = IF 0 > n - 1 THEN 0 ELSE (n - 1) - 0 + 1
    BY FS_Interval
  <2> QED
    BY <2>1, FS_Interval
<1>3. LiveSlots(t) \subseteq 0 .. n - 1
  BY <1>1 DEF LiveSlots
<1>4. IsFiniteSet(LiveSlots(t)) /\ Cardinality(LiveSlots(t)) <= n
  BY <1>2, <1>3, FS_Subset
<1>5. Cardinality(LiveSlots(t)) \in Nat
  BY <1>4, FS_CardinalityType
<1> QED
  BY <1>1, <1>2, <1>3, <1>4, <1>5 DEF Capacity

(* A table with fewer live slots than slots has a free one.                *)
LEMMA HasRoom ==
  ASSUME NEW n \in Nat, NEW t \in Tables(n), Cardinality(LiveSlots(t)) < n
  PROVE  \E j \in 0 .. n - 1 : ~ IsLive(t, j)
<1> SUFFICES ASSUME \A j \in 0 .. n - 1 : IsLive(t, j) PROVE FALSE
  OBVIOUS
<1>1. LiveSlots(t) = 0 .. n - 1
  <2>1. DOMAIN t.slots = 0 .. n - 1
    BY CapacityIs
  <2> QED
    BY <2>1 DEF LiveSlots
<1>2. Cardinality(LiveSlots(t)) = n
  BY <1>1, CapacityIs DEF Capacity
<1> QED
  BY <1>2

-----------------------------------------------------------------------------
(* The least number of a set, as the library defines it.                   *)
LEMMA MinIs ==
  ASSUME NEW S, S \subseteq Nat, NEW m \in S, \A k \in S : m <= k
  PROVE  Min(S) = m
<1>1. \A x \in S : (\A y \in S : x =< y) <=> x = m
  OBVIOUS
<1> QED
  BY <1>1 DEF Min

(* Where a probe of a table with a free slot ends: on the first slot, from *)
(* the key's home on, that is free or holds the key.                       *)
Ends(t, n, k, a) ==
  /\ a \in 0 .. n - 1
  /\ Stops(t, k, a)
  /\ \A j \in 0 .. n - 1 :
       Dist(n, Home(k, n), j) < Dist(n, Home(k, n), a) => ~ Stops(t, k, j)

LEMMA ProbeEnds ==
  ASSUME NEW n \in Nat, n # 0, NEW t \in Tables(n), NEW k \in Key, hash \in [Key -> Nat],
         \E j \in 0 .. n - 1 : ~ IsLive(t, j)
  PROVE  /\ Ends(t, n, k, Probe(t, k).at)
         /\ Probe(t, k).found = IsLive(t, Probe(t, k).at)
<1> DEFINE h == Home(k, n)
           At(d) == (h + d) % n
           stops == {d \in 0 .. n - 1 : Stops(t, k, At(d))}
<1>1. h \in 0 .. n - 1
  BY Mods DEF Home
<1>2. \A d \in 0 .. n - 1 : At(d) = Around(n, h, d)
  BY <1>1, Mods
<1>3. PICK free \in 0 .. n - 1 : ~ IsLive(t, free)
  OBVIOUS
<1>4. Dist(n, h, free) \in stops
  <2>1. Dist(n, h, free) \in 0 .. n - 1 /\ Around(n, h, Dist(n, h, free)) = free
    BY <1>1, Circle
  <2>2. At(Dist(n, h, free)) = free
    BY <1>2, <2>1
  <2> QED
    BY <1>3, <2>1, <2>2 DEF Stops
<1>5. PICK m \in stops : \A d \in stops : m <= d
  <2>1. stops \subseteq Nat /\ stops # {}
    BY <1>4
  <2> HIDE DEF stops
  <2> QED
    BY <2>1, LeastOf
<1>6. Min(stops) = m
  <2>1. stops \subseteq Nat
    OBVIOUS
  <2> HIDE DEF stops
  <2> QED
    BY <1>5, <2>1, MinIs
<1>7. Probe(t, k) = [at |-> At(m), found |-> IsLive(t, At(m))]
  <2>1. Capacity(t) = n
    BY CapacityIs
  <2>2. Probe(t, k) = IF stops = {}
                        THEN [at |-> Home(k, n), found |-> FALSE]
                        ELSE [at |-> At(Min(stops)), found |-> IsLive(t, At(Min(stops)))]
    BY <2>1 DEF Probe
  <2> HIDE DEF stops, At
  <2> QED
    BY <2>2, <1>4, <1>6
<1>8. m \in 0 .. n - 1 /\ Stops(t, k, At(m))
  OBVIOUS
<1>9. At(m) \in 0 .. n - 1 /\ Dist(n, h, At(m)) = m
  BY <1>1, <1>2, <1>8, Circle
<1>10. ASSUME NEW j \in 0 .. n - 1, Dist(n, h, j) < m, Stops(t, k, j) PROVE FALSE
  <2>0. Dist(n, h, j) \in 0 .. n - 1 /\ Around(n, h, Dist(n, h, j)) = j
    BY <1>1, Circle
  <2>1. At(Dist(n, h, j)) = j
    BY <1>2, <2>0
  <2>2. Dist(n, h, j) \in stops
 BY <1>10, <2>0, <2>1
  <2>3. m <= Dist(n, h, j)
    BY <1>5, <2>2
  <2> HIDE DEF stops, h
  <2> QED
    BY <1>8, <1>10, <2>0, <2>3
<1>11. Ends(t, n, k, At(m))
  BY <1>8, <1>9, <1>10 DEF Ends
<1> HIDE DEF At
<1> QED
  BY <1>7, <1>11

(* In a sound table the probe for a live key ends on its slot, and no slot *)
(* of the key is live where it ends on a free one.                         *)
LEMMA ProbeOf ==
  ASSUME NEW n \in Nat, n # 0, NEW t, Sound(t, n), NEW k \in Key, hash \in [Key -> Nat],
         \E j \in 0 .. n - 1 : ~ IsLive(t, j)
  PROVE  /\ \A i \in 0 .. n - 1 :
              IsLive(t, i) /\ KeyOf(t.slots[i]) = k => Probe(t, k) = [at |-> i, found |-> TRUE]
         /\ Probe(t, k).found => /\ IsLive(t, Probe(t, k).at)
                                 /\ KeyOf(t.slots[Probe(t, k).at]) = k
<1> DEFINE h == Home(k, n)
           a == Probe(t, k).at
<1>1. t \in Tables(n) /\ Ends(t, n, k, a) /\ Probe(t, k).found = IsLive(t, a)
  BY ProbeEnds DEF Sound
<1>2. h \in 0 .. n - 1 /\ a \in 0 .. n - 1
  BY <1>1, Mods DEF Home, Ends
<1>3. ASSUME NEW i \in 0 .. n - 1, IsLive(t, i), KeyOf(t.slots[i]) = k
      PROVE  a = i
  <2>1. Stops(t, k, i)
    BY <1>3 DEF Stops
  <2>2. ~ (Dist(n, h, i) < Dist(n, h, a))
    BY <1>1, <2>1 DEF Ends
  <2>3. CASE Dist(n, h, a) < Dist(n, h, i)
    <3>1. IsLive(t, a)
      BY <1>2, <1>3, <2>3 DEF Sound, Unbroken
    <3>2. KeyOf(t.slots[a]) = k
      BY <1>1, <3>1 DEF Ends, Stops
    <3> QED
      BY <1>2, <1>3, <3>1, <3>2 DEF Sound, Once
  <2>4. CASE Dist(n, h, a) = Dist(n, h, i)
    BY ZenonT(60), <1>2, <2>4, Circle
  <2>5. Dist(n, h, a) \in 0 .. n - 1 /\ Dist(n, h, i) \in 0 .. n - 1
    BY <1>2, Circle
  <2> QED
    BY <2>2, <2>3, <2>4, <2>5
<1>4. Probe(t, k) = [at |-> a, found |-> Probe(t, k).found]
  BY DEF Probe
<1> QED
  BY <1>1, <1>3, <1>4 DEF Ends, Stops

(* So `get` answers what the table binds.                                  *)
LEMMA LookupIs ==
  ASSUME NEW n \in Nat, NEW t, Sound(t, n), NEW k \in Key, hash \in [Key -> Nat],
         n # 0 => \E j \in 0 .. n - 1 : ~ IsLive(t, j), None \notin Val
  PROVE  /\ \A v \in Val : Lookup(t, k) = v <=> Binds(t, n, k, v)
         /\ Lookup(t, k) \in Val \cup {None}
<1>1. t \in Tables(n) /\ Capacity(t) = n
  BY CapacityIs DEF Sound
<1>2. CASE n = 0
  BY <1>1, <1>2 DEF Lookup, Binds
<1>3. CASE n # 0 /\ ~ Probe(t, k).found
  <2>1. Lookup(t, k) = None
    BY <1>1, <1>3 DEF Lookup
  <2>2. \A i \in 0 .. n - 1 : ~ (IsLive(t, i) /\ KeyOf(t.slots[i]) = k)
    BY <1>3, ProbeOf
  <2> QED
    BY <2>1, <2>2 DEF Binds
<1>4. CASE n # 0 /\ Probe(t, k).found
  <2> DEFINE a == Probe(t, k).at
  <2>1. Lookup(t, k) = ValOf(t.slots[a])
    BY <1>1, <1>4 DEF Lookup
  <2>2. IsLive(t, a) /\ KeyOf(t.slots[a]) = k /\ a \in 0 .. n - 1
    BY <1>1, <1>4, ProbeOf, ProbeEnds DEF Ends
  <2>3. \A i \in 0 .. n - 1 : IsLive(t, i) /\ KeyOf(t.slots[i]) = k => i = a
    BY <1>4, ProbeOf
  <2>4. ValOf(t.slots[a]) \in Val
    <3>1. t.slots[a] \in Slot /\ t.slots[a] # Vacant
      BY <1>1, <2>2 DEF Tables, IsLive
    <3> QED
      BY <3>1, SlotParts
  <2> HIDE DEF a
  <2> QED
    BY <2>1, <2>2, <2>3, <2>4 DEF Binds
<1> QED
  BY <1>2, <1>3, <1>4

-----------------------------------------------------------------------------
(* What writing a live entry into one slot does to the slots.              *)
Puts(u, t, a, k, v) ==
  u.slots = [t.slots EXCEPT ![a] = Live(t.epoch, k, v)] /\ u.epoch = t.epoch

LEMMA SlotWritten ==
  ASSUME NEW n \in Nat, NEW t \in Tables(n), NEW a \in 0 .. n - 1, NEW k \in Key, NEW v \in Val,
         NEW u, Puts(u, t, a, k, v)
  PROVE  /\ u.slots \in [0 .. n - 1 -> Slot]
         /\ IsLive(u, a) /\ KeyOf(u.slots[a]) = k /\ ValOf(u.slots[a]) = v /\ Stamp(u.slots[a]) = t.epoch
         /\ \A j \in 0 .. n - 1 : j # a => u.slots[j] = t.slots[j] /\ (IsLive(u, j) <=> IsLive(t, j))
         /\ LiveSlots(u) = LiveSlots(t) \cup {a}
<1>1. t.slots \in [0 .. n - 1 -> Slot] /\ t.epoch \in Nat
  BY DEF Tables
<1>2. Live(t.epoch, k, v) \in Slot
  BY <1>1, SlotParts
<1> USE DEF Puts
<1>3. u.slots \in [0 .. n - 1 -> Slot]
  BY <1>1, <1>2
<1>4. u.slots[a] = Live(t.epoch, k, v)
  BY <1>1
<1>5. \A j \in 0 .. n - 1 : j # a => u.slots[j] = t.slots[j]
  BY <1>1
<1>6. IsLive(u, a) /\ KeyOf(u.slots[a]) = k /\ ValOf(u.slots[a]) = v /\ Stamp(u.slots[a]) = t.epoch
  BY <1>4, SlotParts DEF IsLive
<1>7. \A j \in 0 .. n - 1 : j # a => (IsLive(u, j) <=> IsLive(t, j))
  BY <1>5 DEF IsLive
<1>8. DOMAIN u.slots = 0 .. n - 1 /\ DOMAIN t.slots = 0 .. n - 1
  BY <1>1, <1>3
<1>9. LiveSlots(u) = LiveSlots(t) \cup {a}
  BY <1>6, <1>7, <1>8 DEF LiveSlots
<1> QED
  BY <1>3, <1>5, <1>6, <1>7, <1>9

(* An entry written where the probe for its key ends: the runs stay whole, *)
(* and the key is bound to the value and to nothing else.                  *)
LEMMA Written ==
  ASSUME NEW n \in Nat, n # 0, NEW t, Sound(t, n), NEW k \in Key, NEW v \in Val,
         hash \in [Key -> Nat], \E j \in 0 .. n - 1 : ~ IsLive(t, j),
         NEW u, Puts(u, t, Probe(t, k).at, k, v)
  PROVE  /\ Unbroken(u, n) /\ Once(u, n) /\ Past(u, n)
         /\ \A l, w : Binds(u, n, l, w) <=> IF l = k THEN w = v ELSE Binds(t, n, l, w)
<1> DEFINE a == Probe(t, k).at
<1>1. t \in Tables(n) /\ Ends(t, n, k, a)
  BY ProbeEnds DEF Sound
<1>2. a \in 0 .. n - 1
  BY <1>1 DEF Ends
<1>3. \A i \in 0 .. n - 1 : i # a => ~ (IsLive(t, i) /\ KeyOf(t.slots[i]) = k)
  BY ProbeOf
<1>4. IsLive(t, a) => KeyOf(t.slots[a]) = k
  BY <1>1 DEF Ends, Stops
<1>5. \A j \in 0 .. n - 1 : Dist(n, Home(k, n), j) < Dist(n, Home(k, n), a) => IsLive(t, j)
  BY <1>1 DEF Ends, Stops
<1> HIDE DEF a
<1>6. /\ IsLive(u, a) /\ KeyOf(u.slots[a]) = k /\ ValOf(u.slots[a]) = v /\ Stamp(u.slots[a]) = t.epoch
      /\ \A j \in 0 .. n - 1 : j # a => u.slots[j] = t.slots[j] /\ (IsLive(u, j) <=> IsLive(t, j))
  BY <1>1, <1>2, SlotWritten DEF a
<1>7. Unbroken(u, n)
  <2> SUFFICES ASSUME NEW i \in 0 .. n - 1, NEW j \in 0 .. n - 1, IsLive(u, i),
                      Dist(n, Home(KeyOf(u.slots[i]), n), j) < Dist(n, Home(KeyOf(u.slots[i]), n), i)
               PROVE  IsLive(u, j)
    BY DEF Unbroken
  <2>1. CASE j = a
    BY <1>6, <2>1
  <2>2. CASE j # a /\ i = a
    BY <1>5, <1>6, <2>2
  <2>3. CASE j # a /\ i # a
    <3>1. IsLive(t, i) /\ KeyOf(u.slots[i]) = KeyOf(t.slots[i])
      BY <1>6, <2>3
    <3>2. IsLive(t, j)
      BY <3>1 DEF Sound, Unbroken
    <3> QED
      BY <1>6, <2>3, <3>2
  <2> QED
    BY <2>1, <2>2, <2>3
<1>8. Once(u, n)
  <2> SUFFICES ASSUME NEW i \in 0 .. n - 1, NEW j \in 0 .. n - 1, IsLive(u, i), IsLive(u, j),
                      KeyOf(u.slots[i]) = KeyOf(u.slots[j]), i # j
               PROVE  FALSE
    BY DEF Once
  <2>1. CASE i = a \/ j = a
    BY <1>3, <1>6, <2>1
  <2>2. CASE i # a /\ j # a
    BY <1>6, <2>2 DEF Sound, Once
  <2> QED
    BY <2>1, <2>2
<1>9. Past(u, n)
  <2>1. t.epoch \in Nat /\ u.epoch = t.epoch
    BY <1>1 DEF Tables, Puts
  <2>2. Past(t, n)
    BY DEF Sound
  <2> QED
    BY <1>6, <2>1, <2>2 DEF Past
<1>10. ASSUME NEW l, NEW w
       PROVE  Binds(u, n, l, w) <=> IF l = k THEN w = v ELSE Binds(t, n, l, w)
  <2>1. CASE l = k
    BY <1>2, <1>3, <1>6, <2>1 DEF Binds
  <2>2. CASE l # k
    BY <1>2, <1>4, <1>6, <2>2 DEF Binds
  <2> QED
    BY <2>1, <2>2
<1> QED
  BY <1>7, <1>8, <1>9, <1>10

(* A new entry, where the probe ended without finding its key.             *)
Put(t, k, v) == WriteAt(t, Probe(t, k).at, k, v)

LEMMA WriteKeeps ==
  ASSUME NEW n \in Nat, n # 0, NEW t, Sound(t, n), NEW k \in Key, NEW v \in Val,
         hash \in [Key -> Nat], \E j \in 0 .. n - 1 : ~ IsLive(t, j), ~ Probe(t, k).found,
         NEW u, u = Put(t, k, v)
  PROVE  /\ Sound(u, n)
         /\ u.epoch = t.epoch /\ u.maxLoad = t.maxLoad /\ u.fitHw = t.fitHw /\ u.num = t.num + 1
         /\ \A l, w : Binds(u, n, l, w) <=> IF l = k THEN w = v ELSE Binds(t, n, l, w)
<1> DEFINE a == Probe(t, k).at
<1>1. t \in Tables(n) /\ Ends(t, n, k, a) /\ ~ IsLive(t, a)
  BY ProbeEnds DEF Sound
<1>2. a \in 0 .. n - 1 /\ a \notin LiveSlots(t)
  BY <1>1 DEF Ends, LiveSlots
<1> HIDE DEF a
<1>3. /\ Puts(u, t, a, k, v) /\ u.epoch = t.epoch
      /\ u.maxLoad = t.maxLoad /\ u.fitHw = t.fitHw /\ u.num = t.num + 1
  BY <1>1 DEF Put, WriteAt, Tables, Puts, a
<1>3a. u = [num |-> u.num, maxLoad |-> u.maxLoad, epoch |-> u.epoch, fitHw |-> u.fitHw, slots |-> u.slots]
  BY <1>1 DEF Put, WriteAt, Tables, Puts, a
<1>4. u.slots \in [0 .. n - 1 -> Slot] /\ LiveSlots(u) = LiveSlots(t) \cup {a}
  BY <1>1, <1>2, <1>3, SlotWritten
<1>5. u \in Tables(n)
  BY <1>1, <1>3, <1>3a, <1>4 DEF Tables
<1>6. Cardinality(LiveSlots(u)) = Cardinality(LiveSlots(t)) + 1
  BY <1>1, <1>2, <1>4, CapacityIs, FS_AddElement
<1>7. /\ Unbroken(u, n) /\ Once(u, n) /\ Past(u, n)
      /\ \A l, w : Binds(u, n, l, w) <=> IF l = k THEN w = v ELSE Binds(t, n, l, w)
  BY <1>3, Written DEF a
<1> QED
  BY <1>3, <1>5, <1>6, <1>7 DEF Sound

(* `insert_no_resize`, whether the key was there or not.                   *)
LEMMA InsertKeeps ==
  ASSUME NEW n \in Nat, n # 0, NEW t, Sound(t, n), NEW k \in Key, NEW v \in Val,
         hash \in [Key -> Nat], \E j \in 0 .. n - 1 : ~ IsLive(t, j),
         NEW u, u = InsertNoResize(t, k, v)
  PROVE  /\ Sound(u, n)
         /\ u.epoch = t.epoch /\ u.maxLoad = t.maxLoad /\ u.fitHw = t.fitHw
         /\ u.num = IF Probe(t, k).found THEN t.num ELSE t.num + 1
         /\ \A l, w : Binds(u, n, l, w) <=> IF l = k THEN w = v ELSE Binds(t, n, l, w)
<1> DEFINE a == Probe(t, k).at
<1>1. CASE ~ Probe(t, k).found
  BY <1>1, WriteKeeps DEF InsertNoResize, Put
<1>2. CASE Probe(t, k).found
  <2>1. t \in Tables(n) /\ Ends(t, n, k, a) /\ IsLive(t, a)
    BY <1>2, ProbeEnds DEF Sound
  <2>2. a \in 0 .. n - 1 /\ LiveSlots(t) \cup {a} = LiveSlots(t)
    BY ZenonT(60), <2>1, CapacityIs DEF Ends, LiveSlots
  <2> HIDE DEF a
  <2>3. /\ Puts(u, t, a, k, v) /\ u.epoch = t.epoch
        /\ u.maxLoad = t.maxLoad /\ u.fitHw = t.fitHw /\ u.num = t.num
    BY <1>2, <2>1 DEF InsertNoResize, Tables, Puts, a
  <2>3a. u = [num |-> u.num, maxLoad |-> u.maxLoad, epoch |-> u.epoch, fitHw |-> u.fitHw, slots |-> u.slots]
    BY <1>2, <2>1 DEF InsertNoResize, Tables, Puts, a
  <2>4. u.slots \in [0 .. n - 1 -> Slot] /\ LiveSlots(u) = LiveSlots(t)
    BY <2>1, <2>2, <2>3, SlotWritten
  <2>5. u \in Tables(n)
    BY <2>1, <2>3, <2>3a, <2>4 DEF Tables
  <2>6. /\ Unbroken(u, n) /\ Once(u, n) /\ Past(u, n)
        /\ \A l, w : Binds(u, n, l, w) <=> IF l = k THEN w = v ELSE Binds(t, n, l, w)
    BY <2>3, Written DEF a
  <2> QED
    BY <1>2, <2>3, <2>4, <2>5, <2>6 DEF Sound
<1> QED
  BY <1>1, <1>2

-----------------------------------------------------------------------------
(* The doubling of `pow2_at_least` is well defined and starts at the least *)
(* capacity.                                                               *)
LEMMA PowUnfolds ==
  ASSUME NEW size, Pow2Fuel \in Nat, MinCapacity \in Nat
  PROVE  \E cap : /\ cap[0] = MinCapacity
                  /\ \A f \in 1 .. Pow2Fuel :
                       cap[f] = IF cap[f - 1] >= size THEN cap[f - 1] ELSE 2 * cap[f - 1]
                  /\ Pow2AtLeast(size) = cap[Pow2Fuel]
<1> DEFINE Step(c) == IF c >= size THEN c ELSE 2 * c
           Sat(g, m) == g = [f \in 0 .. m |-> IF f = 0 THEN MinCapacity ELSE Step(g[f - 1])]
           T == {m \in Nat : \E g : Sat(g, m)}
<1>1. 0 \in T
  <2> DEFINE g == [f \in 0 .. 0 |-> MinCapacity]
  <2>1. Sat(g, 0)
    OBVIOUS
  <2> QED
    BY <2>1
<1>2. ASSUME NEW m \in 1 .. Pow2Fuel, m - 1 \in T PROVE m \in T
  <2>1. PICK g : Sat(g, m - 1)
    BY <1>2
  <2> DEFINE e == [f \in 0 .. m |-> IF f = m THEN Step(g[m - 1]) ELSE g[f]]
  <2>2. Sat(e, m)
    <3>1. \A f \in 0 .. m : e[f] = IF f = 0 THEN MinCapacity ELSE Step(e[f - 1])
      BY <2>1
    <3> QED
      BY <3>1
  <2>3. m \in Nat
    OBVIOUS
  <2> HIDE DEF e, Sat
  <2> QED
    BY <2>2, <2>3
<1>3. PICK g : Sat(g, Pow2Fuel)
  <2> HIDE DEF T
  <2>1. Pow2Fuel \in T
    BY <1>1, <1>2, UpTo
  <2> QED
    BY <2>1 DEF T
<1> DEFINE cap == CHOOSE c : Sat(c, Pow2Fuel)
<1>4. Sat(cap, Pow2Fuel)
  BY <1>3
<1>5. Pow2AtLeast(size) = cap[Pow2Fuel]
  BY DEF Pow2AtLeast
<1> HIDE DEF cap
<1>6. /\ cap[0] = MinCapacity
      /\ \A f \in 1 .. Pow2Fuel : cap[f] = IF cap[f - 1] >= size THEN cap[f - 1] ELSE 2 * cap[f - 1]
  BY <1>4
<1> QED
  BY <1>5, <1>6

(* So an array is never smaller than the least capacity.                   *)
LEMMA PowAtLeast ==
  ASSUME NEW size, Pow2Fuel \in Nat, MinCapacity \in Nat
  PROVE  Pow2AtLeast(size) \in Nat /\ Pow2AtLeast(size) >= MinCapacity
<1>1. PICK cap : /\ cap[0] = MinCapacity
                 /\ \A f \in 1 .. Pow2Fuel :
                      cap[f] = IF cap[f - 1] >= size THEN cap[f - 1] ELSE 2 * cap[f - 1]
                 /\ Pow2AtLeast(size) = cap[Pow2Fuel]
  BY PowUnfolds
<1> DEFINE T == {f \in 0 .. Pow2Fuel : cap[f] \in Nat /\ cap[f] >= MinCapacity}
<1>2. 0 \in T
  BY <1>1
<1>3. ASSUME NEW f \in 1 .. Pow2Fuel, f - 1 \in T PROVE f \in T
  <2>1. cap[f] = cap[f - 1] \/ cap[f] = 2 * cap[f - 1]
    BY <1>1
  <2>2. cap[f - 1] \in Nat /\ cap[f - 1] >= MinCapacity
    BY <1>3
  <2>3. cap[f] \in Nat /\ cap[f] >= MinCapacity
    BY <2>1, <2>2
  <2> QED
    BY <2>3
<1>4. Pow2Fuel \in T
  <2> HIDE DEF T
  <2> QED
    BY <1>2, <1>3, UpTo
<1> QED
  BY <1>1, <1>4

(* The load limit leaves a slot free and grows by one at least when the    *)
(* array doubles.                                                          *)
LEMMA Loads ==
  ASSUME NEW n \in Nat
  PROVE  /\ MaxLoadFor(n) \in Nat
         /\ n >= 4 => MaxLoadFor(n) < n /\ MaxLoadFor(n) + 1 <= MaxLoadFor(2 * n)
         /\ n >= 4 => 2 * n >= 4 /\ n # 0
         /\ MaxLoadFor(0) = 0
BY DEF MaxLoadFor

(* A table none of whose slots is in use.                                  *)
LEMMA Unused ==
  ASSUME NEW n \in Nat, NEW t \in Tables(n), \A i \in 0 .. n - 1 : t.slots[i] = Vacant, t.num = 0
  PROVE  Sound(t, n) /\ \A k, v : ~ Binds(t, n, k, v)
<1>1. \A i \in 0 .. n - 1 : ~ IsLive(t, i)
  BY DEF IsLive
<1>2. LiveSlots(t) = {}
  BY <1>1, CapacityIs DEF LiveSlots
<1>3. Cardinality(LiveSlots(t)) = 0
  BY <1>2, FS_EmptySet
<1> QED
  BY <1>1, <1>3 DEF Sound, Unbroken, Once, Past, Binds

(* `new_with_capacity_pow2` makes one, whatever epoch it is then given.    *)
Blank(n, g) == [NewWithCapacity(n) EXCEPT !.epoch = g]

LEMMA NewTable ==
  ASSUME NEW n \in Nat, NEW g \in Nat, NEW t, t = Blank(n, g)
  PROVE  /\ Sound(t, n) /\ \A k, v : ~ Binds(t, n, k, v)
         /\ t.num = 0 /\ t.maxLoad = MaxLoadFor(n) /\ t.epoch = g /\ t.fitHw = 0
         /\ \A i \in 0 .. n - 1 : t.slots[i] = Vacant
<1> DEFINE empty == [i \in 0 .. n - 1 |-> Vacant]
<1>1. t = [num |-> 0, maxLoad |-> MaxLoadFor(n), epoch |-> g, fitHw |-> 0, slots |-> empty]
  BY DEF NewWithCapacity, Blank
<1>2. empty \in [0 .. n - 1 -> Slot] /\ \A i \in 0 .. n - 1 : empty[i] = Vacant
  BY DEF Slot
<1>3. MaxLoadFor(n) \in Nat
  BY Loads
<1> HIDE DEF empty
<1>4. t \in Tables(n)
  <2>1. \A m \in Nat : [num |-> 0, maxLoad |-> m, epoch |-> g, fitHw |-> 0, slots |-> empty] \in Tables(n)
    BY <1>2 DEF Tables
  <2> QED
    BY <1>1, <1>3, <2>1
<1>5. \A i \in 0 .. n - 1 : t.slots[i] = Vacant
  BY <1>1, <1>2
<1>6. t.num = 0 /\ t.maxLoad = MaxLoadFor(n) /\ t.epoch = g /\ t.fitHw = 0
  BY <1>1
<1> QED
  BY <1>4, <1>5, <1>6, Unused

-----------------------------------------------------------------------------
(* The copying of `try_resize`, slot after slot, is well defined.          *)
LEMMA MovedUnfolds ==
  ASSUME NEW n \in Nat, NEW t \in Tables(n)
  PROVE  \E moved : /\ moved[0] = [NewWithCapacity(2 * n) EXCEPT !.epoch = t.epoch]
                    /\ \A i \in 1 .. n :
                         moved[i] = IF IsLive(t, i - 1)
                                      THEN InsertNoResize(moved[i - 1], KeyOf(t.slots[i - 1]), ValOf(t.slots[i - 1]))
                                      ELSE moved[i - 1]
                    /\ Resize(t) = [t EXCEPT !.maxLoad = moved[n].maxLoad, !.slots = moved[n].slots]
<1> DEFINE empty == [NewWithCapacity(2 * n) EXCEPT !.epoch = t.epoch]
           Move(new, i) ==
             IF IsLive(t, i) THEN InsertNoResize(new, KeyOf(t.slots[i]), ValOf(t.slots[i])) ELSE new
           Sat(g, m) == g = [i \in 0 .. m |-> IF i = 0 THEN empty ELSE Move(g[i - 1], i - 1)]
           T == {m \in Nat : \E g : Sat(g, m)}
<1>0. Capacity(t) = n
  BY CapacityIs
<1>1. Resize(t) = LET moved == CHOOSE g : Sat(g, n)
                  IN  [t EXCEPT !.maxLoad = moved[n].maxLoad, !.slots = moved[n].slots]
  BY <1>0 DEF Resize
<1> HIDE DEF empty, Move
<1>2. 0 \in T
  <2> DEFINE g == [i \in 0 .. 0 |-> empty]
  <2>1. Sat(g, 0)
    OBVIOUS
  <2> HIDE DEF g, Sat
  <2> QED
    BY <2>1
<1>3. ASSUME NEW m \in 1 .. n, m - 1 \in T PROVE m \in T
  <2>1. PICK g : Sat(g, m - 1)
    BY <1>3
  <2> DEFINE e == [i \in 0 .. m |-> IF i = m THEN Move(g[m - 1], m - 1) ELSE g[i]]
  <2>2. Sat(e, m)
    <3>1. \A i \in 0 .. m : e[i] = IF i = 0 THEN empty ELSE Move(e[i - 1], i - 1)
      BY <2>1
    <3> QED
      BY <3>1
  <2>3. m \in Nat
    OBVIOUS
  <2> HIDE DEF e, Sat
  <2> QED
    BY <2>2, <2>3
<1>4. PICK g : Sat(g, n)
  <2> HIDE DEF T
  <2>1. n \in T
    BY <1>2, <1>3, UpTo
  <2> QED
    BY <2>1 DEF T
<1> DEFINE moved == CHOOSE c : Sat(c, n)
<1>5. Sat(moved, n)
  <2> HIDE DEF Sat
  <2> QED
    BY <1>4
<1>6. Resize(t) = [t EXCEPT !.maxLoad = moved[n].maxLoad, !.slots = moved[n].slots]
  BY <1>1
<1> HIDE DEF moved
<1>7. /\ moved[0] = empty
      /\ \A i \in 1 .. n : moved[i] = Move(moved[i - 1], i - 1)
  BY <1>5
<1> QED
  BY <1>6, <1>7 DEF empty, Move

(* What a table binds is a matter of its slots and its epoch.              *)
LEMMA SameSlots ==
  ASSUME NEW n \in Nat, NEW t, Sound(t, n), NEW u \in Tables(n),
         u.slots = t.slots, u.epoch = t.epoch, u.num = t.num
  PROVE  Sound(u, n) /\ \A k, v : Binds(u, n, k, v) <=> Binds(t, n, k, v)
<1>1. \A i : IsLive(u, i) <=> IsLive(t, i)
  BY DEF IsLive
<1>2. LiveSlots(u) = LiveSlots(t)
  BY <1>1 DEF LiveSlots
<1>3. Unbroken(u, n) /\ Once(u, n) /\ Past(u, n)
  BY <1>1 DEF Sound, Unbroken, Once, Past
<1>4. \A k, v : Binds(u, n, k, v) <=> Binds(t, n, k, v)
  BY <1>1 DEF Binds
<1>5. u.num = Cardinality(LiveSlots(u))
  BY <1>2 DEF Sound
<1> QED
  BY <1>3, <1>4, <1>5 DEF Sound

(* `try_resize`: twice the slots, and the same entries in them.            *)
LEMMA ResizeKeeps ==
  ASSUME NEW n \in Nat, n # 0, NEW t, Sound(t, n), hash \in [Key -> Nat], NEW r, r = Resize(t)
  PROVE  /\ Sound(r, 2 * n)
         /\ r.maxLoad = MaxLoadFor(2 * n)
         /\ r.num = t.num /\ r.epoch = t.epoch /\ r.fitHw = t.fitHw
         /\ \A k, v : Binds(r, 2 * n, k, v) <=> Binds(t, n, k, v)
<1> DEFINE Below(i) == {j \in LiveSlots(t) : j < i}
           Copied(u, i) ==
             /\ Sound(u, 2 * n)
             /\ u.epoch = t.epoch /\ u.maxLoad = MaxLoadFor(2 * n)
             /\ u.num = Cardinality(Below(i))
             /\ \A k, v : Binds(u, 2 * n, k, v) <=>
                            \E j \in 0 .. i - 1 : /\ IsLive(t, j)
                                                  /\ KeyOf(t.slots[j]) = k /\ ValOf(t.slots[j]) = v
<1>1. t \in Tables(n) /\ t.epoch \in Nat /\ DOMAIN t.slots = 0 .. n - 1
  BY CapacityIs DEF Sound, Tables
<1>2. PICK moved : /\ moved[0] = [NewWithCapacity(2 * n) EXCEPT !.epoch = t.epoch]
                   /\ \A i \in 1 .. n :
                        moved[i] = IF IsLive(t, i - 1)
                                     THEN InsertNoResize(moved[i - 1], KeyOf(t.slots[i - 1]), ValOf(t.slots[i - 1]))
                                     ELSE moved[i - 1]
                   /\ Resize(t) = [t EXCEPT !.maxLoad = moved[n].maxLoad, !.slots = moved[n].slots]
  BY <1>1, MovedUnfolds
<1>3. 2 * n \in Nat /\ 2 * n # 0 /\ MaxLoadFor(2 * n) \in Nat
  BY Loads
<1>4. LiveSlots(t) = {j \in 0 .. n - 1 : IsLive(t, j)}
  BY <1>1 DEF LiveSlots
<1>5. \A i : IsFiniteSet(Below(i)) /\ Cardinality(Below(i)) \in 0 .. n
  <2>1. IsFiniteSet(LiveSlots(t)) /\ Cardinality(LiveSlots(t)) \in 0 .. n
    BY <1>1, CapacityIs
  <2> SUFFICES ASSUME NEW i PROVE IsFiniteSet(Below(i)) /\ Cardinality(Below(i)) \in 0 .. n
    OBVIOUS
  <2>2. IsFiniteSet(Below(i)) /\ Cardinality(Below(i)) <= Cardinality(LiveSlots(t))
    BY <2>1, FS_Subset
  <2>3. Cardinality(Below(i)) \in Nat
    BY <2>2, FS_CardinalityType
  <2> QED
    BY <2>1, <2>2, <2>3
<1>6. Copied(moved[0], 0)
  <2>1. /\ Sound(moved[0], 2 * n) /\ \A k, v : ~ Binds(moved[0], 2 * n, k, v)
        /\ moved[0].num = 0 /\ moved[0].maxLoad = MaxLoadFor(2 * n) /\ moved[0].epoch = t.epoch
    <3> DEFINE e == moved[0]
               c == 2 * n
    <3>1. e = Blank(c, t.epoch)
      BY <1>2 DEF Blank
    <3>2. c \in Nat
      OBVIOUS
    <3> HIDE DEF e, c
    <3>3. /\ Sound(e, c) /\ \A k, v : ~ Binds(e, c, k, v)
          /\ e.num = 0 /\ e.maxLoad = MaxLoadFor(c) /\ e.epoch = t.epoch
      BY <1>1, <3>1, <3>2, NewTable
    <3> QED
      BY <3>3 DEF e, c
  <2>2. Below(0) = {}
    BY <1>4
  <2>3. Cardinality(Below(0)) = 0
    BY <2>2, FS_EmptySet
  <2> HIDE DEF Below
  <2> QED
    BY <2>1, <2>3
<1>7. ASSUME NEW i \in 1 .. n, Copied(moved[i - 1], i - 1)
      PROVE  Copied(moved[i], i)
  <2> DEFINE s == i - 1
             u == moved[i - 1]
             k == KeyOf(t.slots[s])
             v == ValOf(t.slots[s])
  <2>1. s \in 0 .. n - 1 /\ i - 1 - 1 = s - 1
    OBVIOUS
  <2>2. CASE ~ IsLive(t, s)
    <3>1. moved[i] = u
      BY <1>2, <2>2
    <3>2. Below(i) = Below(s)
      BY <1>4, <2>1, <2>2
    <3>3. \A j \in 0 .. i - 1 : IsLive(t, j) => j \in 0 .. s - 1
      BY <2>1, <2>2
    <3>4. \A j \in 0 .. s - 1 : j \in 0 .. i - 1
      OBVIOUS
    <3> HIDE DEF u, Below
    <3>5. Copied(u, s)
      BY <1>7 DEF u
    <3> HIDE DEF s
    <3> QED
      BY <3>1, <3>2, <3>3, <3>4, <3>5
  <2>3. CASE IsLive(t, s)
    <3>1. moved[i] = InsertNoResize(u, k, v)
      BY <1>2, <2>3
    <3>2. k \in Key /\ v \in Val
      <4>1. t.slots[s] \in Slot /\ t.slots[s] # Vacant
        BY <1>1, <2>1, <2>3 DEF Tables, IsLive
      <4> HIDE DEF s
      <4> QED
        BY <4>1, SlotParts
    <3>3. Copied(u, s)
      BY <1>7
    <3>4. \E j \in 0 .. 2 * n - 1 : ~ IsLive(u, j)
      <4>1. Cardinality(LiveSlots(u)) \in 0 .. n
        BY <1>5, <3>3 DEF Sound
      <4>2. Cardinality(LiveSlots(u)) < 2 * n
        BY <4>1
      <4> HIDE DEF u
      <4> QED
        BY <1>3, <3>3, <4>2, HasRoom DEF Sound
    <3> HIDE DEF u
    <3>5. ~ Probe(u, k).found
      <4> SUFFICES ASSUME Probe(u, k).found PROVE FALSE
        OBVIOUS
      <4> DEFINE a == Probe(u, k).at
      <4>1. IsLive(u, a) /\ KeyOf(u.slots[a]) = k
        BY <1>3, <3>2, <3>3, <3>4, ProbeOf
      <4>2. a \in 0 .. 2 * n - 1
        BY <1>3, <3>2, <3>3, <3>4, ProbeEnds DEF Sound, Ends
      <4>3. Binds(u, 2 * n, k, ValOf(u.slots[a]))
        BY <4>1, <4>2 DEF Binds
      <4>4. PICK j \in 0 .. s - 1 : IsLive(t, j) /\ KeyOf(t.slots[j]) = k
        BY <3>3, <4>3
      <4>5. j = s
        BY <2>1, <2>3, <4>4 DEF Sound, Once
      <4> QED
        BY <2>1, <4>4, <4>5
    <3>6. /\ Sound(moved[i], 2 * n)
          /\ moved[i].epoch = u.epoch /\ moved[i].maxLoad = u.maxLoad
          /\ moved[i].num = u.num + 1
          /\ \A l, w : Binds(moved[i], 2 * n, l, w) <=> IF l = k THEN w = v ELSE Binds(u, 2 * n, l, w)
      BY <1>3, <3>1, <3>2, <3>3, <3>4, <3>5, InsertKeeps
    <3>7. Cardinality(Below(i)) = Cardinality(Below(s)) + 1
      <4>1. Below(i) = Below(s) \cup {s} /\ s \notin Below(s)
        BY <1>4, <2>1, <2>3
      <4> HIDE DEF Below, s
      <4> QED
        BY <1>5, <4>1, FS_AddElement
    <3>8. ASSUME NEW l, NEW w
          PROVE  Binds(moved[i], 2 * n, l, w) <=>
                   \E j \in 0 .. i - 1 : IsLive(t, j) /\ KeyOf(t.slots[j]) = l /\ ValOf(t.slots[j]) = w
      <4>1. \A j \in 0 .. i - 1 : j # s <=> j \in 0 .. s - 1
        OBVIOUS
      <4>2. \A j \in 0 .. i - 1 : IsLive(t, j) /\ KeyOf(t.slots[j]) = k => j = s
        BY <2>1, <2>3 DEF Sound, Once
      <4>3. s \in 0 .. i - 1 /\ \A j \in 0 .. s - 1 : j \in 0 .. i - 1
        BY <2>1
      <4>4. Binds(u, 2 * n, l, w) <=>
              \E j \in 0 .. s - 1 : IsLive(t, j) /\ KeyOf(t.slots[j]) = l /\ ValOf(t.slots[j]) = w
        BY <3>3
      <4>5. CASE l = k
        <5> HIDE DEF s
        <5> QED
          BY <2>3, <3>6, <4>2, <4>3, <4>5 DEF k, v
      <4>6. CASE l # k
        <5>1. Binds(moved[i], 2 * n, l, w) <=> Binds(u, 2 * n, l, w)
          BY <3>6, <4>6
        <5> HIDE DEF s
        <5> QED
          BY <4>1, <4>3, <4>4, <4>6, <5>1 DEF k
      <4> QED
        BY <4>5, <4>6
    <3> HIDE DEF Below
    <3> QED
      BY <3>3, <3>6, <3>7, <3>8
  <2> QED
    BY <2>2, <2>3
<1>8. Copied(moved[n], n)
  <2> DEFINE T == {i \in 0 .. n : Copied(moved[i], i)}
  <2> HIDE DEF Copied
  <2>1. 0 \in T
    BY <1>6
  <2>2. \A i \in 1 .. n : i - 1 \in T => i \in T
    BY <1>7
  <2>3. n \in T
    <3> HIDE DEF T
    <3> QED
      BY <2>1, <2>2, UpTo
  <2> QED
    BY <2>3
<1> DEFINE m == moved[n]
<1>9. /\ r.maxLoad = MaxLoadFor(2 * n) /\ r.slots = m.slots
      /\ r.num = t.num /\ r.epoch = t.epoch /\ r.fitHw = t.fitHw
  BY <1>1, <1>2, <1>8 DEF Tables
<1>10. r \in Tables(2 * n)
  <2>1. m.slots \in [0 .. 2 * n - 1 -> Slot] /\ m.maxLoad \in Nat
    BY <1>8 DEF Sound, Tables
  <2> HIDE DEF m
  <2>2. r = [t EXCEPT !.maxLoad = m.maxLoad, !.slots = m.slots]
    BY <1>2 DEF m
  <2> QED
    BY <1>1, <2>1, <2>2 DEF Tables
<1>11. r.num = m.num
  <2>1. Below(n) = LiveSlots(t)
    BY <1>4
  <2> HIDE DEF Below
  <2> QED
    BY <1>8, <1>9, <2>1 DEF Sound
<1>12. Sound(r, 2 * n) /\ \A k, v : Binds(r, 2 * n, k, v) <=> Binds(m, 2 * n, k, v)
  BY <1>3, <1>8, <1>9, <1>10, <1>11, SameSlots
<1>13. \A k, v : Binds(m, 2 * n, k, v) <=> Binds(t, n, k, v)
  BY <1>8 DEF Binds
<1> QED
  BY <1>9, <1>12, <1>13

-----------------------------------------------------------------------------
(* A sound table between two operations: no array, or one whose load limit *)
(* is kept.                                                                *)
Kept(t, n) ==
  /\ Sound(t, n)
  /\ n = 0 \/ n >= 4
  /\ t.epoch \in 1 .. EpochMax
  /\ t.maxLoad = MaxLoadFor(n) /\ t.num <= t.maxLoad

(* Such a table has a free slot, if it has any.                            *)
LEMMA KeptHasRoom ==
  ASSUME NEW n \in Nat, NEW t, Kept(t, n), n # 0
  PROVE  \E j \in 0 .. n - 1 : ~ IsLive(t, j)
<1>1. t \in Tables(n) /\ t.num = Cardinality(LiveSlots(t)) /\ t.num \in Nat
  BY DEF Kept, Sound, Tables
<1>2. MaxLoadFor(n) < n /\ MaxLoadFor(n) \in Nat
  BY Loads DEF Kept
<1>3. Cardinality(LiveSlots(t)) < n
  BY <1>1, <1>2 DEF Kept
<1> QED
  BY <1>1, <1>3, HasRoom

(* `ensure_slots` leaves an array, and binds what it found bound.          *)
LEMMA EnsureKeeps ==
  ASSUME NEW m \in Nat, NEW t, Kept(t, m), NEW u, u = EnsureSlots(t)
  PROVE  /\ \E n \in Nat : n # 0 /\ Kept(u, n) /\ \A k, v : Binds(u, n, k, v) <=> Binds(t, m, k, v)
         /\ m # 0 => u = t
<1>1. t \in Tables(m) /\ Capacity(t) = m
  BY CapacityIs DEF Kept, Sound
<1>2. CASE m # 0
  BY <1>1, <1>2 DEF EnsureSlots
<1>3. CASE m = 0
  <2> DEFINE n == Pow2AtLeast(2 * t.fitHw + 1)
             fresh == Blank(n, 1)
  <2>1. n \in Nat /\ n >= 4 /\ n # 0
    <3>1. Pow2AtLeast(2 * t.fitHw + 1) \in Nat /\ Pow2AtLeast(2 * t.fitHw + 1) >= MinCapacity
      BY SizeAssumption, PowAtLeast
    <3> HIDE DEF n
    <3> QED
      BY <3>1, SizeAssumption DEF n
  <2>2. NewWithCapacity(n) = fresh
    <3> DEFINE empty == [i \in 0 .. n - 1 |-> Vacant]
               lim == MaxLoadFor(n)
    <3>1. NewWithCapacity(n) =
            [num |-> 0, maxLoad |-> lim, epoch |-> 1, fitHw |-> 0, slots |-> empty]
      BY DEF NewWithCapacity
    <3> HIDE DEF empty, lim, n
    <3> QED
      BY <3>1 DEF Blank
  <2>3. u = [t EXCEPT !.maxLoad = fresh.maxLoad, !.slots = fresh.slots]
    BY <1>1, <1>3, <2>2 DEF EnsureSlots
  <2> HIDE DEF n, fresh
  <2>4. /\ Sound(fresh, n) /\ \A k, v : ~ Binds(fresh, n, k, v)
        /\ fresh.maxLoad = MaxLoadFor(n)
        /\ \A i \in 0 .. n - 1 : fresh.slots[i] = Vacant
    BY <2>1, NewTable DEF fresh
  <2>5. MaxLoadFor(n) \in Nat /\ MaxLoadFor(0) = 0
    BY <2>1, Loads
  <2>6. t.num = 0 /\ t.epoch \in 1 .. EpochMax
    <3>1. t.num \in Nat /\ t.num <= MaxLoadFor(0)
      BY <1>1, <1>3 DEF Kept, Tables
    <3> QED
      BY <2>5, <3>1 DEF Kept
  <2>7. fresh.slots \in [0 .. n - 1 -> Slot]
    BY <2>4 DEF Sound, Tables
  <2>8. /\ u.maxLoad = MaxLoadFor(n) /\ u.slots = fresh.slots
        /\ u.num = 0 /\ u.epoch = t.epoch
    BY <1>1, <2>3, <2>4, <2>6 DEF Tables
  <2>9. u \in Tables(n)
    BY <1>1, <2>3, <2>4, <2>5, <2>7 DEF Tables
  <2>10. \A i \in 0 .. n - 1 : u.slots[i] = Vacant
    BY <2>4, <2>8
  <2>11. Sound(u, n) /\ \A k, v : ~ Binds(u, n, k, v)
    BY <2>1, <2>8, <2>9, <2>10, Unused
  <2>12. Kept(u, n)
    BY <2>1, <2>5, <2>6, <2>8, <2>11 DEF Kept
  <2>13. \A k, v : ~ Binds(t, m, k, v)
    BY <1>3 DEF Binds
  <2> QED
    BY <1>3, <2>1, <2>11, <2>12, <2>13
<1> QED
  BY <1>2, <1>3

(* A table with one entry more than `Kept` allows at most, grown if it     *)
(* must be.                                                                *)
LEMMA GrownKeeps ==
  ASSUME NEW n \in Nat, n >= 4, NEW t, Sound(t, n), hash \in [Key -> Nat],
         t.epoch \in 1 .. EpochMax, t.maxLoad = MaxLoadFor(n), t.num <= t.maxLoad + 1,
         NEW u, u = Grown(t)
  PROVE  \E p \in Nat : p # 0 /\ Kept(u, p) /\ \A k, v : Binds(u, p, k, v) <=> Binds(t, n, k, v)
<1>1. t.num \in Nat /\ t.maxLoad \in Nat /\ n # 0
  BY DEF Sound, Tables
<1>2. CASE t.num <= t.maxLoad
  <2>1. u = t
    BY <1>1, <1>2 DEF Grown
  <2> QED
    BY <1>1, <1>2, <2>1 DEF Kept
<1>3. CASE t.num > t.maxLoad
  <2>1. u = Resize(t)
    BY <1>3 DEF Grown
  <2>2. /\ Sound(u, 2 * n)
        /\ u.maxLoad = MaxLoadFor(2 * n)
        /\ u.num = t.num /\ u.epoch = t.epoch
        /\ \A k, v : Binds(u, 2 * n, k, v) <=> Binds(t, n, k, v)
    BY <1>1, <2>1, ResizeKeeps
  <2>3. MaxLoadFor(n) + 1 <= MaxLoadFor(2 * n) /\ MaxLoadFor(2 * n) \in Nat /\ MaxLoadFor(n) \in Nat
    BY Loads
  <2>4. u.num <= u.maxLoad
    BY <1>1, <2>2, <2>3
  <2>5. 2 * n \in Nat /\ 2 * n >= 4 /\ 2 * n # 0
    OBVIOUS
  <2>6. Kept(u, 2 * n)
    BY <2>2, <2>4, <2>5 DEF Kept
  <2> QED
    BY <2>2, <2>5, <2>6
<1> QED
  BY <1>1, <1>2, <1>3

(* `clear`: nothing is bound, and no slot comes back to life.              *)
LEMMA ClearedKeeps ==
  ASSUME NEW n \in Nat, NEW t, Kept(t, n), NEW u, u = Cleared(t)
  PROVE  Kept(u, n) /\ \A k, v : ~ Binds(u, n, k, v)
<1>1. t \in Tables(n) /\ DOMAIN t.slots = 0 .. n - 1 /\ t.epoch \in 1 .. EpochMax
  BY CapacityIs DEF Kept, Sound
<1>2. EpochMax \in Nat /\ EpochMax >= 1
  BY SizeAssumption
<1>3. MaxLoadFor(n) \in Nat
  BY Loads
<1>4. CASE t.epoch >= EpochMax
  <2> DEFINE swept == [i \in 0 .. n - 1 |-> Vacant]
  <2>1. u = [t EXCEPT !.num = 0, !.epoch = 1, !.slots = swept]
    BY <1>1, <1>4 DEF Cleared
  <2>2. swept \in [0 .. n - 1 -> Slot] /\ \A i \in 0 .. n - 1 : swept[i] = Vacant
    BY DEF Slot
  <2> HIDE DEF swept
  <2>3. u \in Tables(n) /\ u.num = 0 /\ u.epoch = 1 /\ u.maxLoad = t.maxLoad /\ u.slots = swept
    <3>1. t \in Tables(n) /\ swept \in [0 .. n - 1 -> Slot]
      BY <1>1, <2>2
    <3>2. u.num = 0 /\ u.epoch = 1 /\ u.maxLoad = t.maxLoad /\ u.slots = swept /\ u.fitHw = t.fitHw
      BY <2>1, <3>1 DEF Tables
    <3>3. u = [num |-> u.num, maxLoad |-> u.maxLoad, epoch |-> u.epoch, fitHw |-> u.fitHw, slots |-> u.slots]
      BY <2>1, <3>1 DEF Tables
    <3>4. t.maxLoad \in Nat /\ t.fitHw \in Nat /\ t.slots \in [0 .. n - 1 -> Slot]
      BY <3>1 DEF Tables
    <3>5. u \in Tables(n)
      BY <3>1, <3>2, <3>3, <3>4 DEF Tables
    <3> QED
      BY <3>2, <3>5
  <2>4. Sound(u, n) /\ \A k, v : ~ Binds(u, n, k, v)
    BY <2>2, <2>3, Unused
  <2> QED
    BY <1>2, <1>3, <2>3, <2>4 DEF Kept
<1>5. CASE t.epoch < EpochMax
  <2>1. u = [t EXCEPT !.num = 0, !.epoch = t.epoch + 1]
    BY <1>1, <1>2, <1>5 DEF Cleared
  <2>2. /\ u \in Tables(n) /\ u.num = 0 /\ u.epoch = t.epoch + 1
        /\ u.maxLoad = t.maxLoad /\ u.slots = t.slots
    <3>1. t \in Tables(n) /\ t.epoch + 1 \in Nat
      BY <1>1
    <3>2. u.num = 0 /\ u.epoch = t.epoch + 1 /\ u.maxLoad = t.maxLoad /\ u.slots = t.slots /\ u.fitHw = t.fitHw
      BY <2>1, <3>1 DEF Tables
    <3>3. u = [num |-> u.num, maxLoad |-> u.maxLoad, epoch |-> u.epoch, fitHw |-> u.fitHw, slots |-> u.slots]
      BY <2>1, <3>1 DEF Tables
    <3>4. t.maxLoad \in Nat /\ t.fitHw \in Nat /\ t.slots \in [0 .. n - 1 -> Slot]
      BY <3>1 DEF Tables
    <3>5. u \in Tables(n)
      BY <3>1, <3>2, <3>3, <3>4 DEF Tables
    <3> QED
      BY <3>2, <3>5
  <2>3. \A i \in 0 .. n - 1 : t.slots[i] # Vacant =>
          Stamp(t.slots[i]) <= t.epoch /\ Stamp(t.slots[i]) \in Nat
    BY <1>1, SlotParts DEF Kept, Sound, Past, Tables
  <2>4. \A i \in 0 .. n - 1 : ~ IsLive(u, i)
    BY <1>1, <2>2, <2>3 DEF IsLive
  <2>5. LiveSlots(u) = {}
    BY <1>1, <2>2, <2>4 DEF LiveSlots
  <2>6. u.num = Cardinality(LiveSlots(u))
    BY <2>2, <2>5, FS_EmptySet
  <2>7. Past(u, n)
    BY <1>1, <2>2, <2>3 DEF Past
  <2>8. Sound(u, n) /\ \A k, v : ~ Binds(u, n, k, v)
    BY <2>2, <2>4, <2>6, <2>7 DEF Sound, Unbroken, Once, Binds
  <2>9. u.epoch \in 1 .. EpochMax
    BY <1>1, <1>2, <1>5, <2>2
  <2> QED
    BY <1>3, <2>2, <2>8, <2>9 DEF Kept
<1> QED
  BY <1>1, <1>2, <1>4, <1>5

-----------------------------------------------------------------------------
(* Three slots met in this order from a: a way to the third that passes    *)
(* the first passes the second, and a way to the first that passes the     *)
(* second passes the third.                                                *)
LEMMA Passes ==
  ASSUME NEW n \in Nat, NEW a \in 0 .. n - 1, NEW h \in 0 .. n - 1,
         NEW x \in 0 .. n - 1, NEW y \in 0 .. n - 1, NEW z \in 0 .. n - 1,
         Dist(n, a, x) < Dist(n, a, y), Dist(n, a, y) < Dist(n, a, z)
  PROVE  /\ Dist(n, h, x) < Dist(n, h, z) => Dist(n, h, y) < Dist(n, h, z)
         /\ Dist(n, h, y) < Dist(n, h, x) => Dist(n, h, z) < Dist(n, h, x)
<1>1. Dist(n, h, x) < Dist(n, h, z) => Dist(n, h, y) < Dist(n, h, z)
  BY DEF Dist
<1>2. Dist(n, h, y) < Dist(n, h, x) => Dist(n, h, z) < Dist(n, h, x)
  BY DEF Dist
<1> QED
  BY <1>1, <1>2

(* The code's comparison tells whether the way from h to j passes the hole. *)
LEMMA WrapsPastIs ==
  ASSUME NEW n \in Nat, NEW h \in 0 .. n - 1, NEW hole \in 0 .. n - 1, NEW j \in 0 .. n - 1, hole # j
  PROVE  WrapsPast(h, hole, j, n) <=> Dist(n, h, hole) < Dist(n, h, j)
<1>1. WrapsPast(h, hole, j, n) <=> Dist(n, h, j) >= Dist(n, hole, j)
  <2>1. (j + n - h) % n = Dist(n, h, j) /\ (j + n - hole) % n = Dist(n, hole, j)
    BY Mods
  <2> QED
    BY <2>1 DEF WrapsPast
<1>2. Dist(n, h, j) >= Dist(n, hole, j) <=> Dist(n, h, hole) < Dist(n, h, j)
  BY DEF Dist
<1> QED
  BY <1>1, <1>2

(* One entry shifted from slot j into a free slot: nothing is lost, doubled *)
(* or bound otherwise.                                                     *)
Shifts(u, t, j, hole) ==
  u.slots = [t.slots EXCEPT ![hole] = t.slots[j], ![j] = Vacant] /\ u.epoch = t.epoch

LEMMA ShiftKeeps ==
  ASSUME NEW n \in Nat, NEW t \in Tables(n), NEW hole \in 0 .. n - 1, NEW j \in 0 .. n - 1,
         ~ IsLive(t, hole), IsLive(t, j), Once(t, n), Past(t, n),
         NEW u, Shifts(u, t, j, hole)
  PROVE  /\ u.slots \in [0 .. n - 1 -> Slot]
         /\ ~ IsLive(u, j) /\ IsLive(u, hole) /\ u.slots[hole] = t.slots[j]
         /\ \A i \in 0 .. n - 1 : i \notin {hole, j} => u.slots[i] = t.slots[i] /\ (IsLive(u, i) <=> IsLive(t, i))
         /\ Once(u, n) /\ Past(u, n)
         /\ \A k, v : Binds(u, n, k, v) <=> Binds(t, n, k, v)
         /\ Cardinality(LiveSlots(u)) = Cardinality(LiveSlots(t))
<1>1. t.slots \in [0 .. n - 1 -> Slot] /\ Vacant \in Slot /\ hole # j
  BY DEF Tables, Slot
<1>2. /\ u.slots \in [0 .. n - 1 -> Slot]
      /\ u.slots[j] = Vacant /\ u.slots[hole] = t.slots[j] /\ u.epoch = t.epoch
      /\ \A i \in 0 .. n - 1 : i \notin {hole, j} => u.slots[i] = t.slots[i]
  BY <1>1 DEF Shifts
<1>3. ~ IsLive(u, j) /\ IsLive(u, hole)
  BY <1>2 DEF IsLive
<1>4. \A i \in 0 .. n - 1 : i \notin {hole, j} => (IsLive(u, i) <=> IsLive(t, i))
  BY <1>2 DEF IsLive
<1>5. Once(u, n)
  <2> SUFFICES ASSUME NEW i \in 0 .. n - 1, NEW m \in 0 .. n - 1, IsLive(u, i), IsLive(u, m),
                      KeyOf(u.slots[i]) = KeyOf(u.slots[m]), i # m
               PROVE  FALSE
    BY DEF Once
  <2>1. CASE i = hole
    BY <1>1, <1>2, <1>3, <1>4, <2>1 DEF Once
  <2>2. CASE m = hole
    BY <1>1, <1>2, <1>3, <1>4, <2>2 DEF Once
  <2>3. CASE i # hole /\ m # hole
    BY <1>2, <1>3, <1>4, <2>3 DEF Once
  <2> QED
    BY <2>1, <2>2, <2>3
<1>6. Past(u, n)
  BY <1>2 DEF Past
<1>7. ASSUME NEW k, NEW v PROVE Binds(u, n, k, v) <=> Binds(t, n, k, v)
  <2>1. ASSUME Binds(u, n, k, v) PROVE Binds(t, n, k, v)
    <3>1. PICK i \in 0 .. n - 1 : IsLive(u, i) /\ KeyOf(u.slots[i]) = k /\ ValOf(u.slots[i]) = v
      BY <2>1 DEF Binds
    <3>2. CASE i = hole
      BY <1>2, <3>1, <3>2 DEF Binds
    <3>3. CASE i # hole
      BY <1>2, <1>3, <1>4, <3>1, <3>3 DEF Binds
    <3> QED
      BY <3>2, <3>3
  <2>2. ASSUME Binds(t, n, k, v) PROVE Binds(u, n, k, v)
    <3>1. PICK i \in 0 .. n - 1 : IsLive(t, i) /\ KeyOf(t.slots[i]) = k /\ ValOf(t.slots[i]) = v
      BY <2>2 DEF Binds
    <3>2. CASE i = j
      BY <1>2, <1>3, <3>1, <3>2 DEF Binds
    <3>3. CASE i # j
      BY <1>2, <1>3, <1>4, <3>1, <3>3 DEF Binds
    <3> QED
      BY <3>2, <3>3
  <2> QED
    BY <2>1, <2>2
<1>8. Cardinality(LiveSlots(u)) = Cardinality(LiveSlots(t))
  <2> DEFINE rest == LiveSlots(t) \ {j}
  <2>1. DOMAIN u.slots = 0 .. n - 1 /\ DOMAIN t.slots = 0 .. n - 1
    BY <1>1, <1>2
  <2>2. /\ LiveSlots(u) = rest \cup {hole} /\ hole \notin rest
        /\ LiveSlots(t) = rest \cup {j} /\ j \notin rest
    BY <1>3, <1>4, <2>1 DEF LiveSlots
  <2>3. IsFiniteSet(rest)
    BY CapacityIs, FS_Subset
  <2> HIDE DEF rest
  <2> QED
    BY SMTT(30), <2>2, <2>3, FS_AddElement
<1> QED
  BY <1>2, <1>3, <1>4, <1>5, <1>6, <1>7, <1>8

-----------------------------------------------------------------------------
(* One step of `repair`, as `Repair` says it, and the walk of n steps.     *)
Visited(w, j, n) ==
  IF w.done \/ ~ IsLive(w.t, j)
    THEN [w EXCEPT !.done = TRUE]
  ELSE IF WrapsPast(Home(KeyOf(w.t.slots[j]), n), w.hole, j, n)
    THEN [w EXCEPT !.t.slots[w.hole] = w.t.slots[j],
                   !.t.slots[j] = Vacant, !.hole = j]
  ELSE w

(* The table during the walk of the hole that began at slot a, after the   *)
(* d-th slot from there: it holds what s held; until the walk is done, the *)
(* hole is the only gap a way to a live slot has, no way to a slot already *)
(* visited passes it, and a free slot f is still to come.                  *)
Like(t, s, n) ==
  /\ t \in Tables(n)
  /\ t.num = s.num /\ t.epoch = s.epoch /\ t.maxLoad = s.maxLoad /\ t.fitHw = s.fitHw
  /\ Once(t, n) /\ Past(t, n)
  /\ \A k, v : Binds(t, n, k, v) <=> Binds(s, n, k, v)
  /\ Cardinality(LiveSlots(t)) = Cardinality(LiveSlots(s))

WayPasses(t, n, i, x) ==
  LET h == Home(KeyOf(t.slots[i]), n) IN Dist(n, h, x) < Dist(n, h, i)

OneGap(t, n, hole) ==
  /\ hole \in 0 .. n - 1 /\ ~ IsLive(t, hole)
  /\ \A i, x \in 0 .. n - 1 : IsLive(t, i) /\ WayPasses(t, n, i, x) => IsLive(t, x) \/ x = hole

Walking(w, s, n, a, f, d) ==
  /\ w = [t |-> w.t, hole |-> w.hole, done |-> w.done] /\ w.done \in BOOLEAN
  /\ Like(w.t, s, n)
  /\ w.done => Unbroken(w.t, n)
  /\ ~ w.done =>
       /\ OneGap(w.t, n, w.hole) /\ Dist(n, a, w.hole) <= d
       /\ ~ IsLive(w.t, f) /\ d < Dist(n, a, f)
       /\ \A i \in 0 .. n - 1 :
            IsLive(w.t, i) /\ Dist(n, a, w.hole) < Dist(n, a, i) /\ Dist(n, a, i) <= d
              => ~ WayPasses(w.t, n, i, w.hole)

(* Every key has its home in the array.                                    *)
LEMMA HomeOf ==
  ASSUME NEW n \in Nat, n # 0, NEW t \in Tables(n), hash \in [Key -> Nat],
         NEW i \in 0 .. n - 1, IsLive(t, i)
  PROVE  KeyOf(t.slots[i]) \in Key /\ Home(KeyOf(t.slots[i]), n) \in 0 .. n - 1
<1>1. t.slots[i] \in Slot /\ t.slots[i] # Vacant
  BY DEF Tables, IsLive
<1>2. KeyOf(t.slots[i]) \in Key
  BY <1>1, SlotParts
<1>3. hash[KeyOf(t.slots[i])] \in Nat
  BY <1>2
<1> QED
  BY <1>2, <1>3, Mods DEF Home

(* The first free slot the walk meets ends it: no way passes the hole.     *)
LEMMA WalkEnds ==
  ASSUME NEW n \in Nat, n # 0, hash \in [Key -> Nat], NEW s, NEW a \in 0 .. n - 1, NEW f \in 0 .. n - 1,
         NEW w, NEW d \in 1 .. n, Walking(w, s, n, a, f, d - 1), ~ w.done,
         NEW j \in 0 .. n - 1, Dist(n, a, j) = d, ~ IsLive(w.t, j)
  PROVE  Unbroken(w.t, n)
<1> DEFINE t == w.t
           hole == w.hole
           p(x) == Dist(n, a, x)
<1>1. t \in Tables(n) /\ OneGap(t, n, hole) /\ hole \in 0 .. n - 1 /\ p(hole) <= d - 1
  BY DEF Walking, Like, OneGap
<1>2. \A i \in 0 .. n - 1 :
        IsLive(t, i) /\ p(hole) < p(i) /\ p(i) <= d - 1 => ~ WayPasses(t, n, i, hole)
  BY DEF Walking
<1> HIDE DEF t, hole
<1>3. ~ IsLive(t, j) /\ j # hole /\ p(hole) < p(j)
  <2>1. p(hole) \in 0 .. n - 1
    BY <1>1, Circle
  <2> QED
    BY <1>1, <2>1 DEF t
<1>4. ASSUME NEW i \in 0 .. n - 1, IsLive(t, i), WayPasses(t, n, i, hole) PROVE FALSE
  <2> DEFINE h == Home(KeyOf(t.slots[i]), n)
  <2>1. h \in 0 .. n - 1
    BY <1>1, <1>4, HomeOf
  <2>2. Dist(n, h, hole) < Dist(n, h, i)
    BY <1>4 DEF WayPasses
  <2>3. i # hole /\ i # j
    BY <1>1, <1>3, <1>4 DEF OneGap
  <2>4. p(i) \in 0 .. n - 1 /\ p(hole) \in 0 .. n - 1 /\ p(i) # p(hole) /\ p(i) # d
    <3>1. p(i) \in 0 .. n - 1 /\ p(hole) \in 0 .. n - 1
      BY <1>1, Circle
    <3>2. \A x \in 0 .. n - 1 : p(i) = p(x) => i = x
      BY Circle
    <3>3. p(j) = d
      OBVIOUS
    <3> HIDE DEF p
    <3> QED
      BY <1>1, <2>3, <3>1, <3>2, <3>3
  <2>5. ~ (Dist(n, h, j) < Dist(n, h, i))
    BY <1>1, <1>3, <1>4 DEF OneGap, WayPasses
  <2>6. CASE p(i) < p(hole)
    <3> HIDE DEF h
    <3> QED
      BY <1>1, <1>3, <2>1, <2>2, <2>5, <2>6, Passes
  <2>7. CASE p(hole) < p(i) /\ p(i) <= d - 1
    BY <1>2, <1>4, <2>7
  <2>8. CASE d < p(i)
    <3>1. p(j) < p(i)
      BY <2>8
    <3> HIDE DEF h
    <3> QED
      BY <1>1, <1>3, <2>1, <2>2, <2>5, <3>1, Passes
  <2> HIDE DEF p, h
  <2> QED
    BY <2>4, <2>6, <2>7, <2>8
<1>5. Unbroken(t, n)
  BY <1>1, <1>4 DEF Unbroken, OneGap, WayPasses
<1> QED
  BY <1>5 DEF t

(* A step of the walk.                                                     *)
LEMMA VisitKeeps ==
  ASSUME NEW n \in Nat, n # 0, hash \in [Key -> Nat], NEW s, NEW a \in 0 .. n - 1, NEW f \in 0 .. n - 1,
         NEW w, NEW d \in 1 .. n, Walking(w, s, n, a, f, d - 1),
         NEW j \in 0 .. n - 1, d < n => Dist(n, a, j) = d
  PROVE  Walking(Visited(w, j, n), s, n, a, f, d)
<1> DEFINE t == w.t
           hole == w.hole
           p(x) == Dist(n, a, x)
           e == Visited(w, j, n)
<1>1. /\ w = [t |-> w.t, hole |-> w.hole, done |-> w.done] /\ w.done \in BOOLEAN
      /\ Like(t, s, n) /\ t \in Tables(n)
  BY DEF Walking, Like
<1>0. \A x \in 0 .. n - 1 : p(x) \in 0 .. n - 1 /\ \A y \in 0 .. n - 1 : p(x) = p(y) => x = y
  <2>1. \A x \in 0 .. n - 1 : p(x) \in 0 .. n - 1
    BY Circle
  <2>2. \A x, y \in 0 .. n - 1 : p(x) = p(y) => x = y
    BY Circle
  <2> HIDE DEF p
  <2> QED
    BY <2>1, <2>2
<1>2. CASE w.done
  <2>1. e = w
    BY <1>1, <1>2 DEF Visited
  <2> QED
    BY <1>2, <2>1 DEF Walking
<1>3. CASE ~ w.done
  <2>1. OneGap(t, n, hole) /\ hole \in 0 .. n - 1 /\ p(hole) <= d - 1
    BY <1>3 DEF Walking, OneGap
  <2>2. ~ IsLive(t, f) /\ d - 1 < p(f) /\ p(f) \in 0 .. n - 1
    BY <1>3, Circle DEF Walking
  <2>3. d < n /\ p(j) = d /\ p(hole) \in 0 .. n - 1
    <3>1. p(hole) \in 0 .. n - 1
      BY <1>0, <2>1
    <3>2. d < n
      BY <2>2
    <3> QED
      BY <3>1, <3>2
  <2>4. hole # j
    BY <2>1, <2>3
  <2>5. CASE ~ IsLive(t, j)
    <3>1. e = [w EXCEPT !.done = TRUE]
      BY <2>5 DEF Visited
    <3>2. e.t = t /\ e.hole = hole /\ e.done = TRUE /\ e = [t |-> e.t, hole |-> e.hole, done |-> e.done]
      BY <1>1, <3>1
    <3>3. Unbroken(t, n)
      BY <1>3, <2>3, <2>5, WalkEnds
    <3> HIDE DEF e, t, hole
    <3> QED
      BY <1>1, <3>2, <3>3 DEF Walking, e
  <2>6. ASSUME IsLive(t, j) PROVE p(f) # d /\ d < p(f)
    <3>1. f # j
      BY <2>2, <2>6
    <3>2. p(f) # p(j)
      BY <3>1, Circle
    <3> QED
      BY <2>2, <2>3, <3>2
  <2> DEFINE h == Home(KeyOf(t.slots[j]), n)
  <2>7. CASE IsLive(t, j) /\ ~ WrapsPast(h, hole, j, n)
    <3>1. e = w
      BY <1>3, <2>7 DEF Visited
    <3>2. h \in 0 .. n - 1
      BY <1>1, <2>7, HomeOf
    <3>3. ~ WayPasses(t, n, j, hole)
      <4> HIDE DEF h, hole
      <4>1. ~ (Dist(n, h, hole) < Dist(n, h, j))
        BY <2>1, <2>4, <2>7, <3>2, WrapsPastIs
      <4> QED
        BY <4>1 DEF WayPasses, h
    <3>4. ASSUME NEW i \in 0 .. n - 1, IsLive(t, i), p(hole) < p(i), p(i) <= d
          PROVE  ~ WayPasses(t, n, i, hole)
      <4>1. CASE i = j
        BY <3>3, <4>1
      <4>2. CASE i # j
        <5>1. p(i) # p(j) /\ p(i) \in 0 .. n - 1
          <6> HIDE DEF p
          <6> QED
            BY <1>0, <4>2
        <5>2. p(i) <= d - 1
          BY <2>3, <3>4, <5>1
        <5> QED
          BY <1>3, <3>4, <5>2 DEF Walking
      <4> QED
        BY <4>1, <4>2
    <3>5. p(hole) <= d
      BY <2>1, <2>3
    <3> HIDE DEF e, t, hole, p
    <3>6. /\ OneGap(t, n, hole) /\ p(hole) <= d /\ ~ IsLive(t, f) /\ d < p(f)
          /\ \A i \in 0 .. n - 1 :
               IsLive(t, i) /\ p(hole) < p(i) /\ p(i) <= d => ~ WayPasses(t, n, i, hole)
      BY <2>1, <2>2, <2>6, <2>7, <3>4, <3>5
    <3> QED
      BY <1>1, <1>3, <3>1, <3>6 DEF Walking, e, t, hole, p
  <2>8. CASE IsLive(t, j) /\ WrapsPast(h, hole, j, n)
    <3> DEFINE u == e.t
    <3>1. e = [w EXCEPT !.t.slots[w.hole] = w.t.slots[j], !.t.slots[j] = Vacant, !.hole = j]
      BY <1>3, <2>8 DEF Visited
    <3>2. /\ e = [t |-> e.t, hole |-> e.hole, done |-> e.done] /\ e.hole = j /\ e.done = w.done
          /\ e.t = [t EXCEPT !.slots = [t.slots EXCEPT ![hole] = t.slots[j], ![j] = Vacant]]
      BY ZenonT(60), <1>1, <3>1 DEF Tables
    <3>3. /\ Shifts(u, t, j, hole)
          /\ u.num = t.num /\ u.epoch = t.epoch /\ u.maxLoad = t.maxLoad /\ u.fitHw = t.fitHw
      BY <1>1, <3>2 DEF Tables, Shifts
    <3>4. h \in 0 .. n - 1 /\ Dist(n, h, hole) < Dist(n, h, j)
      <4>1. h \in 0 .. n - 1
        BY <1>1, <2>8, HomeOf
      <4> HIDE DEF h, hole
      <4> QED
        BY <2>1, <2>4, <2>8, <4>1, WrapsPastIs
    <3>5. /\ u.slots \in [0 .. n - 1 -> Slot]
          /\ ~ IsLive(u, j) /\ IsLive(u, hole) /\ u.slots[hole] = t.slots[j]
          /\ \A i \in 0 .. n - 1 : i \notin {hole, j} =>
               u.slots[i] = t.slots[i] /\ (IsLive(u, i) <=> IsLive(t, i))
          /\ Once(u, n) /\ Past(u, n)
          /\ \A k, v : Binds(u, n, k, v) <=> Binds(t, n, k, v)
          /\ Cardinality(LiveSlots(u)) = Cardinality(LiveSlots(t))
      <4>1. Once(t, n) /\ Past(t, n) /\ ~ IsLive(t, hole)
        BY <1>1, <2>1 DEF Like, OneGap
      <4> HIDE DEF u, hole, t
      <4> QED
        BY <1>1, <2>1, <2>8, <3>3, <4>1, ShiftKeeps
    <3>6. u \in Tables(n)
      <4> HIDE DEF t, hole
      <4>1. u = [t EXCEPT !.slots = u.slots]
        BY <1>1, <3>2 DEF Tables
      <4> HIDE DEF u
      <4> QED
        BY <1>1, <3>5, <4>1 DEF Tables
    <3>7. Like(u, s, n)
      <4> HIDE DEF u, t
      <4> QED
        BY <1>1, <3>3, <3>5, <3>6 DEF Like
    <3>8. ASSUME NEW i \in 0 .. n - 1, NEW x \in 0 .. n - 1, IsLive(u, i), WayPasses(u, n, i, x)
          PROVE  IsLive(u, x) \/ x = j
      <4> HIDE DEF u, t, hole, e, h
      <4>1. CASE x = hole
        BY <3>5, <4>1
      <4>2. CASE x # hole /\ i = hole
        <5>1. Dist(n, h, x) < Dist(n, h, hole)
          BY <3>5, <3>8, <4>2 DEF WayPasses, h
        <5>2. Dist(n, h, x) < Dist(n, h, j)
          <6>1. Dist(n, h, x) \in Int /\ Dist(n, h, hole) \in Int /\ Dist(n, h, j) \in Int
            BY <2>1, <3>4, Circle
          <6> QED
            BY <3>4, <5>1, <6>1
        <5>3. IsLive(t, x)
          BY <2>1, <2>8, <4>2, <5>2 DEF OneGap, WayPasses, h
        <5> QED
          BY <3>5, <4>2, <5>3
      <4>3. CASE x # hole /\ i # hole
        <5>1. i # j /\ IsLive(t, i) /\ u.slots[i] = t.slots[i]
          BY <3>5, <3>8, <4>3
        <5>2. WayPasses(t, n, i, x)
          BY <3>8, <5>1 DEF WayPasses
        <5>3. IsLive(t, x)
          BY <2>1, <4>3, <5>1, <5>2 DEF OneGap
        <5> QED
          BY <3>5, <4>3, <5>3
      <4> QED
        BY <4>1, <4>2, <4>3
    <3>9. OneGap(u, n, j)
      BY <3>5, <3>8 DEF OneGap
    <3>10. ~ IsLive(u, f)
      <4>1. f # j /\ f # hole
        BY <2>1, <2>2, <2>8
      <4> QED
        BY <2>2, <3>5, <4>1
    <3>11. p(j) <= d /\ d < p(f) /\ \A i \in 0 .. n - 1 : ~ (p(j) < p(i) /\ p(i) <= d)
      <4>1. p(j) = d /\ d \in Nat /\ \A i \in 0 .. n - 1 : p(i) \in Nat
        BY <1>0, <2>3
      <4> HIDE DEF p
      <4> QED
        BY <2>6, <2>8, <4>1
    <3> HIDE DEF u, e
    <3> QED
      BY <1>1, <1>3, <3>2, <3>7, <3>9, <3>10, <3>11 DEF Walking, u, e
  <2> QED
    BY <2>5, <2>7, <2>8
<1> QED
  BY <1>1, <1>2, <1>3

(* The walk of `repair` is well defined.                                   *)
LEMMA WalkUnfolds ==
  ASSUME NEW n \in Nat, NEW t \in Tables(n), NEW a
  PROVE  \E walk : /\ walk[0] = [t |-> t, hole |-> a, done |-> FALSE]
                   /\ \A d \in 1 .. n : walk[d] = Visited(walk[d - 1], (a + d) % n, n)
                   /\ Repair(t, a) = walk[n].t
<1> DEFINE begin == [t |-> t, hole |-> a, done |-> FALSE]
           Visit(w, j) == Visited(w, j, n)
           Sat(g, m) == g = [d \in 0 .. m |-> IF d = 0 THEN begin ELSE Visit(g[d - 1], (a + d) % n)]
           T == {m \in Nat : \E g : Sat(g, m)}
<1>1. Repair(t, a) = (CHOOSE g : Sat(g, n))[n].t
  <2>1. Capacity(t) = n
    BY CapacityIs
  <2> QED
    BY <2>1 DEF Repair, Visited
<1> HIDE DEF begin, Visit
<1>2. 0 \in T
  <2> DEFINE g == [d \in 0 .. 0 |-> begin]
  <2>1. Sat(g, 0)
    OBVIOUS
  <2> HIDE DEF g, Sat
  <2> QED
    BY <2>1
<1>3. ASSUME NEW m \in 1 .. n, m - 1 \in T PROVE m \in T
  <2>1. PICK g : Sat(g, m - 1)
    BY <1>3
  <2> DEFINE e == [d \in 0 .. m |-> IF d = m THEN Visit(g[m - 1], (a + m) % n) ELSE g[d]]
  <2>2. Sat(e, m)
    <3>1. \A d \in 0 .. m : e[d] = IF d = 0 THEN begin ELSE Visit(e[d - 1], (a + d) % n)
      BY <2>1
    <3> QED
      BY <3>1
  <2>3. m \in Nat
    OBVIOUS
  <2> HIDE DEF e, Sat
  <2> QED
    BY <2>2, <2>3
<1>4. PICK g : Sat(g, n)
  <2> HIDE DEF T
  <2>1. n \in T
    BY <1>2, <1>3, UpTo
  <2> QED
    BY <2>1 DEF T
<1> DEFINE walk == CHOOSE c : Sat(c, n)
<1>5. Sat(walk, n)
  <2> HIDE DEF Sat
  <2> QED
    BY <1>4
<1>6. Repair(t, a) = walk[n].t
  BY <1>1
<1> HIDE DEF walk
<1>7. /\ walk[0] = begin
      /\ \A d \in 1 .. n : walk[d] = Visit(walk[d - 1], (a + d) % n)
  BY <1>5
<1> QED
  BY <1>6, <1>7 DEF begin, Visit

(* `repair` closes the gap a removal left: from one gap to none.           *)
LEMMA RepairKeeps ==
  ASSUME NEW n \in Nat, n # 0, hash \in [Key -> Nat],
         NEW s \in Tables(n), NEW a, OneGap(s, n, a), Once(s, n), Past(s, n),
         \E f \in 0 .. n - 1 : f # a /\ ~ IsLive(s, f),
         NEW u, u = Repair(s, a)
  PROVE  Unbroken(u, n) /\ Like(u, s, n)
<1>1. PICK f \in 0 .. n - 1 : f # a /\ ~ IsLive(s, f)
  OBVIOUS
<1>2. a \in 0 .. n - 1 /\ ~ IsLive(s, a)
  BY DEF OneGap
<1>3. PICK walk : /\ walk[0] = [t |-> s, hole |-> a, done |-> FALSE]
                  /\ \A d \in 1 .. n : walk[d] = Visited(walk[d - 1], (a + d) % n, n)
                  /\ Repair(s, a) = walk[n].t
  BY WalkUnfolds
<1>4. Walking(walk[0], s, n, a, f, 0)
  <2>1. Dist(n, a, a) = 0 /\ 0 < Dist(n, a, f)
    BY <1>1, <1>2 DEF Dist
  <2>2. Like(s, s, n)
    BY DEF Like
  <2>3. \A i \in 0 .. n - 1 : ~ (Dist(n, a, a) < Dist(n, a, i) /\ Dist(n, a, i) <= 0)
    BY <1>2, <2>1, Circle
  <2> QED
    BY <1>1, <1>3, <2>1, <2>2, <2>3 DEF Walking
<1>5. ASSUME NEW d \in 1 .. n, Walking(walk[d - 1], s, n, a, f, d - 1)
      PROVE  Walking(walk[d], s, n, a, f, d)
  <2> DEFINE j == (a + d) % n
             w == walk[d - 1]
  <2>1. j = Around(n, a, d) /\ j \in 0 .. n - 1
    <3>1. d \in 0 .. n /\ a + d \in Nat
      BY <1>2
    <3> QED
      BY <1>2, <3>1, Mods
  <2>2. d < n => Dist(n, a, j) = d
    BY <1>2, <2>1, Circle
  <2>3. walk[d] = Visited(w, j, n)
    BY <1>3
  <2>4. Walking(w, s, n, a, f, d - 1)
    BY <1>5
  <2> HIDE DEF w, j
  <2> QED
    BY <1>1, <1>2, <2>1, <2>2, <2>3, <2>4, VisitKeeps
<1>6. Walking(walk[n], s, n, a, f, n)
  <2> DEFINE T == {d \in 0 .. n : Walking(walk[d], s, n, a, f, d)}
  <2>1. 0 \in T
    BY <1>4
  <2>2. \A d \in 1 .. n : d - 1 \in T => d \in T
    BY <1>5
  <2>3. n \in T
    <3> HIDE DEF T
    <3> QED
      BY <2>1, <2>2, UpTo
  <2> QED
    BY <2>3
<1>7. walk[n].done
  <2>1. Dist(n, a, f) \in 0 .. n - 1
    BY <1>1, <1>2, Circle
  <2> QED
    BY <1>6, <2>1 DEF Walking
<1> QED
  BY <1>3, <1>6, <1>7 DEF Walking

(* `remove`: the key is bound no more, and everything else as it was.      *)
Vacated(t, i) == [t EXCEPT !.slots[i] = Vacant, !.num = @ - 1]

LEMMA VacatedIs ==
  ASSUME NEW n \in Nat, n # 0, NEW t, Sound(t, n), NEW i \in 0 .. n - 1, IsLive(t, i),
         NEW s, s = Vacated(t, i)
  PROVE  /\ s \in Tables(n) /\ OneGap(s, n, i) /\ Once(s, n) /\ Past(s, n)
         /\ s.num = t.num - 1 /\ s.num = Cardinality(LiveSlots(s))
         /\ s.epoch = t.epoch /\ s.maxLoad = t.maxLoad
         /\ \A l, w : Binds(s, n, l, w) <=> l # KeyOf(t.slots[i]) /\ Binds(t, n, l, w)
<1>1. /\ t \in Tables(n) /\ t.slots \in [0 .. n - 1 -> Slot] /\ t.num \in Nat
      /\ t.num = Cardinality(LiveSlots(t)) /\ Once(t, n) /\ Past(t, n) /\ Unbroken(t, n)
  BY DEF Sound, Tables
<1>2. s = [t EXCEPT !.slots = [t.slots EXCEPT ![i] = Vacant], !.num = t.num - 1]
  BY <1>1 DEF Vacated, Tables
<1>3. /\ s.slots = [t.slots EXCEPT ![i] = Vacant] /\ s.num = t.num - 1
      /\ s.epoch = t.epoch /\ s.maxLoad = t.maxLoad /\ s.fitHw = t.fitHw
      /\ s = [num |-> s.num, maxLoad |-> s.maxLoad, epoch |-> s.epoch, fitHw |-> s.fitHw, slots |-> s.slots]
  BY <1>1, <1>2 DEF Tables
<1> DEFINE new == s.slots
<1>4. /\ new \in [0 .. n - 1 -> Slot] /\ new[i] = Vacant
      /\ \A j \in 0 .. n - 1 : j # i => new[j] = t.slots[j]
  <2>1. Vacant \in Slot /\ new = [t.slots EXCEPT ![i] = Vacant]
    BY <1>3 DEF Slot
  <2> HIDE DEF new
  <2> QED
    BY <1>1, <2>1
<1>5. ~ IsLive(s, i) /\ \A j \in 0 .. n - 1 : j # i => (IsLive(s, j) <=> IsLive(t, j))
  BY <1>3, <1>4 DEF IsLive
<1>6. /\ LiveSlots(t) = LiveSlots(s) \cup {i} /\ i \notin LiveSlots(s)
      /\ LiveSlots(s) = LiveSlots(t) \ {i}
  <2>1. DOMAIN new = 0 .. n - 1 /\ DOMAIN t.slots = 0 .. n - 1
    BY <1>1, <1>4
  <2> QED
    BY <1>5, <2>1 DEF LiveSlots
<1>7. Cardinality(LiveSlots(t)) = Cardinality(LiveSlots(s)) + 1 /\ Cardinality(LiveSlots(s)) \in Nat
  <2>1. IsFiniteSet(LiveSlots(t))
    BY <1>1, CapacityIs
  <2>2. IsFiniteSet(LiveSlots(s))
    BY <1>6, <2>1, FS_Subset
  <2>3. Cardinality(LiveSlots(s) \cup {i}) = Cardinality(LiveSlots(s)) + 1
    BY <1>6, <2>2, FS_AddElement
  <2> QED
    BY <1>6, <2>2, <2>3, FS_CardinalityType
<1>8. s.num = Cardinality(LiveSlots(s)) /\ s.num \in Nat
  BY <1>1, <1>3, <1>7
<1>9. s \in Tables(n)
  <2>1. t.maxLoad \in Nat /\ t.epoch \in Nat /\ t.fitHw \in Nat
    BY <1>1 DEF Tables
  <2> QED
    BY <1>3, <1>4, <1>8, <2>1 DEF Tables
<1> HIDE DEF new
<1>10. OneGap(s, n, i)
  <2> SUFFICES ASSUME NEW m \in 0 .. n - 1, NEW x \in 0 .. n - 1, IsLive(s, m), WayPasses(s, n, m, x), x # i
               PROVE  IsLive(s, x)
    BY <1>5 DEF OneGap
  <2>1. m # i /\ IsLive(t, m) /\ s.slots[m] = t.slots[m]
    BY <1>4, <1>5 DEF new
  <2>2. IsLive(t, x)
    BY <1>1, <2>1 DEF Unbroken, WayPasses
  <2> QED
    BY <1>5, <2>2
<1>11. Once(s, n)
  BY <1>1, <1>4, <1>5 DEF Once, new
<1>12. Past(s, n)
  BY <1>1, <1>3, <1>4 DEF Past, new
<1>13. ASSUME NEW l, NEW w
       PROVE  Binds(s, n, l, w) <=> l # KeyOf(t.slots[i]) /\ Binds(t, n, l, w)
  <2>1. \A j \in 0 .. n - 1 : IsLive(s, j) <=> IsLive(t, j) /\ KeyOf(t.slots[j]) # KeyOf(t.slots[i])
    BY <1>1, <1>5 DEF Once
  <2>2. \A j \in 0 .. n - 1 : IsLive(s, j) => s.slots[j] = t.slots[j]
    BY <1>4, <1>5 DEF new
  <2> QED
    BY <2>1, <2>2 DEF Binds
<1> QED
  BY <1>3, <1>8, <1>9, <1>10, <1>11, <1>12, <1>13

LEMMA RemoveKeeps ==
  ASSUME NEW n \in Nat, n # 0, NEW t, Kept(t, n), hash \in [Key -> Nat], NEW k \in Key,
         Probe(t, k).found, NEW u, u = Repair(Vacated(t, Probe(t, k).at), Probe(t, k).at)
  PROVE  Kept(u, n) /\ \A l, w : Binds(u, n, l, w) <=> l # k /\ Binds(t, n, l, w)
<1> DEFINE i == Probe(t, k).at
           s == Vacated(t, i)
<1>1. Sound(t, n) /\ t \in Tables(n) /\ \E j \in 0 .. n - 1 : ~ IsLive(t, j)
  BY KeptHasRoom DEF Kept, Sound
<1>2. IsLive(t, i) /\ KeyOf(t.slots[i]) = k /\ i \in 0 .. n - 1
  BY <1>1, ProbeOf, ProbeEnds DEF Ends
<1> HIDE DEF i
<1>3. /\ s \in Tables(n) /\ OneGap(s, n, i) /\ Once(s, n) /\ Past(s, n)
      /\ s.num = t.num - 1 /\ s.num = Cardinality(LiveSlots(s))
      /\ s.epoch = t.epoch /\ s.maxLoad = t.maxLoad
      /\ \A l, w : Binds(s, n, l, w) <=> l # KeyOf(t.slots[i]) /\ Binds(t, n, l, w)
  BY <1>1, <1>2, VacatedIs
<1>4. \E f \in 0 .. n - 1 : f # i /\ ~ IsLive(s, f)
  <2>1. PICK f \in 0 .. n - 1 : ~ IsLive(t, f)
    BY <1>1
  <2>2. s.slots = [t.slots EXCEPT ![i] = Vacant]
    BY <1>1 DEF Vacated, Tables
  <2>3. f # i /\ s.slots[f] = t.slots[f]
    BY <1>1, <1>2, <2>1, <2>2 DEF Tables
  <2> HIDE DEF s
  <2> QED
    BY <1>3, <2>1, <2>3 DEF IsLive
<1> HIDE DEF s
<1>5. Unbroken(u, n) /\ Like(u, s, n)
  BY <1>3, <1>4, RepairKeeps DEF s, i
<1>6. Sound(u, n)
  BY <1>3, <1>5 DEF Sound, Like
<1>7. u.num <= u.maxLoad
  <2>1. t.num \in Nat /\ t.maxLoad \in Nat /\ t.num <= t.maxLoad
    BY <1>1 DEF Tables, Kept
  <2>2. u.num = t.num - 1 /\ u.maxLoad = t.maxLoad
    BY <1>3, <1>5 DEF Like
  <2> QED
    BY <2>1, <2>2
<1>8. Kept(u, n)
  BY <1>3, <1>5, <1>6, <1>7 DEF Kept, Like
<1>9. \A l, w : Binds(u, n, l, w) <=> l # k /\ Binds(t, n, l, w)
  BY <1>2, <1>3, <1>5 DEF Like
<1> QED
  BY <1>8, <1>9

-----------------------------------------------------------------------------
(* The operations on a kept table, and what is bound after each.           *)

(* `insert`: the key is bound to the value.                                *)
LEMMA InsertStep ==
  ASSUME NEW n \in Nat, NEW t, Kept(t, n), hash \in [Key -> Nat], NEW k \in Key, NEW v \in Val,
         NEW u, u = Grown(InsertNoResize(EnsureSlots(t), k, v))
  PROVE  \E p \in Nat : /\ Kept(u, p)
                        /\ \A l, w : Binds(u, p, l, w) <=> IF l = k THEN w = v ELSE Binds(t, n, l, w)
<1> DEFINE e == EnsureSlots(t)
           i == InsertNoResize(e, k, v)
<1>1. PICK m \in Nat : m # 0 /\ Kept(e, m) /\ \A l, w : Binds(e, m, l, w) <=> Binds(t, n, l, w)
  BY EnsureKeeps
<1> HIDE DEF e
<1>2. \E j \in 0 .. m - 1 : ~ IsLive(e, j)
  BY <1>1, KeptHasRoom
<1>3. /\ Sound(i, m)
      /\ i.epoch = e.epoch /\ i.maxLoad = e.maxLoad
      /\ i.num = IF Probe(e, k).found THEN e.num ELSE e.num + 1
      /\ \A l, w : Binds(i, m, l, w) <=> IF l = k THEN w = v ELSE Binds(e, m, l, w)
  BY <1>1, <1>2, InsertKeeps DEF Kept
<1> HIDE DEF i
<1>4. /\ m >= 4 /\ i.epoch \in 1 .. EpochMax /\ i.maxLoad = MaxLoadFor(m)
      /\ i.num <= i.maxLoad + 1
  <2>1. e.num \in Nat /\ e.maxLoad \in Nat /\ e.num <= e.maxLoad
    BY <1>1 DEF Kept, Sound, Tables
  <2>2. i.num <= e.maxLoad + 1
    BY <1>3, <2>1
  <2> QED
    BY <1>1, <1>3, <2>2 DEF Kept
<1>5. u = Grown(i)
  BY DEF i, e
<1>6. PICK p \in Nat : p # 0 /\ Kept(u, p) /\ \A l, w : Binds(u, p, l, w) <=> Binds(i, m, l, w)
  BY <1>1, <1>3, <1>4, <1>5, GrownKeeps
<1> QED
  BY <1>1, <1>3, <1>6

(* `find_slot`, then `insert_at` where it found nothing.                   *)
FoundOrPut(e, k, v) ==
  IF Probe(e, k).found THEN e ELSE Grown(WriteAt(e, Probe(e, k).at, k, v))

LEMMA FindStep ==
  ASSUME NEW n \in Nat, NEW t, Kept(t, n), hash \in [Key -> Nat], NEW k \in Key, NEW v \in Val,
         NEW u, u = FoundOrPut(EnsureSlots(t), k, v)
  PROVE  \E p \in Nat :
           /\ Kept(u, p)
           /\ \A l, w : Binds(u, p, l, w) <=>
                          IF l = k /\ (\A x : ~ Binds(t, n, k, x)) THEN w = v ELSE Binds(t, n, l, w)
<1> DEFINE e == EnsureSlots(t)
<1>0. u = IF Probe(e, k).found THEN e ELSE Grown(WriteAt(e, Probe(e, k).at, k, v))
  BY DEF FoundOrPut
<1>1. PICK m \in Nat : m # 0 /\ Kept(e, m) /\ \A l, w : Binds(e, m, l, w) <=> Binds(t, n, l, w)
  BY EnsureKeeps
<1> HIDE DEF e
<1>2. Sound(e, m) /\ \E j \in 0 .. m - 1 : ~ IsLive(e, j)
  BY <1>1, KeptHasRoom DEF Kept
<1>3. CASE Probe(e, k).found
  <2> DEFINE a == Probe(e, k).at
  <2>1. IsLive(e, a) /\ KeyOf(e.slots[a]) = k /\ a \in 0 .. m - 1
    BY <1>1, <1>2, <1>3, ProbeOf, ProbeEnds DEF Sound, Ends
  <2>2. Binds(e, m, k, ValOf(e.slots[a]))
    BY <2>1 DEF Binds
  <2>3. \E x : Binds(t, n, k, x)
    BY <1>1, <2>2
  <2> QED
    BY <1>0, <1>1, <1>3, <2>3
<1>4. CASE ~ Probe(e, k).found
  <2> DEFINE i == Put(e, k, v)
  <2>2. u = Grown(i)
    BY <1>0, <1>4 DEF Put
  <2>1. /\ Sound(i, m)
        /\ i.epoch = e.epoch /\ i.maxLoad = e.maxLoad /\ i.num = e.num + 1
        /\ \A l, w : Binds(i, m, l, w) <=> IF l = k THEN w = v ELSE Binds(e, m, l, w)
    BY <1>1, <1>2, <1>4, WriteKeeps
  <2> HIDE DEF i
  <2>3. /\ m >= 4 /\ i.epoch \in 1 .. EpochMax /\ i.maxLoad = MaxLoadFor(m)
        /\ i.num <= i.maxLoad + 1
    <3>1. e.num \in Nat /\ e.maxLoad \in Nat /\ e.num <= e.maxLoad
      BY <1>1 DEF Kept, Sound, Tables
    <3>2. i.num <= e.maxLoad + 1
      BY <2>1, <3>1
    <3> QED
      BY <1>1, <2>1, <3>2 DEF Kept
  <2>4. PICK p \in Nat : p # 0 /\ Kept(u, p) /\ \A l, w : Binds(u, p, l, w) <=> Binds(i, m, l, w)
    BY <1>1, <2>1, <2>2, <2>3, GrownKeeps
  <2>5. ASSUME NEW x PROVE ~ Binds(t, n, k, x)
    <3>1. \A j \in 0 .. m - 1 : ~ (IsLive(e, j) /\ KeyOf(e.slots[j]) = k)
      BY <1>1, <1>2, <1>4, ProbeOf
    <3>2. ~ Binds(e, m, k, x)
      BY <3>1 DEF Binds
    <3> QED
      BY <1>1, <3>2
  <2> QED
    BY <1>1, <2>1, <2>4, <2>5
<1> QED
  BY <1>3, <1>4

(* `remove`.                                                               *)
LEMMA RemoveStep ==
  ASSUME NEW n \in Nat, NEW t, Kept(t, n), hash \in [Key -> Nat], NEW k \in Key,
         NEW u, u = IF Lookup(t, k) = None THEN t
                    ELSE Repair(Vacated(t, Probe(t, k).at), Probe(t, k).at)
  PROVE  /\ Kept(u, n)
         /\ \A l \in Key, w \in Val : Binds(u, n, l, w) <=> l # k /\ Binds(t, n, l, w)
<1>1. Sound(t, n) /\ t \in Tables(n) /\ (n # 0 => \E j \in 0 .. n - 1 : ~ IsLive(t, j))
  BY KeptHasRoom DEF Kept, Sound
<1>2. CASE Lookup(t, k) = None
  <2>1. \A w \in Val : ~ Binds(t, n, k, w)
    BY <1>1, <1>2, SizeAssumption, LookupIs
  <2>2. u = t
    BY <1>2
  <2> QED
    BY <2>1, <2>2
<1>3. CASE Lookup(t, k) # None
  <2>1. n # 0 /\ Probe(t, k).found
    <3>1. Capacity(t) = n
      BY <1>1, CapacityIs
    <3> QED
      BY <1>3, <3>1 DEF Lookup
  <2>2. u = Repair(Vacated(t, Probe(t, k).at), Probe(t, k).at)
    BY <1>3
  <2> QED
    BY <2>1, <2>2, RemoveKeeps
<1> QED
  BY <1>2, <1>3

(* A quotient is no more than what it is taken of.                         *)
LEMMA Quotient == \A x \in Nat, d \in Nat \ {0} : x \div d \in 0 .. x
OBVIOUS

(* `clear_fit`: the array kept and cleared, or given back.                 *)
LEMMA ClearFitStep ==
  ASSUME NEW n \in Nat, NEW t, Kept(t, n), NEW hw \in Nat,
         NEW u, \/ u = Cleared([t EXCEPT !.fitHw = hw])
                \/ u = [t EXCEPT !.fitHw = hw, !.num = 0, !.maxLoad = 0, !.epoch = 1, !.slots = NoSlots]
  PROVE  \E p \in Nat : Kept(u, p) /\ \A l, w : ~ Binds(u, p, l, w)
<1> DEFINE f == [t EXCEPT !.fitHw = hw]
<1>1. Sound(t, n) /\ t \in Tables(n)
  BY DEF Kept, Sound
<1>2. CASE u = Cleared(f)
  <2>1. /\ f \in Tables(n) /\ f.slots = t.slots /\ f.epoch = t.epoch /\ f.num = t.num
        /\ f.maxLoad = t.maxLoad
    BY <1>1 DEF Tables
  <2> HIDE DEF f
  <2>2. Sound(f, n)
    BY <1>1, <2>1, SameSlots
  <2>3. Kept(f, n)
    BY <2>1, <2>2 DEF Kept
  <2> QED
    BY <1>2, <2>3, ClearedKeeps
<1>3. CASE u = [t EXCEPT !.fitHw = hw, !.num = 0, !.maxLoad = 0, !.epoch = 1, !.slots = NoSlots]
  <2>1. NoSlots \in [0 .. 0 - 1 -> Slot]
    BY DEF NoSlots
  <2>2. /\ u = [num |-> 0, maxLoad |-> 0, epoch |-> 1, fitHw |-> hw, slots |-> NoSlots]
        /\ u.num = 0 /\ u.maxLoad = 0 /\ u.epoch = 1
    BY <1>1, <1>3 DEF Tables
  <2>3. u \in Tables(0)
    BY <2>1, <2>2 DEF Tables
  <2>4. Sound(u, 0) /\ \A l, w : ~ Binds(u, 0, l, w)
    BY <2>2, <2>3, Unused
  <2>5. MaxLoadFor(0) = 0 /\ 1 \in 1 .. EpochMax
    BY Loads, SizeAssumption
  <2>6. Kept(u, 0)
    BY <2>2, <2>4, <2>5 DEF Kept
  <2> QED
    BY <2>4, <2>6
<1> QED
  BY <1>2, <1>3

-----------------------------------------------------------------------------
(* The hashes stay what they were, and the table is kept by every          *)
(* operation.                                                              *)
Inv ==
  /\ hash \in [Key -> Nat]
  /\ \E n \in Nat : Kept(table, n)

(* The abstract map beside it: it binds exactly what the table binds.      *)
Same(n) ==
  /\ bound \in [Key -> Val \cup {None}]
  /\ \A l \in Key, w \in Val : Binds(table, n, l, w) <=> bound[l] = w

BothInv ==
  /\ hash \in [Key -> Nat]
  /\ \E n \in Nat : Kept(table, n) /\ Same(n)

-----------------------------------------------------------------------------
(* `new` and `with_capacity` make kept tables that bind nothing.           *)
LEMMA InitKept ==
  ASSUME Init
  PROVE  hash \in [Key -> Nat] /\ \E n \in Nat : Kept(table, n) /\ \A l, w : ~ Binds(table, n, l, w)
<1>1. hash \in [Key -> Nat]
  BY SizeAssumption DEF Init
<1>2. 1 \in 1 .. EpochMax /\ MinCapacity \in Nat /\ MinCapacity >= 4
  BY SizeAssumption
<1>3. CASE table = New
  <2>1. NoSlots \in [0 .. 0 - 1 -> Slot]
    BY DEF NoSlots
  <2>2. table \in Tables(0) /\ table.num = 0 /\ table.maxLoad = 0 /\ table.epoch = 1
    BY <1>3, <2>1 DEF New, Tables
  <2>3. Sound(table, 0) /\ \A l, w : ~ Binds(table, 0, l, w)
    BY <2>2, Unused
  <2>4. Kept(table, 0)
    BY <1>2, <2>2, <2>3, Loads DEF Kept
  <2> QED
    BY <1>1, <2>3, <2>4
<1>4. CASE table = NewWithCapacity(MinCapacity)
  <2> DEFINE n == MinCapacity
  <2>1. table = Blank(n, 1)
    <3> DEFINE empty == [i \in 0 .. n - 1 |-> Vacant]
               lim == MaxLoadFor(n)
    <3>1. table = [num |-> 0, maxLoad |-> lim, epoch |-> 1, fitHw |-> 0, slots |-> empty]
      BY <1>4 DEF NewWithCapacity
    <3>2. NewWithCapacity(n) = [num |-> 0, maxLoad |-> lim, epoch |-> 1, fitHw |-> 0, slots |-> empty]
      BY DEF NewWithCapacity
    <3> HIDE DEF empty, lim
    <3> QED
      BY <3>1, <3>2 DEF Blank
  <2>2. /\ Sound(table, n) /\ \A l, w : ~ Binds(table, n, l, w)
        /\ table.num = 0 /\ table.maxLoad = MaxLoadFor(n) /\ table.epoch = 1
    BY <1>2, <2>1, NewTable
  <2>3. Kept(table, n)
    BY <1>2, <2>2, Loads DEF Kept
  <2> QED
    BY <1>1, <1>2, <2>2, <2>3
<1> QED
  BY <1>1, <1>3, <1>4 DEF Init

(* What each action leaves, said of the next table under the hashes there  *)
(* were.                                                                   *)
LEMMA InsertLeaves ==
  ASSUME NEW n \in Nat, Kept(table, n), hash \in [Key -> Nat], NEW k \in Key, NEW v \in Val, Insert(k, v)
  PROVE  \E p \in Nat :
           /\ Kept(table', p)
           /\ \A l, w : Binds(table', p, l, w) <=> IF l = k THEN w = v ELSE Binds(table, n, l, w)
<1>1. table' = Grown(InsertNoResize(EnsureSlots(table), k, v))
  BY DEF Insert
<1> QED
  BY <1>1, InsertStep

LEMMA FindLeaves ==
  ASSUME NEW n \in Nat, Kept(table, n), hash \in [Key -> Nat], NEW k \in Key, NEW v \in Val,
         FindOrInsert(k, v)
  PROVE  \E p \in Nat :
           /\ Kept(table', p)
           /\ \A l, w : Binds(table', p, l, w) <=>
                          IF l = k /\ (\A x : ~ Binds(table, n, k, x)) THEN w = v ELSE Binds(table, n, l, w)
<1>1. table' = FoundOrPut(EnsureSlots(table), k, v)
  BY DEF FindOrInsert, FoundOrPut
<1> QED
  BY <1>1, FindStep

LEMMA RemoveLeaves ==
  ASSUME NEW n \in Nat, Kept(table, n), hash \in [Key -> Nat], NEW k \in Key, Remove(k)
  PROVE  /\ Kept(table', n)
         /\ \A l \in Key, w \in Val : Binds(table', n, l, w) <=> l # k /\ Binds(table, n, l, w)
<1>1. table' = IF Lookup(table, k) = None THEN table
               ELSE Repair(Vacated(table, Probe(table, k).at), Probe(table, k).at)
  BY DEF Remove, Vacated
<1> QED
  BY <1>1, RemoveStep

LEMMA ClearLeaves ==
  ASSUME NEW n \in Nat, Kept(table, n), Clear \/ ClearFit
  PROVE  \E p \in Nat : Kept(table', p) /\ \A l, w : ~ Binds(table', p, l, w)
<1>1. CASE Clear
  <2>1. table' = Cleared(table)
    BY <1>1 DEF Clear
  <2> QED
    BY <2>1, ClearedKeeps
<1>2. CASE ClearFit
  <2> DEFINE decayed == table.fitHw - table.fitHw \div FitDecay
             hw == Max({table.num, decayed})
  <2>1. table.num \in Nat /\ table.fitHw \in Nat
    BY DEF Kept, Sound, Tables
  <2>2. decayed \in Nat
    <3>1. table.fitHw \div FitDecay \in 0 .. table.fitHw
      BY <2>1, SizeAssumption, Quotient
    <3> QED
      BY <2>1, <3>1
  <2>3. hw \in Nat
    <3> HIDE DEF decayed
    <3>1. \E x \in {table.num, decayed} : \A y \in {table.num, decayed} : x >= y
      BY <2>1, <2>2
    <3> QED
      BY <2>1, <2>2, <3>1 DEF Max
  <2>4. \/ table' = Cleared([table EXCEPT !.fitHw = hw])
        \/ table' = [table EXCEPT !.fitHw = hw, !.num = 0, !.maxLoad = 0, !.epoch = 1, !.slots = NoSlots]
    <3> HIDE DEF hw
    <3>1. LET t == [table EXCEPT !.fitHw = hw]
          IN  \/ table' = Cleared(t)
              \/ table' = [t EXCEPT !.num = 0, !.maxLoad = 0, !.epoch = 1, !.slots = NoSlots]
      BY <1>2 DEF ClearFit, hw
    <3> QED
      BY <3>1
  <2> HIDE DEF hw
  <2> QED
    BY <2>3, <2>4, ClearFitStep
<1> QED
  BY <1>1, <1>2

(* The hashes do not change, so what is said under the old ones is said    *)
(* under the new.                                                          *)
LEMMA KeptNext ==
  ASSUME hash' = hash, NEW p \in Nat, Kept(table', p)
  PROVE  Kept(table, p)'
<1>1. Unbroken(table, p)' <=> Unbroken(table', p)
  BY DEF Unbroken, Home
<1> QED
  BY <1>1 DEF Kept, Sound

-----------------------------------------------------------------------------
(* Every step keeps the table, and keeps it the same as the abstract map.  *)
LEMMA StepKept ==
  ASSUME Inv, [Next]_vars
  PROVE  Inv'
<1>1. PICK n \in Nat : Kept(table, n)
  BY DEF Inv
<1>2. hash \in [Key -> Nat] /\ hash' = hash
  <2>1. hash' = hash
    BY DEF Next, Clear, ClearFit, Remove, Insert, FindOrInsert, vars
  <2> QED
    BY <2>1 DEF Inv
<1>3. \E p \in Nat : Kept(table', p)
  <2>1. CASE Clear \/ ClearFit
    BY <1>1, <2>1, ClearLeaves
  <2>2. ASSUME NEW k \in Key, Remove(k) PROVE Kept(table', n)
    BY <1>1, <1>2, <2>2, RemoveLeaves
  <2>3. ASSUME NEW k \in Key, NEW v \in Val, Insert(k, v) PROVE \E p \in Nat : Kept(table', p)
    BY <1>1, <1>2, <2>3, InsertLeaves
  <2>4. ASSUME NEW k \in Key, NEW v \in Val, FindOrInsert(k, v) PROVE \E p \in Nat : Kept(table', p)
    BY <1>1, <1>2, <2>4, FindLeaves
  <2>5. CASE UNCHANGED vars
    BY <1>1, <2>5 DEF vars
  <2> QED
    BY <2>1, <2>2, <2>3, <2>4, <2>5 DEF Next
<1>4. PICK p \in Nat : Kept(table', p)
  BY <1>3
<1>5. Kept(table, p)'
  BY <1>2, <1>4, KeptNext
<1> QED
  BY <1>2, <1>5 DEF Inv

LEMMA StepSame ==
  ASSUME BothInv, [Both]_<<vars, bound>>
  PROVE  BothInv'
<1>1. PICK n \in Nat : Kept(table, n) /\ Same(n)
  BY DEF BothInv
<1>2. hash \in [Key -> Nat] /\ hash' = hash
  <2>1. hash' = hash
    BY DEF Both, Clear, ClearFit, Remove, Insert, FindOrInsert, vars
  <2> QED
    BY <2>1 DEF BothInv
<1>3. /\ bound \in [Key -> Val \cup {None}] /\ None \notin Val
      /\ \A l \in Key, w \in Val : Binds(table, n, l, w) <=> bound[l] = w
  BY <1>1, SizeAssumption DEF Same
<1> DEFINE Next2(p) ==
             /\ Kept(table', p)
             /\ bound' \in [Key -> Val \cup {None}]
             /\ \A l \in Key, w \in Val : Binds(table', p, l, w) <=> bound'[l] = w
<1>4. ASSUME Clear \/ ClearFit, Map!Clear PROVE \E p \in Nat : Next2(p)
  <2>1. PICK p \in Nat : Kept(table', p) /\ \A l, w : ~ Binds(table', p, l, w)
    BY <1>1, <1>4, ClearLeaves
  <2>2. bound' \in [Key -> Val \cup {None}] /\ \A l \in Key : bound'[l] = None
    BY <1>4 DEF Map!Clear
  <2>3. Next2(p)
    BY <1>3, <2>1, <2>2
  <2> QED
    BY <2>3
<1>5. ASSUME NEW k \in Key, Remove(k), Map!Remove(k) PROVE \E p \in Nat : Next2(p)
  <2>1. /\ Kept(table', n)
        /\ \A l \in Key, w \in Val : Binds(table', n, l, w) <=> l # k /\ Binds(table, n, l, w)
    BY <1>1, <1>2, <1>5, RemoveLeaves
  <2>2. /\ bound' \in [Key -> Val \cup {None}]
        /\ \A l \in Key : bound'[l] = IF l = k THEN None ELSE bound[l]
    BY <1>3, <1>5 DEF Map!Remove
  <2>3. Next2(n)
    BY <1>3, <2>1, <2>2
  <2> QED
    BY <2>3
<1>6. ASSUME NEW k \in Key, NEW v \in Val, Insert(k, v), Map!Insert(k, v)
      PROVE  \E p \in Nat : Next2(p)
  <2>1. PICK p \in Nat :
          /\ Kept(table', p)
          /\ \A l, w : Binds(table', p, l, w) <=> IF l = k THEN w = v ELSE Binds(table, n, l, w)
    BY <1>1, <1>2, <1>6, InsertLeaves
  <2>2. /\ bound' \in [Key -> Val \cup {None}]
        /\ \A l \in Key : bound'[l] = IF l = k THEN v ELSE bound[l]
    BY <1>3, <1>6 DEF Map!Insert
  <2>3. Next2(p)
    BY <1>3, <2>1, <2>2
  <2> QED
    BY <2>3
<1>7. ASSUME NEW k \in Key, NEW v \in Val, FindOrInsert(k, v), Map!FindOrInsert(k, v)
      PROVE  \E p \in Nat : Next2(p)
  <2>1. PICK p \in Nat :
          /\ Kept(table', p)
          /\ \A l, w : Binds(table', p, l, w) <=>
                         IF l = k /\ (\A x : ~ Binds(table, n, k, x)) THEN w = v ELSE Binds(table, n, l, w)
    BY <1>1, <1>2, <1>7, FindLeaves
  <2>2. (\A x : ~ Binds(table, n, k, x)) <=> bound[k] = None
    <3>1. ASSUME NEW x, Binds(table, n, k, x) PROVE x \in Val
      <4>1. PICK i \in 0 .. n - 1 : IsLive(table, i) /\ ValOf(table.slots[i]) = x
        BY <3>1 DEF Binds
      <4>2. table.slots[i] \in Slot /\ table.slots[i] # Vacant
        BY <1>1, <4>1 DEF Kept, Sound, Tables, IsLive
      <4> QED
        BY <4>1, <4>2, SlotParts
    <3>2. bound[k] \in Val \cup {None}
      BY <1>3
    <3> QED
      BY <1>3, <3>1, <3>2
  <2>3. /\ bound' \in [Key -> Val \cup {None}]
        /\ \A l \in Key : bound'[l] = IF l = k /\ bound[k] = None THEN v ELSE bound[l]
    BY <1>3, <1>7 DEF Map!FindOrInsert
  <2>4. Next2(p)
    BY <1>3, <2>1, <2>2, <2>3
  <2> QED
    BY <2>4
<1>8. ASSUME UNCHANGED <<vars, bound>> PROVE \E p \in Nat : Next2(p)
  <2>1. Next2(n)
    BY <1>1, <1>3, <1>8 DEF vars
  <2> QED
    BY <2>1
<1>9. \E p \in Nat : Next2(p)
  <2> HIDE DEF Next2
  <2> QED
    BY <1>4, <1>5, <1>6, <1>7, <1>8 DEF Both
<1>10. PICK p \in Nat : Next2(p)
  BY <1>9
<1>11. Kept(table, p)' /\ Same(p)'
  BY <1>2, <1>10, KeptNext DEF Same
<1> QED
  BY <1>2, <1>11 DEF BothInv

-----------------------------------------------------------------------------
(* What a kept table is good for: the properties of HashMap2, and the      *)
(* agreement with the abstract map.                                        *)
LEMMA KeptSays ==
  ASSUME NEW n \in Nat, Kept(table, n), hash \in [Key -> Nat]
  PROVE  RunsUnbroken /\ LoadKept /\ NoFutureStamp
<1>1. /\ Sound(table, n) /\ table \in Tables(n) /\ DOMAIN table.slots = 0 .. n - 1
      /\ Capacity(table) = n /\ LiveSlots(table) \subseteq 0 .. n - 1
  BY CapacityIs DEF Kept, Sound
<1>2. LoadKept
  BY <1>1 DEF Kept, Sound, LoadKept
<1>3. NoFutureStamp
  BY <1>1 DEF Sound, Past, NoFutureStamp
<1>4. ASSUME NEW i \in LiveSlots(table)
      PROVE  Probe(table, KeyOf(table.slots[i])) = [at |-> i, found |-> TRUE]
  <2>1. i \in 0 .. n - 1 /\ IsLive(table, i) /\ n # 0
    BY <1>1 DEF LiveSlots
  <2>2. KeyOf(table.slots[i]) \in Key
    BY <1>1, <2>1, HomeOf
  <2> QED
    BY <1>1, <2>1, <2>2, KeptHasRoom, ProbeOf
<1>5. \A i, j \in LiveSlots(table) : KeyOf(table.slots[i]) = KeyOf(table.slots[j]) => i = j
  <2>1. \A i \in LiveSlots(table) : i \in 0 .. n - 1 /\ IsLive(table, i)
    BY <1>1 DEF LiveSlots
  <2> QED
    BY <1>1, <2>1 DEF Sound, Once
<1> QED
  BY <1>2, <1>3, <1>4, <1>5 DEF RunsUnbroken

LEMMA SameSays ==
  ASSUME BothInv
  PROVE  Agrees
<1>1. PICK n \in Nat : Kept(table, n) /\ Same(n)
  BY DEF BothInv
<1>2. /\ hash \in [Key -> Nat] /\ None \notin Val /\ Sound(table, n)
      /\ n # 0 => \E j \in 0 .. n - 1 : ~ IsLive(table, j)
  BY <1>1, KeptHasRoom, SizeAssumption DEF BothInv, Kept
<1>3. ASSUME NEW k \in Key PROVE Lookup(table, k) = bound[k]
  <2>1. /\ \A v \in Val : Lookup(table, k) = v <=> Binds(table, n, k, v)
        /\ Lookup(table, k) \in Val \cup {None}
    BY <1>2, LookupIs
  <2>2. /\ \A v \in Val : Binds(table, n, k, v) <=> bound[k] = v
        /\ bound[k] \in Val \cup {None}
    BY <1>1 DEF Same
  <2> QED
    BY <1>2, <2>1, <2>2
<1> QED
  BY <1>3 DEF Agrees

-----------------------------------------------------------------------------
(* The invariant of the table, whatever is done to it.                     *)
THEOREM TableInv == Spec => []Inv
<1>1. Init => Inv
  BY InitKept DEF Inv
<1>2. Inv /\ [Next]_vars => Inv'
  BY StepKept
<1> QED
  BY <1>1, <1>2, PTL DEF Spec

(* No removal, resize or clear breaks a run: a live key is found where it  *)
(* is, and is there once, at every capacity and for every hash function.   *)
(* And the count is exact and within the load limit of the array there is, *)
(* so a probe always meets a free slot.                                    *)
THEOREM RunsStayWhole == Spec => []ProbesEnd
<1>1. Inv => ProbesEnd
  BY KeptSays DEF Inv, ProbesEnd
<1> QED
  BY <1>1, TableInv, PTL

(* No slot has a stamp a later clear could make current again.             *)
THEOREM NothingRevives == Spec => []NoFutureStamp
<1>1. Inv => NoFutureStamp
  BY KeptSays DEF Inv
<1> QED
  BY <1>1, TableInv, PTL

(* Step for step, the table answers what the abstract map answers.         *)
THEOREM TableIsMap == BothSpec => []Agrees
<1>1. BothInit => BothInv
  <2> SUFFICES ASSUME BothInit PROVE BothInv
    OBVIOUS
  <2>1. PICK n \in Nat : Kept(table, n) /\ \A l, w : ~ Binds(table, n, l, w)
    BY InitKept DEF BothInit
  <2>2. bound \in [Key -> Val \cup {None}] /\ \A l \in Key : bound[l] = None
    BY DEF BothInit, Map!Init
  <2>3. Same(n)
    BY <2>1, <2>2, SizeAssumption DEF Same
  <2> QED
    BY <2>1, <2>3, InitKept DEF BothInit, BothInv
<1>2. BothInv /\ [Both]_<<vars, bound>> => BothInv'
  BY StepSame
<1>3. BothInv => Agrees
  BY SameSays
<1> QED
  BY <1>1, <1>2, <1>3, PTL DEF BothSpec

(* And the composition hides nothing of the table: each of its steps is a  *)
(* step of HashMap2, so all of the above holds beside the map too.         *)
THEOREM BothIsTable == BothSpec => Spec
<1>1. BothInit => Init
  BY DEF BothInit
<1>2. [Both]_<<vars, bound>> => [Next]_vars
  BY DEF Both, Next, vars
<1> QED
  BY <1>1, <1>2, PTL DEF BothSpec, Spec
=============================================================================
