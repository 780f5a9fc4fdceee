----------------------------- MODULE HoistProofs -----------------------------
(***************************************************************************)
(* The hoist puts grounds first for every stream, whatever the records     *)
(* declare, reference and are certified over.  The targets are closed      *)
(* under references (but for what is still in the worklist), each for a    *)
(* reason; and the new order is sorted by place, what moves before what    *)
(* stays, and then by the old order.                                       *)
(***************************************************************************)
EXTENDS Hoist, TLAPS, FiniteSetTheorems, SequenceTheorems

Index == 1 .. Len(ds)

(* What each record is built from, and the grounds of the operation it is.  *)
BuiltFrom == [k \in Index |-> Declarers(Uses(ds[k]))]
GroundsOf == [i \in Index |-> Declarers(Grounds(ds[i]))]

TypeOK ==
  /\ ds \in Seq(Record) /\ stage \in {"targets", "order", "done"}
  /\ at \in 0 .. Len(ds) /\ todo \subseteq at + 1 .. Len(ds)
  /\ at = 0 => todo = {}
  /\ DOMAIN target \subseteq Index
  /\ \A k \in DOMAIN target : target[k] \in 1 .. at /\ target[k] < k
  /\ place \in 1 .. Len(ds) + 1 /\ from \in 1 .. Len(ds) + 1
  /\ order \in Seq(Index)
  /\ stage # "targets" => todo = {} /\ at = Len(ds)
  /\ stage = "targets" => place = 1 /\ from = 1 /\ order = <<>>

(* Record m precedes place i, or is still to be closed for the record that *)
(* is looked at.                                                           *)
Set(m, i) == (m \in DOMAIN target /\ target[m] <= i) \/ (m \in todo /\ i = at)

(* What a moved record references among the records after its place moves  *)
(* there or further up, and so do the grounds of what was looked at.       *)
UsesClosed ==
  \A k \in DOMAIN target : \A m \in BuiltFrom[k] :
    m > target[k] /\ m # k => Set(m, target[k])
GroundsClosed ==
  \A i \in 1 .. at : \A j \in GroundsOf[i] : j > i => Set(j, i)

(* Why record y goes in front of i.                                        *)
Reason(y, i) ==
  \/ y \in GroundsOf[i]
  \/ \E k \in DOMAIN target : target[k] = i /\ y \in BuiltFrom[k]
Reasons ==
  /\ \A y \in DOMAIN target : Reason(y, target[y])
  /\ \A y \in todo : Reason(y, at)

(* Where a record goes, and the order by place.                            *)
To(x) == IF x \in DOMAIN target THEN target[x] ELSE x
Less(x, y) ==
  \/ To(x) < To(y)
  \/ To(x) = To(y) /\ x \in DOMAIN target /\ y \notin DOMAIN target
  \/ To(x) = To(y) /\ (x \in DOMAIN target <=> y \in DOMAIN target) /\ x < y

Sorted == \A p, q \in DOMAIN order : p < q => Less(order[p], order[q])
Out(x) == To(x) < place \/ (x \in DOMAIN target /\ To(x) = place /\ x < from)
Listing ==
  /\ stage = "order" => \A x \in Index : (\E p \in DOMAIN order : order[p] = x) <=> Out(x)
  /\ stage = "done"  => \A x \in Index : \E p \in DOMAIN order : order[p] = x

Inv == TypeOK /\ UsesClosed /\ GroundsClosed /\ Reasons /\ Sorted /\ Listing

-----------------------------------------------------------------------------
LEMMA InitInv == InitHoist => Inv
<1> SUFFICES ASSUME InitHoist PROVE Inv
  OBVIOUS
<1>1. DOMAIN target = {} /\ todo = {} /\ at = 0 /\ stage = "targets"
  BY DEF InitHoist
<1>2. order \in Seq(Index) /\ DOMAIN order = {}
  BY DEF InitHoist
<1>3. Len(ds) \in Nat
  BY DEF InitHoist
<1>4. TypeOK
  BY <1>1, <1>2, <1>3 DEF InitHoist, TypeOK
<1>5. UsesClosed /\ GroundsClosed /\ Reasons
  BY <1>1 DEF UsesClosed, GroundsClosed, Reasons
<1>6. Sorted /\ Listing
  BY <1>1, <1>2 DEF Sorted, Listing
<1> QED BY <1>4, <1>5, <1>6 DEF Inv

(* What a step that leaves the stream and the order alone keeps.           *)
LEMMA StreamKept ==
  ASSUME UNCHANGED ds PROVE UNCHANGED <<Index, BuiltFrom, GroundsOf>>
BY DEF Index, BuiltFrom, GroundsOf, Declarers

LEMMA OrderKept ==
  ASSUME UNCHANGED <<order, target>>, Sorted PROVE Sorted'
BY DEF Sorted, Less, To

(* While targets are found, nothing is listed.                             *)
LEMMA NothingListed ==
  ASSUME TypeOK, stage = "targets", UNCHANGED <<order, stage>>
  PROVE  Sorted' /\ Listing'
<1>1. DOMAIN order = {}
  BY DEF TypeOK
<1>2. DOMAIN order' = {}
  BY <1>1
<1> QED BY <1>2 DEF Sorted, Listing

LEMMA NextRecordInv == Inv /\ NextRecord => Inv'
<1> SUFFICES ASSUME Inv, NextRecord PROVE Inv'
  OBVIOUS
<1> USE DEF Inv
<1>1. UNCHANGED <<ds, stage, target, place, from, order>> /\ todo = {} /\ stage = "targets"
  BY DEF NextRecord
<1>2. UNCHANGED <<Index, BuiltFrom, GroundsOf>>
  BY <1>1, StreamKept
<1>3. Len(ds) \in Nat /\ at + 1 \in Index /\ at' = at + 1
  BY DEF NextRecord, TypeOK, Index
<1>4. todo' = {j \in GroundsOf[at + 1] : j > at + 1}
  BY <1>3 DEF NextRecord, GroundsOf
<1>5. GroundsOf[at + 1] \subseteq Index
  BY <1>3 DEF GroundsOf, Declarers, Index, TypeOK
<1>6. todo' \subseteq at + 2 .. Len(ds)
  BY <1>3, <1>4, <1>5 DEF Index, TypeOK
<1>7. TypeOK'
  BY <1>1, <1>2, <1>3, <1>6 DEF TypeOK, Index
<1>8. UsesClosed'
  <2> SUFFICES ASSUME NEW k \in DOMAIN target, NEW m \in BuiltFrom[k], m > target[k], m # k
               PROVE  m \in DOMAIN target /\ target[m] <= target[k]
    BY <1>1, <1>2 DEF UsesClosed, Set
  <2> QED BY <1>1 DEF UsesClosed, Set
<1>9. GroundsClosed'
  <2> SUFFICES ASSUME NEW i \in 1 .. at + 1, NEW j \in GroundsOf[i], j > i
               PROVE  (j \in DOMAIN target /\ target[j] <= i) \/ (j \in todo' /\ i = at + 1)
    BY <1>1, <1>2, <1>3 DEF GroundsClosed, Set
  <2>1. CASE i = at + 1
    BY <2>1, <1>4
  <2>2. CASE i \in 1 .. at
    BY <2>2, <1>1 DEF GroundsClosed, Set
  <2> QED BY <2>1, <2>2, <1>3 DEF TypeOK
<1>10. Reasons'
  BY <1>1, <1>2, <1>3, <1>4 DEF Reasons, Reason
<1> QED BY <1>1, <1>7, <1>8, <1>9, <1>10, NothingListed

(* A record closed for the first time: nothing that was settled is undone.  *)
LEMMA CloseInv ==
  ASSUME Inv, NEW k \in todo, Close(k)
  PROVE  Inv'
<1> USE DEF Inv
<1>1. UNCHANGED <<ds, stage, at, place, from, order>> /\ stage = "targets"
  BY DEF Close
<1>2. UNCHANGED <<Index, BuiltFrom, GroundsOf>>
  BY <1>1, StreamKept
<1>3. /\ Len(ds) \in Nat /\ k \in Index /\ k > at /\ at \in 1 .. Len(ds)
  BY DEF TypeOK, Index
<1>4. CASE k \in DOMAIN target
  <2>1. target[k] <= at
    BY <1>3, <1>4 DEF TypeOK
  <2>2. todo' = todo \ {k} /\ UNCHANGED target
    BY <1>4, <2>1 DEF Close
  <2>3. \A m, i : Set(m, i) => Set(m, i)'
    BY <1>1, <1>4, <2>1, <2>2 DEF Set
  <2>4. TypeOK'
    BY <1>1, <1>2, <2>2 DEF TypeOK
  <2>5. UsesClosed' /\ GroundsClosed' /\ Reasons'
    <3>1. UsesClosed'
      <4> SUFFICES ASSUME NEW l \in DOMAIN target, NEW m \in BuiltFrom[l], m > target[l], m # l
                   PROVE  (m \in DOMAIN target' /\ target'[m] <= target[l]) \/ (m \in todo' /\ target[l] = at')
        BY <1>2, <2>2 DEF UsesClosed, Set
      <4> QED BY <2>3 DEF UsesClosed, Set
    <3>2. GroundsClosed'
      <4> SUFFICES ASSUME NEW i \in 1 .. at, NEW j \in GroundsOf[i], j > i
                   PROVE  (j \in DOMAIN target' /\ target'[j] <= i) \/ (j \in todo' /\ i = at')
        BY <1>1, <1>2 DEF GroundsClosed, Set
      <4> QED BY <2>3 DEF GroundsClosed, Set
    <3>3. Reasons'
      BY <1>1, <1>2, <2>2 DEF Reasons, Reason
    <3> QED BY <3>1, <3>2, <3>3
  <2> QED BY <1>1, <2>4, <2>5, NothingListed
<1>5. CASE k \notin DOMAIN target
  <2>1. /\ target' = [m \in DOMAIN target \cup {k} |-> IF m = k THEN at ELSE target[m]]
        /\ todo' = (todo \ {k}) \cup {m \in BuiltFrom[k] : m > at /\ m # k}
    BY <1>3, <1>5 DEF Close, BuiltFrom
  <2>2. /\ DOMAIN target' = DOMAIN target \cup {k}
        /\ target'[k] = at /\ \A m \in DOMAIN target : target'[m] = target[m]
    BY <1>5, <2>1
  <2>3. \A m, i : Set(m, i) => Set(m, i)'
    BY <1>1, <1>3, <2>1, <2>2 DEF Set
  <2>4. BuiltFrom[k] \subseteq Index
    BY <1>3 DEF BuiltFrom, Declarers, Index, TypeOK
  <2>5. todo' \subseteq at + 1 .. Len(ds)
    BY <1>3, <2>1, <2>4 DEF TypeOK, Index
  <2>6. TypeOK'
    BY <1>1, <1>2, <1>3, <2>2, <2>5 DEF TypeOK
  <2>7. UsesClosed'
    <3> SUFFICES ASSUME NEW l \in DOMAIN target', NEW m \in BuiltFrom[l], m > target'[l], m # l
                 PROVE  (m \in DOMAIN target' /\ target'[m] <= target'[l]) \/ (m \in todo' /\ target'[l] = at')
      BY <1>2 DEF UsesClosed, Set
    <3>1. CASE l = k
      BY <1>1, <2>1, <2>2, <3>1
    <3>2. CASE l \in DOMAIN target
      <4>1. Set(m, target[l])
        BY <2>2, <3>2 DEF UsesClosed
      <4>2. target'[l] = target[l]
        BY <2>2, <3>2
      <4> QED BY <2>3, <4>1, <4>2 DEF Set
    <3> QED BY <2>2, <3>1, <3>2
  <2>8. GroundsClosed'
    <3> SUFFICES ASSUME NEW i \in 1 .. at, NEW j \in GroundsOf[i], j > i
                 PROVE  (j \in DOMAIN target' /\ target'[j] <= i) \/ (j \in todo' /\ i = at')
      BY <1>1, <1>2 DEF GroundsClosed, Set
    <3> QED BY <2>3 DEF GroundsClosed, Set
  <2>9. \A y, i : Reason(y, i) => Reason(y, i)'
    BY <1>2, <2>2 DEF Reason
  <2>10. \A y \in BuiltFrom[k] : Reason(y, at)'
    BY <1>1, <1>2, <2>2 DEF Reason
  <2>11. Reasons'
    <3>1. ASSUME NEW y \in DOMAIN target' PROVE Reason(y, target[y])'
      <4>1. CASE y = k
        <5>1. PICK i : i = at /\ target'[y] = i
          BY <4>1, <2>2
        <5>2. Reason(y, i)
          BY <4>1, <5>1 DEF Reasons
        <5>3. Reason(y, i)'
          BY <5>2, <2>9
        <5> QED BY <5>1, <5>3 DEF Reason
      <4>2. CASE y \in DOMAIN target
        <5>1. PICK i : i = target[y] /\ target'[y] = i
          BY <4>2, <2>2
        <5>2. Reason(y, i)
          BY <4>2, <5>1 DEF Reasons
        <5>3. Reason(y, i)'
          BY <5>2, <2>9
        <5> QED BY <5>1, <5>3 DEF Reason
      <4> QED BY <2>2, <4>1, <4>2
    <3>2. ASSUME NEW y \in todo' PROVE Reason(y, at)'
      <4>1. CASE y \in BuiltFrom[k]
        BY <4>1, <2>10
      <4>2. CASE y \in todo
        <5>1. Reason(y, at)
          BY <4>2 DEF Reasons
        <5>2. PICK i : i = at /\ at' = i
          BY <1>1
        <5>3. Reason(y, i)'
          BY <5>1, <5>2, <2>9
        <5> QED BY <5>2, <5>3 DEF Reason
      <4> QED BY <2>1, <4>1, <4>2
    <3> QED BY <3>1, <3>2 DEF Reasons
  <2> QED BY <1>1, <2>6, <2>7, <2>8, <2>11, NothingListed
<1> QED BY <1>4, <1>5

LEMMA NoneMovesInv == Inv /\ NoneMoves => Inv'
<1> SUFFICES ASSUME Inv, NoneMoves PROVE Inv'
  OBVIOUS
<1> USE DEF Inv
<1>1. UNCHANGED <<ds, at, todo, target, place, from>> /\ stage' = "done"
  BY DEF NoneMoves
<1>2. UNCHANGED <<Index, BuiltFrom, GroundsOf>>
  BY <1>1, StreamKept
<1>3. DOMAIN target = {} /\ todo = {} /\ at = Len(ds) /\ Len(ds) \in Nat
  BY DEF NoneMoves, TypeOK
<1>4. order' = [k \in Index |-> k]
  BY DEF NoneMoves, Index, TypeOK
<1>5. order' \in Seq(Index) /\ DOMAIN order' = Index
  BY <1>3, <1>4 DEF Index
<1>6. TypeOK'
  BY <1>1, <1>2, <1>3, <1>5 DEF TypeOK
<1>7. UsesClosed' /\ Reasons'
  BY <1>1, <1>3 DEF UsesClosed, Reasons
<1>8. GroundsClosed'
  BY <1>1, <1>2 DEF GroundsClosed, Set
<1>9. Sorted' /\ Listing'
  BY <1>1, <1>2, <1>3, <1>4, <1>5 DEF Sorted, Less, To, Listing, Index
<1> QED BY <1>6, <1>7, <1>8, <1>9

(* The closure is done: what follows only lists.                           *)
LEMMA TargetsKept ==
  ASSUME Inv, UNCHANGED <<ds, at, todo, target>>
  PROVE  UsesClosed' /\ GroundsClosed' /\ Reasons'
<1> USE DEF Inv
<1>1. UNCHANGED <<Index, BuiltFrom, GroundsOf>>
  BY StreamKept
<1>2. UsesClosed'
  BY <1>1 DEF UsesClosed, Set
<1>3. GroundsClosed'
  BY <1>1 DEF GroundsClosed, Set
<1>4. Reasons'
  BY <1>1 DEF Reasons, Reason
<1> QED BY <1>2, <1>3, <1>4

LEMMA SomeMoveInv == Inv /\ SomeMove => Inv'
<1> SUFFICES ASSUME Inv, SomeMove PROVE Inv'
  OBVIOUS
<1> USE DEF Inv
<1>1. UNCHANGED <<ds, at, todo, target, place, from, order>> /\ stage' = "order"
  BY DEF SomeMove
<1>2. UNCHANGED <<Index, BuiltFrom, GroundsOf>>
  BY <1>1, StreamKept
<1>3. order = <<>> /\ place = 1 /\ from = 1 /\ todo = {} /\ at = Len(ds) /\ Len(ds) \in Nat
  BY DEF SomeMove, TypeOK
<1>4. TypeOK'
  BY <1>1, <1>2, <1>3 DEF TypeOK
<1>5. UsesClosed' /\ GroundsClosed' /\ Reasons'
  BY <1>1, TargetsKept
<1>6. Sorted'
  BY <1>1, OrderKept
<1>7. \A x \in Index : ~ Out(x)
  BY <1>3 DEF Out, To, Index, TypeOK
<1>8. (\A x \in Index : ~ Out(x))'
  BY <1>7, <1>1, <1>2 DEF Out, To
<1>9. DOMAIN order' = {}
  BY <1>1, <1>3
<1>10. Listing'
  BY <1>1, <1>2, <1>8, <1>9 DEF Listing
<1> QED BY <1>4, <1>5, <1>6, <1>10

(* A record that comes after all that is listed is listed last.            *)
LEMMA ListedLast ==
  ASSUME Inv, NEW k \in Index, UNCHANGED target,
         order' = Append(order, k), \A x \in Index : (\E p \in DOMAIN order : order[p] = x) => Less(x, k)
  PROVE  /\ Sorted' /\ order' \in Seq(Index)
         /\ \A x : (\E p \in DOMAIN order' : order'[p] = x) <=> (\E p \in DOMAIN order : order[p] = x) \/ x = k
<1> USE DEF Inv
<1>1. order \in Seq(Index) /\ Len(order) \in Nat
  BY DEF TypeOK
<1>2. /\ order' \in Seq(Index) /\ Len(order') = Len(order) + 1
      /\ DOMAIN order = 1 .. Len(order) /\ DOMAIN order' = 1 .. Len(order) + 1
  BY <1>1
<1>3. order'[Len(order) + 1] = k /\ \A p \in DOMAIN order : order'[p] = order[p]
  BY <1>1
<1>4. \A x, y : Less(x, y)' <=> Less(x, y)
  BY DEF Less, To
<1>5. ASSUME NEW p \in DOMAIN order', NEW q \in DOMAIN order', p < q
      PROVE  Less(order'[p], order'[q])
  <2>1. p \in DOMAIN order
    BY <1>1, <1>2, <1>5
  <2>2. CASE q \in DOMAIN order
    BY <2>1, <2>2, <1>3, <1>5 DEF Sorted
  <2>3. CASE q = Len(order) + 1
    BY <2>1, <2>3, <1>1, <1>2, <1>3
  <2> QED BY <2>2, <2>3, <1>1, <1>2
<1>6. Sorted'
  BY <1>4, <1>5 DEF Sorted, Less, To
<1>7. \A x : (\E p \in DOMAIN order' : order'[p] = x) <=> (\E p \in DOMAIN order : order[p] = x) \/ x = k
  BY <1>1, <1>2, <1>3
<1> QED BY <1>2, <1>6, <1>7

LEMMA ListMovedInv == Inv /\ ListMoved => Inv'
<1> SUFFICES ASSUME Inv, ListMoved PROVE Inv'
  OBVIOUS
<1> USE DEF Inv
<1>1. UNCHANGED <<ds, stage, at, todo, target, place>> /\ stage = "order"
  BY DEF ListMoved
<1>2. UNCHANGED <<Index, BuiltFrom, GroundsOf>>
  BY <1>1, StreamKept
<1>3. PICK k \in from .. Len(ds) :
        Bound(k) /\ (\A m \in from .. k - 1 : ~ Bound(m)) /\ order' = Append(order, k) /\ from' = k + 1
  BY DEF ListMoved
<1>4. k \in Index /\ k \in DOMAIN target /\ target[k] = place /\ Len(ds) \in Nat
  BY <1>3 DEF TypeOK, Index, Bound
<1>5. \A x \in Index : Out(x) => Less(x, k)
  BY <1>3, <1>4 DEF Out, Less, To, TypeOK, Index
<1>6. \A x \in Index : (\E p \in DOMAIN order : order[p] = x) <=> Out(x)
  BY <1>1 DEF Listing
<1>7. /\ Sorted' /\ order' \in Seq(Index)
      /\ \A x : (\E p \in DOMAIN order' : order'[p] = x) <=> (\E p \in DOMAIN order : order[p] = x) \/ x = k
  BY <1>1, <1>3, <1>4, <1>5, <1>6, ListedLast
<1>8. \A x \in Index : Out(x)' <=> Out(x) \/ x = k
  BY <1>1, <1>3, <1>4 DEF Out, To, Bound, TypeOK, Index
<1>9. TypeOK'
  BY <1>1, <1>2, <1>3, <1>4, <1>7 DEF TypeOK, Index
<1>10. Listing'
  BY <1>1, <1>2, <1>6, <1>7, <1>8 DEF Listing
<1>11. UsesClosed' /\ GroundsClosed' /\ Reasons'
  BY <1>1, TargetsKept
<1> QED BY <1>7, <1>9, <1>10, <1>11

LEMMA ListOwnInv == Inv /\ ListOwn => Inv'
<1> SUFFICES ASSUME Inv, ListOwn PROVE Inv'
  OBVIOUS
<1> USE DEF Inv
<1>1. /\ UNCHANGED <<ds, stage, at, todo, target>> /\ stage = "order"
      /\ place' = place + 1 /\ from' = 1 /\ place \in Index
  BY DEF ListOwn, TypeOK, Index
<1>2. UNCHANGED <<Index, BuiltFrom, GroundsOf>>
  BY <1>1, StreamKept
<1>3. \A m \in from .. Len(ds) : ~ (m \in DOMAIN target /\ target[m] = place)
  BY DEF ListOwn, Bound
<1>4. Len(ds) \in Nat /\ place \in Nat /\ from \in Nat
  BY DEF TypeOK
<1>5. \A x \in Index : (\E p \in DOMAIN order : order[p] = x) <=> Out(x)
  BY <1>1 DEF Listing
<1>6. \A x \in Index : Out(x) <=> To(x) <= place /\ (x = place => place \in DOMAIN target)
  BY <1>3, <1>4 DEF Out, To, TypeOK, Index
<1>7. \A x \in Index : Out(x)' <=> To(x) <= place
  BY <1>1, <1>4 DEF Out, To, TypeOK, Index
<1>8. TypeOK' /\ Sorted' /\ \A x \in Index : (\E p \in DOMAIN order' : order'[p] = x) <=> Out(x)'
  <2>1. CASE place \in DOMAIN target
    <3>1. UNCHANGED order
      BY <2>1 DEF ListOwn
    <3>2. TypeOK'
      BY <1>1, <1>2, <1>4, <3>1 DEF TypeOK, Index
    <3>3. Sorted'
      BY <1>1, <3>1, OrderKept
    <3> QED BY <1>5, <1>6, <1>7, <2>1, <3>1, <3>2, <3>3
  <2>2. CASE place \notin DOMAIN target
    <3>1. order' = Append(order, place)
      BY <2>2 DEF ListOwn
    <3>2. \A x \in Index : Out(x) => Less(x, place)
      BY <1>1, <1>4, <1>6, <2>2 DEF Less, To, TypeOK, Index
    <3>3. /\ Sorted' /\ order' \in Seq(Index)
          /\ \A x : (\E p \in DOMAIN order' : order'[p] = x) <=> (\E p \in DOMAIN order : order[p] = x) \/ x = place
      BY <1>1, <1>5, <3>1, <3>2, ListedLast
    <3>4. TypeOK'
      BY <1>1, <1>2, <1>4, <3>3 DEF TypeOK, Index
    <3>5. To(place) = place
      BY <2>2 DEF To
    <3>6. \A x \in Index : To(x) <= place <=> Out(x) \/ x = place
      BY <1>4, <1>6, <2>2, <3>5
    <3>7. \A x \in Index : (\E p \in DOMAIN order' : order'[p] = x) <=> To(x) <= place
      BY <1>5, <3>3, <3>6
    <3>8. \A x \in Index : (\E p \in DOMAIN order' : order'[p] = x) <=> Out(x)'
      BY <1>7, <3>7
    <3> QED BY <3>3, <3>4, <3>8
  <2> QED BY <2>1, <2>2
<1>9. Listing'
  BY <1>1, <1>2, <1>8 DEF Listing
<1>10. UsesClosed' /\ GroundsClosed' /\ Reasons'
  BY <1>1, TargetsKept
<1> QED BY <1>8, <1>9, <1>10

LEMMA ListedInv == Inv /\ Listed => Inv'
<1> SUFFICES ASSUME Inv, Listed PROVE Inv'
  OBVIOUS
<1> USE DEF Inv
<1>1. /\ UNCHANGED <<ds, at, todo, target, place, from, order>> /\ stage = "order" /\ stage' = "done"
      /\ place > Len(ds)
  BY DEF Listed
<1>2. UNCHANGED <<Index, BuiltFrom, GroundsOf>>
  BY <1>1, StreamKept
<1>3. TypeOK'
  BY <1>1, <1>2 DEF TypeOK
<1>4. Sorted'
  BY <1>1, OrderKept
<1>5. \A x \in Index : Out(x)
  BY <1>1 DEF Out, To, TypeOK, Index
<1>6. Listing'
  BY <1>1, <1>2, <1>5 DEF Listing
<1>7. UsesClosed' /\ GroundsClosed' /\ Reasons'
  BY <1>1, TargetsKept
<1> QED BY <1>3, <1>4, <1>6, <1>7

LEMMA NextInv == Inv /\ [NextHoist]_hoistVars => Inv'
<1> SUFFICES ASSUME Inv, [NextHoist]_hoistVars PROVE Inv'
  OBVIOUS
<1>1. CASE NextRecord
  BY <1>1, NextRecordInv
<1>2. ASSUME NEW k \in todo, Close(k) PROVE Inv'
  BY <1>2, CloseInv
<1>3. CASE NoneMoves
  BY <1>3, NoneMovesInv
<1>4. CASE SomeMove
  BY <1>4, SomeMoveInv
<1>5. CASE ListMoved
  BY <1>5, ListMovedInv
<1>6. CASE ListOwn
  BY <1>6, ListOwnInv
<1>7. CASE Listed
  BY <1>7, ListedInv
<1>8. CASE UNCHANGED hoistVars
  <2>1. UNCHANGED <<ds, stage, at, todo, target, place, from, order>>
    BY <1>8 DEF hoistVars
  <2>2. UNCHANGED <<Index, BuiltFrom, GroundsOf>>
    BY <2>1, StreamKept
  <2>3. TypeOK'
    BY <2>1, <2>2 DEF Inv, TypeOK
  <2>4. UsesClosed' /\ GroundsClosed' /\ Reasons'
    BY <2>1, TargetsKept
  <2>5. Sorted'
    BY <2>1, OrderKept DEF Inv
  <2>6. Listing'
    BY <2>1, <2>2 DEF Inv, Listing, Out, To
  <2> QED BY <2>3, <2>4, <2>5, <2>6 DEF Inv
<1> QED BY <1>1, <1>2, <1>3, <1>4, <1>5, <1>6, <1>7, <1>8 DEF NextHoist

(* The listing of every reachable state is sorted by place, and the        *)
(* targets are closed (hoist_targets, hoist_close, hoist_order).           *)
THEOREM HoistInv == SpecHoist => []Inv
BY InitInv, NextInv, PTL DEF SpecHoist

-----------------------------------------------------------------------------
(* What the listing is when it is done.                                    *)
LEMMA LessIsStrict ==
  ASSUME TypeOK, NEW x \in Index, NEW y \in Index, Less(x, y)
  PROVE  x # y /\ ~ Less(y, x)
BY DEF Less, To, TypeOK, Index

LEMMA EarlierIsLess ==
  ASSUME Inv, stage = "done", NEW x \in Index, NEW y \in Index
  PROVE  Earlier(x, y) <=> Less(x, y)
<1>1. order \in Seq(Index) /\ Len(order) \in Nat /\ DOMAIN order = 1 .. Len(order)
  BY DEF Inv, TypeOK
<1>2. Earlier(x, y) => Less(x, y)
  BY DEF Earlier, Inv, Sorted
<1>3. ASSUME Less(x, y) PROVE Earlier(x, y)
  <2>1. PICK p \in DOMAIN order : order[p] = x
    BY DEF Inv, Listing
  <2>2. PICK q \in DOMAIN order : order[q] = y
    BY DEF Inv, Listing
  <2>3. x # y /\ ~ Less(y, x)
    BY <1>3, LessIsStrict DEF Inv
  <2>4. p # q /\ ~ q < p
    BY <2>1, <2>2, <2>3 DEF Inv, Sorted
  <2>5. p < q
    BY <2>4, <1>1
  <2> QED BY <2>1, <2>2, <2>5 DEF Earlier
<1> QED BY <1>2, <1>3

LEMMA CountOfInterval ==
  ASSUME NEW n \in Nat PROVE IsFiniteSet(1 .. n) /\ Cardinality(1 .. n) = n
<1>1. 1 \in Int /\ n \in Int /\ n - 1 + 1 = n /\ (1 > n => n = 0)
  OBVIOUS
<1>2. IsFiniteSet(1 .. n) /\ Cardinality(1 .. n) = IF 1 > n THEN 0 ELSE n - 1 + 1
  BY <1>1, FS_Interval
<1> QED BY <1>1, <1>2

LEMMA ListsEachOnce ==
  ASSUME Inv, stage = "done" PROVE EachOnce
<1>1. /\ order \in Seq(Index) /\ Len(order) \in Nat /\ DOMAIN order = 1 .. Len(order)
      /\ Len(ds) \in Nat /\ DOMAIN ds = Index
  BY DEF Inv, TypeOK, Index
<1>2. \A k \in Index : \E p \in DOMAIN order : order[p] = k
  BY DEF Inv, Listing
<1>3. \A p, q \in 1 .. Len(order) : order[p] = order[q] => p = q
  <2> SUFFICES ASSUME NEW p \in DOMAIN order, NEW q \in DOMAIN order, p < q PROVE order[p] # order[q]
    BY <1>1
  <2>1. Less(order[p], order[q])
    BY DEF Inv, Sorted
  <2>2. order[p] \in Index /\ order[q] \in Index
    BY <1>1
  <2> QED BY <2>1, <2>2, LessIsStrict DEF Inv
<1>4. order \in [1 .. Len(order) -> Index]
  BY <1>1
<1>5. order \in Bijection(1 .. Len(order), Index)
  BY <1>1, <1>2, <1>3, <1>4 DEF Bijection, Injection, Surjection, IsInjective
<1>6. ExistsBijection(1 .. Len(order), Index)
  BY <1>5 DEF ExistsBijection
<1>7. IsFiniteSet(1 .. Len(order)) /\ Cardinality(1 .. Len(order)) = Len(order) /\ Cardinality(Index) = Len(ds)
  <2>1. Cardinality(1 .. Len(order)) = Len(order) /\ IsFiniteSet(1 .. Len(order))
    BY <1>1, CountOfInterval
  <2>2. Cardinality(1 .. Len(ds)) = Len(ds)
    BY <1>1, CountOfInterval
  <2> QED BY <2>1, <2>2 DEF Index
<1>8. Len(order) = Len(ds)
  BY <1>6, <1>7, FS_Bijection
<1> QED BY <1>1, <1>2, <1>8 DEF EachOnce

LEMMA ListsInOrder ==
  ASSUME Inv, stage = "done"
  PROVE  ReferencesFirst /\ GroundsAhead /\ OvertakenRightly
<1> USE DEF Inv
<1>1. todo = {} /\ at = Len(ds) /\ Len(ds) \in Nat /\ DOMAIN ds = Index
  BY DEF TypeOK, Index
<1>2. \A k \in Index : BuiltFrom[k] = Declarers(Uses(ds[k])) /\ GroundsOf[k] = Declarers(Grounds(ds[k]))
  BY DEF BuiltFrom, GroundsOf
<1>3. \A ns : Declarers(ns) \subseteq Index
  BY <1>1 DEF Declarers
<1>4. \A x \in Index : To(x) \in Index /\ To(x) <= x /\ (x \notin DOMAIN target => To(x) = x)
  BY DEF To, TypeOK, Index
<1>5. ReferencesFirst
  <2> SUFFICES ASSUME NEW k \in Index, NEW m \in BuiltFrom[k], m < k,
                      ~ (k \in DOMAIN target /\ target[k] = m)
               PROVE  Earlier(m, k)
    BY <1>1, <1>2 DEF ReferencesFirst
  <2>1. m \in Index
    BY <1>2, <1>3
  <2>2. CASE k \notin DOMAIN target
    <3>1. Less(m, k)
      BY <2>1, <2>2, <1>1, <1>4 DEF Less, Index
    <3> QED BY <2>1, <3>1, EarlierIsLess
  <2>3. CASE k \in DOMAIN target /\ m < target[k]
    <3>1. Less(m, k)
      BY <2>1, <2>3, <1>1, <1>4 DEF Less, To, Index
    <3> QED BY <2>1, <3>1, EarlierIsLess
  <2>4. CASE k \in DOMAIN target /\ m > target[k]
    <3>1. Set(m, target[k])
      BY <2>1, <2>4 DEF UsesClosed, Index
    <3>2. m \in DOMAIN target /\ target[m] <= target[k]
      BY <3>1, <1>1 DEF Set
    <3>3. Less(m, k)
      BY <2>1, <2>4, <3>2, <1>1 DEF Less, To, TypeOK, Index
    <3> QED BY <2>1, <3>3, EarlierIsLess
  <2>5. k \in DOMAIN target => target[k] \in Int
    BY DEF TypeOK
  <2> QED BY <2>1, <2>2, <2>3, <2>4, <2>5 DEF Index
<1>6. GroundsAhead
  <2> SUFFICES ASSUME NEW i \in Index, i \notin DOMAIN target, NEW j \in GroundsOf[i], j # i
               PROVE  Earlier(j, i)
    BY <1>1, <1>2 DEF GroundsAhead
  <2>1. j \in Index
    BY <1>2, <1>3
  <2>2. CASE j < i
    <3>1. Less(j, i)
      BY <2>1, <2>2, <1>1, <1>4 DEF Less, Index
    <3> QED BY <2>1, <3>1, EarlierIsLess
  <2>3. CASE j > i
    <3>1. Set(j, i)
      BY <2>3, <1>1 DEF GroundsClosed, Index
    <3>2. j \in DOMAIN target /\ target[j] <= i
      BY <3>1, <1>1 DEF Set
    <3>3. Less(j, i)
      BY <3>2, <2>1, <1>1 DEF Less, To, TypeOK, Index
    <3> QED BY <2>1, <3>3, EarlierIsLess
  <2> QED BY <2>1, <2>2, <2>3 DEF Index
<1>7. OvertakenRightly
  <2> SUFFICES ASSUME NEW x \in Index, NEW y \in Index, x < y, Earlier(y, x)
               PROVE  Overtakes(y, x)
    BY <1>1 DEF OvertakenRightly
  <2>1. Less(y, x)
    BY EarlierIsLess
  <2>2. To(y) <= x
    BY <2>1, <1>4 DEF Less, Index
  <2>3. y \in DOMAIN target /\ target[y] <= x
    BY <2>2, <1>4 DEF To, Index
  <2>4. Reason(y, target[y])
    BY <2>3 DEF Reasons
  <2>5. target[y] \in Index /\ DOMAIN target \subseteq Index
    BY <2>3 DEF TypeOK, Index
  <2> QED BY <2>3, <2>4, <2>5, <1>2 DEF Reason, Overtakes
<1> QED BY <1>5, <1>6, <1>7

(* Whatever the records declare, reference and are certified over: the     *)
(* hoist lists every record once, an operation that did not move itself    *)
(* after every ground of its certificate, no record before one it          *)
(* references that was ahead of it (but the operation it was moved for),   *)
(* and only what a ground is built from is moved at all.  hoist_nat_op_    *)
(* ground.                                                                 *)
THEOREM GroundsComeFirst == SpecHoist => []GroundsFirst
<1>1. Inv => GroundsFirst
  BY ListsEachOnce, ListsInOrder DEF GroundsFirst
<1> QED BY <1>1, HoistInv, PTL
=============================================================================
