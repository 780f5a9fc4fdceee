-------------------------------- MODULE Hoist --------------------------------
(***************************************************************************)
(* The hoist (frontend/nat_op_ground.rs): ahead of every pinned Nat        *)
(* operation go the records that its certificate is spelled over and that  *)
(* the stream declares later, with all that these are built from.  First   *)
(* every record that must move gets the operation it must precede          *)
(* (`hoist_targets`, its worklist record by record), then the records are  *)
(* listed place by place (`hoist_order`).                                  *)
(*                                                                         *)
(* What a record declares, references and is certified over are            *)
(* parameters: Prepare reads them off the records.                         *)
(***************************************************************************)
EXTENDS Integers, Sequences

CONSTANTS
  Record,       \* the records a stream may have
  Names(_),     \* i_declaration_names: the names a record declares
  Uses(_),      \* decl_used_consts: the constants it references
  Grounds(_)    \* nat_op_deps of the operation it is, {} if it is none

VARIABLES
  ds,       \* the stream
  stage,    \* "targets", then "order", then "done"
  at,       \* the record that is looked at
  todo,     \* the worklist: records that must precede it
  target,   \* of each record that moves: the one it is put in front of
  place,    \* where in the new order the listing is
  from,     \* what moves to that place is listed from this record on
  order     \* the new order, as indices

hoistVars == <<ds, stage, at, todo, target, place, from, order>>

(* The records that declare the names; of two with one name the first.     *)
Declarers(ns) ==
  {j \in DOMAIN ds : \E n \in ns : n \in Names(ds[j]) /\ \A k \in 1 .. j - 1 : n \notin Names(ds[k])}

InitHoist ==
  /\ ds \in Seq(Record)
  /\ stage = "targets" /\ at = 0 /\ todo = {}
  /\ target = [k \in {} |-> 0]
  /\ place = 1 /\ from = 1 /\ order = <<>>

(* `hoist_targets`: the next record.  The grounds of an operation that come *)
(* after it must precede it.                                               *)
NextRecord ==
  /\ stage = "targets" /\ todo = {} /\ at < Len(ds)
  /\ at' = at + 1
  /\ todo' = {j \in Declarers(Grounds(ds[at + 1])) : j > at + 1}
  /\ UNCHANGED <<ds, stage, target, place, from, order>>

(* `hoist_close`: record k goes in front of this one, unless it is bound   *)
(* for here or further up already, and so must what it references among    *)
(* the records after this one.                                             *)
CloseLone(k) ==                       \* mutant: without what it is built from
  /\ stage = "targets" /\ k \in todo
  /\ todo' = todo \ {k}
  /\ target' = IF k \in DOMAIN target /\ target[k] <= at THEN target
               ELSE [m \in DOMAIN target \cup {k} |-> IF m = k THEN at ELSE target[m]]
  /\ UNCHANGED <<ds, stage, at, place, from, order>>
Close(k) ==
  /\ stage = "targets" /\ k \in todo
  /\ IF k \in DOMAIN target /\ target[k] <= at
       THEN todo' = todo \ {k} /\ UNCHANGED target
       ELSE /\ target' = [m \in DOMAIN target \cup {k} |-> IF m = k THEN at ELSE target[m]]
            /\ todo' = (todo \ {k}) \cup {m \in Declarers(Uses(ds[k])) : m > at /\ m # k}
  /\ UNCHANGED <<ds, stage, at, place, from, order>>

(* A stream in which nothing moves is returned as it is.                   *)
NoneMoves ==
  /\ stage = "targets" /\ todo = {} /\ at = Len(ds)
  /\ DOMAIN target = {}
  /\ stage' = "done" /\ order' = [k \in DOMAIN ds |-> k]
  /\ UNCHANGED <<ds, at, todo, target, place, from>>

SomeMove ==
  /\ stage = "targets" /\ todo = {} /\ at = Len(ds)
  /\ DOMAIN target # {}
  /\ stage' = "order"
  /\ UNCHANGED <<ds, at, todo, target, place, from, order>>

(* `hoist_order`: at each place first the records bound for it, in the     *)
(* order of the stream, then its own record unless that has moved.         *)
Bound(k) == k \in DOMAIN target /\ target[k] = place

ListMoved ==
  /\ stage = "order" /\ place <= Len(ds)
  /\ \E k \in from .. Len(ds) :
       /\ Bound(k) /\ \A m \in from .. k - 1 : ~ Bound(m)
       /\ order' = Append(order, k) /\ from' = k + 1
  /\ UNCHANGED <<ds, stage, at, todo, target, place>>

ListOwn ==
  /\ stage = "order" /\ place <= Len(ds)
  /\ \A m \in from .. Len(ds) : ~ Bound(m)
  /\ order' = IF place \in DOMAIN target THEN order ELSE Append(order, place)
  /\ place' = place + 1 /\ from' = 1
  /\ UNCHANGED <<ds, stage, at, todo, target>>

Listed ==
  /\ stage = "order" /\ place > Len(ds)
  /\ stage' = "done"
  /\ UNCHANGED <<ds, at, todo, target, place, from, order>>

NextHoist ==
  \/ NextRecord \/ \E k \in todo : Close(k)
  \/ NoneMoves \/ SomeMove \/ ListMoved \/ ListOwn \/ Listed

SpecHoist == InitHoist /\ [][NextHoist]_hoistVars

-----------------------------------------------------------------------------
Earlier(x, y) == \E p, q \in DOMAIN order : p < q /\ order[p] = x /\ order[q] = y

(* The hoist lists every record once.  A record that references an earlier *)
(* one comes after it, unless that is the operation it was moved in front  *)
(* of; an operation that did not move itself comes after every ground of   *)
(* its certificate, wherever the stream had it; and a record is overtaken  *)
(* only by what the ground of an operation above is built from.            *)
(* hoist_targets, hoist_close, hoist_order.                                *)
EachOnce ==
  /\ Len(order) = Len(ds)
  /\ \A k \in DOMAIN ds : \E p \in DOMAIN order : order[p] = k
ReferencesFirst ==
  \A k \in DOMAIN ds : \A m \in Declarers(Uses(ds[k])) :
    m < k => Earlier(m, k) \/ (k \in DOMAIN target /\ target[k] = m)
GroundsAhead ==
  \A i \in DOMAIN ds \ DOMAIN target : \A j \in Declarers(Grounds(ds[i])) : j # i => Earlier(j, i)
Overtakes(y, x) ==
  /\ y \in DOMAIN target /\ target[y] <= x
  /\ \/ y \in Declarers(Grounds(ds[target[y]]))
     \/ \E k \in DOMAIN target : target[k] = target[y] /\ y \in Declarers(Uses(ds[k]))
OvertakenRightly ==
  \A x, y \in DOMAIN ds : x < y /\ Earlier(y, x) => Overtakes(y, x)

GroundsFirst ==
  stage = "done" => EachOnce /\ ReferencesFirst /\ GroundsAhead /\ OvertakenRightly
=============================================================================
