---------------------------- MODULE FoldProofs ----------------------------
(***************************************************************************)
(* The inductive invariant of the fold, and what follows from it: the      *)
(* lookups, the index, the views of the pending checks and the caches are  *)
(* right in every state, and the fold implements the one-pass checker,     *)
(* for every stream of well-formed declarations.  First what the operators *)
(* on the environment keep, one lemma for each: env.rs's pushes and pops,  *)
(* fenv.rs's restriction, promote.rs's re-index (`Exact` is what they      *)
(* keep).                                                                  *)
(***************************************************************************)
EXTENDS Fold, LeastNumber, SequenceTheorems

(* The environment after i declarations is one declaration more than the   *)
(* one after i - 1: the recursive function is well defined.                *)
LEMMA EnvUnfolds ==
  ASSUME NEW s, Len(s) \in Nat
  PROVE  /\ Spc!EnvAfter(s)[0] = Spc!Nothing
         /\ \A i \in 1 .. Len(s) : Spc!EnvAfter(s)[i] = Spc!After(Spc!EnvAfter(s)[i - 1], s[i])
<1> DEFINE n == Len(s)
           Sat(f, m) == f = [i \in 0 .. m |-> IF i = 0 THEN Spc!Nothing ELSE Spc!After(f[i - 1], s[i])]
<1>1. \A m \in Nat : \E f : Sat(f, m)
  <2> DEFINE T == {m \in Nat : ~ \E f : Sat(f, m)}
  <2> SUFFICES ASSUME T # {} PROVE FALSE
    OBVIOUS
  <2>1. PICK m \in T : \A k \in T : m <= k
    BY LeastOf
  <2>2. m \in Nat /\ m # 0
    <3> DEFINE f == [i \in 0 .. 0 |-> Spc!Nothing]
    <3>1. Sat(f, 0)
      OBVIOUS
    <3> QED
      BY <3>1
  <2>3. PICK f : Sat(f, m - 1)
    <3>1. m - 1 \in Nat /\ m - 1 \notin T
      BY <2>1, <2>2
    <3> QED
      BY <3>1
  <2> DEFINE g == [i \in 0 .. m |-> IF i = m THEN Spc!After(f[m - 1], s[m]) ELSE f[i]]
  <2>4. Sat(g, m)
    <3>1. \A i \in 0 .. m : g[i] = IF i = 0 THEN Spc!Nothing ELSE Spc!After(g[i - 1], s[i])
      BY <2>2, <2>3
    <3> QED
      BY <3>1
  <2> QED
    BY <2>4
<1>2. PICK f : Sat(f, n)
  BY <1>1
<1>3. Spc!EnvAfter(s) = CHOOSE e : Sat(e, n)
  BY DEF Spc!EnvAfter
<1>4. Sat(Spc!EnvAfter(s), n)
  BY <1>2, <1>3
<1> QED
  BY <1>4

(* Where a name occurs, its first and last occurrence are occurrences.     *)
LEMMA FirstAndLast ==
  ASSUME NEW s, Len(s) \in Nat, NEW n, Has(s, n)
  PROVE  /\ LastAt(s, n) \in 1 .. Len(s) /\ s[LastAt(s, n)] = n
         /\ FirstAt(s, n) \in 1 .. Len(s) /\ s[FirstAt(s, n)] = n
<1>1. PICK i \in 1 .. Len(s) : s[i] = n
  BY DEF Has
<1>2. \E l \in 1 .. Len(s) : s[l] = n /\ \A j \in l + 1 .. Len(s) : s[j] # n
  <2> DEFINE T == {Len(s) - k : k \in {m \in 1 .. Len(s) : s[m] = n}}
  <2>1. T \subseteq Nat /\ Len(s) - i \in T
    BY <1>1
  <2>2. PICK t \in T : \A k \in T : t <= k
    BY <2>1, LeastOf
  <2>3. PICK l \in 1 .. Len(s) : s[l] = n /\ t = Len(s) - l
    BY <2>2
  <2>4. ASSUME NEW j \in l + 1 .. Len(s), s[j] = n PROVE FALSE
    <3>1. Len(s) - j \in T /\ Len(s) - j < t /\ Len(s) - j \in Nat /\ t \in Nat
      BY <2>3, <2>4
    <3> HIDE DEF T
    <3>2. t <= Len(s) - j
      BY <2>2, <3>1
    <3> QED
      BY <3>1, <3>2
  <2> QED
    BY <2>3, <2>4
<1>3. \E l \in 1 .. Len(s) : s[l] = n /\ \A j \in 1 .. l - 1 : s[j] # n
  <2> DEFINE T == {m \in 1 .. Len(s) : s[m] = n}
  <2>1. T \subseteq Nat /\ i \in T
    BY <1>1
  <2>2. PICK t \in T : \A k \in T : t <= k
    BY <2>1, LeastOf
  <2>3. t \in 1 .. Len(s) /\ s[t] = n
    BY <2>2
  <2>4. ASSUME NEW j \in 1 .. t - 1, s[j] = n PROVE FALSE
    <3>1. j \in T /\ j < t
      BY <2>3, <2>4
    <3> QED
      BY <2>1, <2>2, <3>1
  <2> QED
    BY <2>3, <2>4
<1> QED
  BY <1>2, <1>3 DEF LastAt, FirstAt

-----------------------------------------------------------------------------
(* What a constant can be stored as, and the type of an environment.       *)
Info == {"Axiom", "Thm", "Defn", "Ind", "Ctor", "Bare", "Rec"}
FE ==
  [consts : Seq([name : Name, info : Info]), tables : Seq(Name), vis : Nat,
   idx : [Name -> {NoRow} \cup (Nat \X Nat)], tbls : [Name -> Nat]]

(* A name is stored, whatever the bound.                                   *)
Holds(f, n) == \E i \in 1 .. Len(f.consts) : f.consts[i].name = n

(* The environment and its index agree: each constant has its own counter  *)
(* and slot, no row is left of a name that is not stored, a table row      *)
(* stands for a table, and tables belong to stored names.                  *)
Exact(f) ==
  /\ f \in FE
  /\ \A i \in 1 .. Len(f.consts) : f.idx[f.consts[i].name] = <<i - 1, i>>
  /\ \A n \in Name : f.idx[n] # NoRow => Holds(f, n)
  /\ \A n \in Name : f.tbls[n] \in 0 .. Len(f.tables) /\ (f.tbls[n] # 0 <=> Has(f.tables, n))
  /\ \A n \in Name : Has(f.tables, n) => Holds(f, n)

(* A row is never the mark of a missing one.                               *)
LEMMA NoRowIsNone == \A a, b : <<a, b>> # NoRow
<1>1. \A a, b : DOMAIN <<a, b>> = {1, 2} /\ DOMAIN <<>> = {}
  OBVIOUS
<1> QED
  BY <1>1 DEF NoRow

(* The vectors of an exact environment are sequences of what they hold.    *)
LEMMA SlotTyped ==
  ASSUME NEW f, Exact(f)
  PROVE  /\ Len(f.consts) \in Nat /\ Len(f.tables) \in Nat
         /\ \A i \in 1 .. Len(f.consts) : f.consts[i] \in [name : Name, info : Info]
<1> DEFINE Slot == [name : Name, info : Info]
<1>1. f.consts \in Seq(Slot) /\ f.tables \in Seq(Name)
  BY DEF Exact, FE
<1> HIDE DEF Slot
<1>2. Len(f.consts) \in Nat /\ Len(f.tables) \in Nat
  BY <1>1
<1>3. \A i \in 1 .. Len(f.consts) : f.consts[i] \in Slot
  BY <1>1
<1> QED
  BY <1>2, <1>3 DEF Slot

(* A table row in range says the same as the name being in the table list. *)
LEMMA TableTells ==
  ASSUME NEW f, Exact(f), NEW n \in Name
  PROVE  f.tbls[n] \in 1 .. Len(f.tables) <=> Has(f.tables, n)
<1>1. f.tbls[n] \in 0 .. Len(f.tables) /\ (f.tbls[n] # 0 <=> Has(f.tables, n))
  BY DEF Exact
<1> QED
  BY <1>1, SlotTyped

(* A name that is not stored is not found under any bound (a stale row of  *)
(* it would be).                                                           *)
LEMMA ShowsAbsent ==
  ASSUME NEW f, Exact(f), NEW n \in Name, NEW v \in Nat, ~Holds(f, n)
  PROVE  ~Find(f, v, n) /\ ~FindTable(f, v, n) /\ Shows(f, v, n) = "Absent"
BY DEF Exact, Find, FindTable, Shows

(* A stored name is found below exactly the bounds past its slot, and      *)
(* shows what the slot holds.                                              *)
LEMMA ShowsSlot ==
  ASSUME NEW f, Exact(f), NEW i \in 1 .. Len(f.consts), NEW v \in Nat
  PROVE  LET n == f.consts[i].name IN
         /\ n \in Name /\ f.consts[i].info \in Info
         /\ Find(f, v, n) <=> i <= v
         /\ FindTable(f, v, n) <=> i <= v /\ Has(f.tables, n)
         /\ Shows(f, v, n) =
              IF i > v THEN "Absent"
              ELSE IF f.consts[i].info = "Ind" /\ Has(f.tables, n) THEN "Struct"
              ELSE f.consts[i].info
<1> DEFINE n == f.consts[i].name
<1>1. f.consts[i] \in [name : Name, info : Info] /\ Len(f.consts) \in Nat
  BY SlotTyped
<1>2. n \in Name /\ f.consts[i].info \in Info
  BY <1>1
<1>3. f.idx[n] = <<i - 1, i>>
  BY DEF Exact
<1>4. Find(f, v, n) <=> i <= v
  BY <1>1, <1>3, NoRowIsNone DEF Find
<1>5. FindTable(f, v, n) <=> i <= v /\ Has(f.tables, n)
  BY <1>2, <1>4, TableTells DEF FindTable
<1> QED
  BY <1>2, <1>3, <1>4, <1>5 DEF Shows

(* Being found is the same as not showing as absent, and a name that shows *)
(* as a former is stored as one.                                           *)
LEMMA ShowsTells ==
  ASSUME NEW f, Exact(f), NEW n \in Name, NEW v \in Nat
  PROVE  /\ Find(f, v, n) <=> Shows(f, v, n) # "Absent"
         /\ FindTable(f, v, n) => Shows(f, v, n) # "Absent"
         /\ v = Len(f.consts) => (Find(f, v, n) <=> Holds(f, n))
         /\ Shows(f, v, n) = "Ind" =>
              \E i \in 1 .. Len(f.consts) : f.consts[i] = [name |-> n, info |-> "Ind"]
<1>1. CASE ~Holds(f, n)
  BY <1>1, ShowsAbsent
<1>2. CASE Holds(f, n)
  <2>1. PICK i \in 1 .. Len(f.consts) : f.consts[i].name = n
    BY <1>2 DEF Holds
  <2>2. f.consts[i] \in [name : Name, info : Info] /\ Len(f.consts) \in Nat
    BY SlotTyped
  <2> QED
    BY <1>2, <2>1, <2>2, ShowsSlot DEF Info
<1> QED
  BY <1>1, <1>2

(* Restricting the index moves the bound and nothing else.                 *)
LEMMA RestrictKeeps ==
  ASSUME NEW f, Exact(f), NEW v \in Nat
  PROVE  /\ Exact(RestrictTo(f, v)) /\ RestrictTo(f, v).vis = v
         /\ RestrictTo(f, v).consts = f.consts /\ RestrictTo(f, v).tables = f.tables
         /\ \A w : View(RestrictTo(f, v), w) = View(f, w)
<1>1. f = [consts |-> f.consts, tables |-> f.tables, vis |-> f.vis, idx |-> f.idx, tbls |-> f.tbls]
  BY DEF Exact, FE
<1>2. RestrictTo(f, v) =
        [consts |-> f.consts, tables |-> f.tables, vis |-> v, idx |-> f.idx, tbls |-> f.tbls]
  BY <1>1 DEF RestrictTo
<1>3. Exact(RestrictTo(f, v))
  BY <1>2 DEF Exact, FE, Holds
<1> QED
  BY <1>2, <1>3 DEF View, Shows, Find, FindTable

-----------------------------------------------------------------------------
(* Where a push of distinct names puts the constants and their rows.       *)
LEMMA PushShape ==
  ASSUME NEW f, Exact(f), f.vis = Len(f.consts), NEW ns \in Seq(Name), NEW info \in Info,
         Spc!Distinct(ns)
  PROVE  LET g == Push(f, ns, info) IN
         /\ g \in FE /\ g.tables = f.tables /\ g.tbls = f.tbls
         /\ Len(g.consts) = Len(f.consts) + Len(ns) /\ g.vis = Len(g.consts)
         /\ \A i \in 1 .. Len(f.consts) : g.consts[i] = f.consts[i]
         /\ \A i \in 1 .. Len(ns) :
              /\ g.consts[Len(f.consts) + i] = [name |-> ns[i], info |-> info]
              /\ g.idx[ns[i]] = <<Len(f.consts) + i - 1, Len(f.consts) + i>>
         /\ \A n \in Name : ~Has(ns, n) => g.idx[n] = f.idx[n]
<1> DEFINE Slot == [name : Name, info : Info]
           c == Len(f.consts)
           new == [i \in 1 .. Len(ns) |-> [name |-> ns[i], info |-> info]]
           idx == [n \in Name |-> IF Has(ns, n)
                                  THEN <<c + LastAt(ns, n) - 1, c + LastAt(ns, n)>>
                                  ELSE f.idx[n]]
<1>1. f = [consts |-> f.consts, tables |-> f.tables, vis |-> f.vis, idx |-> f.idx, tbls |-> f.tbls]
  BY DEF Exact, FE
<1>2. Push(f, ns, info) =
        [consts |-> f.consts \o new, tables |-> f.tables, vis |-> f.vis + Len(ns),
         idx |-> idx, tbls |-> f.tbls]
  <2>1. Push(f, ns, info) =
          [f EXCEPT !.consts = f.consts \o new, !.idx = idx, !.vis = f.vis + Len(ns)]
    BY <1>1 DEF Push
  <2> HIDE DEF new, idx
  <2> QED
    BY <2>1, <1>1
<1>3. /\ f.consts \in Seq(Slot) /\ f.tables \in Seq(Name) /\ f.vis \in Nat
      /\ f.idx \in [Name -> {NoRow} \cup (Nat \X Nat)] /\ f.tbls \in [Name -> Nat]
  BY DEF Exact, FE
<1>4. new \in Seq(Slot) /\ Len(new) = Len(ns) /\ Len(ns) \in Nat
      /\ \A i \in 1 .. Len(ns) : new[i] = [name |-> ns[i], info |-> info]
  OBVIOUS
<1>5. c \in Nat
  BY SlotTyped
<1>6. /\ f.consts \o new \in Seq(Slot) /\ Len(f.consts \o new) = c + Len(ns)
      /\ \A i \in 1 .. c : (f.consts \o new)[i] = f.consts[i]
      /\ \A i \in 1 .. Len(ns) : (f.consts \o new)[c + i] = new[i]
  <2> HIDE DEF Slot, new
  <2>1. f.consts \o new \in Seq(Slot)
    BY <1>3, <1>4
  <2>4. Len(f.consts \o new) = c + Len(ns)
    <3>1. Len(f.consts \o new) = Len(f.consts) + Len(new)
      BY <1>3, <1>4, ConcatProperties
    <3> QED
      BY <3>1, <1>4
  <2>2. \A i \in 1 .. c : (f.consts \o new)[i] = f.consts[i]
    BY <1>3, <1>4, <1>5
  <2>3. ASSUME NEW i \in 1 .. Len(ns) PROVE (f.consts \o new)[c + i] = new[i]
    <3>1. c + i \in 1 .. Len(f.consts) + Len(new) /\ ~ (c + i <= Len(f.consts)) /\ (c + i) - Len(f.consts) = i
      BY <1>4, <1>5
    <3> QED
      BY <1>3, <1>4, <1>5, <3>1
  <2> QED
    BY <2>1, <2>2, <2>3, <2>4
<1>7. \A i \in 1 .. Len(ns) : ns[i] \in Name /\ Has(ns, ns[i]) /\ LastAt(ns, ns[i]) = i
  <2> SUFFICES ASSUME NEW i \in 1 .. Len(ns)
               PROVE  ns[i] \in Name /\ Has(ns, ns[i]) /\ LastAt(ns, ns[i]) = i
    OBVIOUS
  <2>1. Has(ns, ns[i])
    BY DEF Has
  <2>2. LastAt(ns, ns[i]) \in 1 .. Len(ns) /\ ns[LastAt(ns, ns[i])] = ns[i]
    BY <2>1, <1>4, FirstAndLast
  <2> QED
    BY <2>1, <2>2 DEF Spc!Distinct
<1>8. idx \in [Name -> {NoRow} \cup (Nat \X Nat)]
  <2>1. \A n \in Name : Has(ns, n) => LastAt(ns, n) \in 1 .. Len(ns)
    BY <1>4, FirstAndLast
  <2>2. \A n \in Name : Has(ns, n) => c + LastAt(ns, n) - 1 \in Nat /\ c + LastAt(ns, n) \in Nat
    BY <2>1, <1>5, <1>4
  <2> QED
    BY <2>2, <1>3
<1>9. f.vis + Len(ns) \in Nat
  BY <1>3, <1>4
<1>10. Push(f, ns, info) \in FE
  <2> HIDE DEF idx, new
  <2> QED
    BY <1>2, <1>3, <1>6, <1>8, <1>9 DEF FE
<1>11. \A i \in 1 .. Len(ns) : idx[ns[i]] = <<c + i - 1, c + i>>
  BY <1>7
<1>12. \A n \in Name : ~Has(ns, n) => idx[n] = f.idx[n]
  OBVIOUS
<1> HIDE DEF idx, new, Slot
<1> QED
  BY <1>2, <1>4, <1>6, <1>10, <1>11, <1>12

(* Pushing names that are not stored keeps the index exact, shows them at  *)
(* the new bound and nothing of them at any bound up to the old one.       *)
LEMMA PushKeeps ==
  ASSUME NEW f, Exact(f), f.vis = Len(f.consts), NEW ns \in Seq(Name), NEW info \in Info,
         Spc!Distinct(ns), \A n \in Spc!Range1(ns) : ~Holds(f, n)
  PROVE  LET g == Push(f, ns, info) IN
         /\ Exact(g) /\ g.vis = Len(g.consts) /\ g.tables = f.tables
         /\ Len(g.consts) = Len(f.consts) + Len(ns)
         /\ View(g, g.vis) = Spc!With(View(f, f.vis), Spc!Range1(ns), info)
         /\ \A v \in 0 .. f.vis : View(g, v) = View(f, v)
<1> DEFINE g == Push(f, ns, info)
           c == Len(f.consts)
<1>1. /\ g \in FE /\ g.tables = f.tables /\ g.tbls = f.tbls
      /\ Len(g.consts) = c + Len(ns) /\ g.vis = Len(g.consts)
      /\ \A i \in 1 .. c : g.consts[i] = f.consts[i]
      /\ \A i \in 1 .. Len(ns) :
           /\ g.consts[c + i] = [name |-> ns[i], info |-> info]
           /\ g.idx[ns[i]] = <<c + i - 1, c + i>>
      /\ \A n \in Name : ~Has(ns, n) => g.idx[n] = f.idx[n]
  BY PushShape
<1> HIDE DEF g
<1>2. c \in Nat /\ Len(ns) \in Nat /\ \A i \in 1 .. Len(ns) : ns[i] \in Name
  BY SlotTyped
<1>3. \A n : Has(ns, n) <=> n \in Spc!Range1(ns)
  BY DEF Has, Spc!Range1
<1>4. \A i \in 1 .. Len(g.consts) : i \in 1 .. c \/ (i - c \in 1 .. Len(ns) /\ i = c + (i - c))
  BY <1>1, <1>2
<1>5. \A i \in 1 .. c : f.consts[i].name \in Name /\ ~Has(ns, f.consts[i].name)
  BY <1>3, SlotTyped DEF Holds
<1>6. \A n \in Name : Holds(g, n) <=> Holds(f, n) \/ Has(ns, n)
  <2>1. ASSUME NEW n \in Name, Holds(g, n) PROVE Holds(f, n) \/ Has(ns, n)
    <3>1. PICK i \in 1 .. Len(g.consts) : g.consts[i].name = n
      BY <2>1 DEF Holds
    <3>2. CASE i \in 1 .. c
      BY <3>1, <3>2, <1>1 DEF Holds
    <3>3. CASE i - c \in 1 .. Len(ns) /\ i = c + (i - c)
      <4>1. g.consts[c + (i - c)] = [name |-> ns[i - c], info |-> info]
        BY <3>3, <1>1
      <4> QED
        BY <3>1, <3>3, <4>1 DEF Has
    <3> QED
      BY <3>1, <3>2, <3>3, <1>4
  <2>2. ASSUME NEW n \in Name, Holds(f, n) PROVE Holds(g, n)
    <3>1. PICK i \in 1 .. c : f.consts[i].name = n
      BY <2>2 DEF Holds
    <3>2. i \in 1 .. Len(g.consts) /\ g.consts[i].name = n
      BY <3>1, <1>1, <1>2
    <3> QED
      BY <3>2 DEF Holds
  <2>3. ASSUME NEW n \in Name, Has(ns, n) PROVE Holds(g, n)
    <3>1. PICK i \in 1 .. Len(ns) : ns[i] = n
      BY <2>3 DEF Has
    <3>2. c + i \in 1 .. Len(g.consts)
      BY <1>1, <1>2
    <3>3. g.consts[c + i] = [name |-> n, info |-> info]
      BY <3>1, <1>1
    <3> QED
      BY <3>2, <3>3 DEF Holds
  <2> QED
    BY <2>1, <2>2, <2>3
<1>7. Exact(g)
  <2>1. ASSUME NEW i \in 1 .. Len(g.consts) PROVE g.idx[g.consts[i].name] = <<i - 1, i>>
    <3>1. CASE i \in 1 .. c
      <4>1. f.idx[f.consts[i].name] = <<i - 1, i>>
        BY <3>1 DEF Exact
      <4> QED
        BY <3>1, <4>1, <1>1, <1>5
    <3>2. CASE i - c \in 1 .. Len(ns) /\ i = c + (i - c)
      <4>1. /\ g.consts[c + (i - c)] = [name |-> ns[i - c], info |-> info]
            /\ g.idx[ns[i - c]] = <<c + (i - c) - 1, c + (i - c)>>
        BY <3>2, <1>1
      <4>2. g.consts[i].name = ns[i - c] /\ g.idx[ns[i - c]] = <<i - 1, i>>
        BY <3>2, <4>1
      <4> QED
        BY <4>2
    <3> QED
      BY <3>1, <3>2, <1>4
  <2>2. ASSUME NEW n \in Name, g.idx[n] # NoRow PROVE Holds(g, n)
    <3>1. CASE Has(ns, n)
      BY <3>1, <1>6
    <3>2. CASE ~Has(ns, n)
      <4>1. f.idx[n] # NoRow
        BY <3>2, <2>2, <1>1
      <4>2. Holds(f, n)
        BY <4>1 DEF Exact
      <4> QED
        BY <4>2, <1>6
    <3> QED
      BY <3>1, <3>2
  <2>3. \A n \in Name :
          /\ g.tbls[n] \in 0 .. Len(g.tables) /\ (g.tbls[n] # 0 <=> Has(g.tables, n))
          /\ Has(g.tables, n) => Holds(g, n)
    BY <1>1, <1>6 DEF Exact
  <2> QED
    BY <1>1, <2>1, <2>2, <2>3 DEF Exact
<1>8. ASSUME NEW v \in Nat, NEW n \in Name
      PROVE  Shows(g, v, n) = IF v <= c \/ ~Has(ns, n) THEN Shows(f, v, n)
                              ELSE Shows(g, v, n)
  <2>1. CASE Has(ns, n) /\ v <= c
    <3>1. PICK i \in 1 .. Len(ns) : ns[i] = n
      BY <2>1 DEF Has
    <3>2. c + i \in 1 .. Len(g.consts) /\ c + i > v
      BY <2>1, <1>1, <1>2
    <3>5. g.consts[c + i] = [name |-> n, info |-> info]
      BY <3>1, <1>1
    <3>3. Shows(g, v, n) = "Absent"
      BY <3>2, <3>5, <1>7, ShowsSlot
    <3>4. ~Holds(f, n)
      BY <2>1, <1>3
    <3> QED
      BY <2>1, <3>3, <3>4, ShowsAbsent
  <2>2. CASE ~Has(ns, n)
    <3>1. CASE Holds(f, n)
      <4>1. PICK i \in 1 .. c : f.consts[i].name = n
        BY <3>1 DEF Holds
      <4>2. i \in 1 .. Len(g.consts) /\ g.consts[i] = f.consts[i]
        BY <4>1, <1>1, <1>2
      <4> QED
        BY SMTT(30), <2>2, <4>1, <4>2, <1>1, <1>7, ShowsSlot
    <3>2. CASE ~Holds(f, n)
      <4>1. ~Holds(g, n)
        BY <2>2, <3>2, <1>6
      <4> QED
        BY <2>2, <3>2, <4>1, <1>7, ShowsAbsent
    <3> QED
      BY <3>1, <3>2
  <2> QED
    BY <2>1, <2>2
<1>9. \A v \in 0 .. f.vis : View(g, v) = View(f, v)
  BY <1>2, <1>8 DEF View
<1>10. ASSUME NEW n \in Name
       PROVE  Shows(g, g.vis, n) = IF n \in Spc!Range1(ns) THEN info ELSE Shows(f, f.vis, n)
  <2>1. CASE Has(ns, n)
    <3>1. PICK i \in 1 .. Len(ns) : ns[i] = n
      BY <2>1 DEF Has
    <3>2. c + i \in 1 .. Len(g.consts) /\ g.consts[c + i] = [name |-> n, info |-> info]
          /\ ~ (c + i > g.vis) /\ g.vis \in Nat
      BY SMTT(30), <3>1, <1>1, <1>2
    <3>3. ~Has(g.tables, n)
      BY <2>1, <1>1, <1>3 DEF Exact
    <3>4. Shows(g, g.vis, n) = info
      BY <3>2, <3>3, <1>7, ShowsSlot
    <3> QED
      BY <2>1, <3>4, <1>3
  <2>2. CASE ~Has(ns, n)
    <3>1. Shows(g, g.vis, n) = Shows(f, g.vis, n)
      BY <2>2, <1>1, <1>2, <1>8
    <3>2. Shows(f, g.vis, n) = Shows(f, f.vis, n)
      <4>1. CASE Holds(f, n)
        <5>1. PICK i \in 1 .. c : f.consts[i].name = n
          BY <4>1 DEF Holds
        <5> QED
          BY <5>1, <1>1, <1>2, ShowsSlot
      <4>2. CASE ~Holds(f, n)
        BY <4>2, <1>1, <1>2, ShowsAbsent
      <4> QED
        BY <4>1, <4>2
    <3> QED
      BY <2>2, <3>1, <3>2, <1>3
  <2> QED
    BY <2>1, <2>2
<1>11. View(g, g.vis) = Spc!With(View(f, f.vis), Spc!Range1(ns), info)
  BY <1>10 DEF View, Spc!With
<1> QED
  BY <1>1, <1>7, <1>9, <1>11 DEF g

(* Popping what was pushed for a time gives back the environment of        *)
(* before, every row included, whether or not a pushed name displaced one. *)
LEMMA PopPush ==
  ASSUME NEW f, Exact(f), f.vis = Len(f.consts), NEW ns \in Seq(Name), NEW info \in Info,
         Spc!Distinct(ns)
  PROVE  PopTemp(Push(f, ns, info), ns, f.idx) = f
<1> DEFINE g == Push(f, ns, info)
           c == Len(f.consts)
           idx == [n \in Name |-> IF Has(ns, n) THEN f.idx[n] ELSE g.idx[n]]
           Slot == [name : Name, info : Info]
<1>1. /\ g \in FE /\ g.tables = f.tables /\ g.tbls = f.tbls
      /\ Len(g.consts) = c + Len(ns) /\ g.vis = Len(g.consts)
      /\ \A i \in 1 .. c : g.consts[i] = f.consts[i]
      /\ \A n \in Name : ~Has(ns, n) => g.idx[n] = f.idx[n]
  BY PushShape
<1> HIDE DEF g
<1>2. g = [consts |-> g.consts, tables |-> g.tables, vis |-> g.vis, idx |-> g.idx, tbls |-> g.tbls]
  BY <1>1 DEF FE
<1>3. f = [consts |-> f.consts, tables |-> f.tables, vis |-> f.vis, idx |-> f.idx, tbls |-> f.tbls]
      /\ f.consts \in Seq(Slot) /\ f.idx \in [Name -> {NoRow} \cup (Nat \X Nat)]
  BY DEF Exact, FE
<1>4. PopTemp(g, ns, f.idx) =
        [consts |-> SubSeq(g.consts, 1, Len(g.consts) - Len(ns)), tables |-> g.tables,
         vis |-> g.vis - Len(ns), idx |-> idx, tbls |-> g.tbls]
  <2>1. PopTemp(g, ns, f.idx) =
          [g EXCEPT !.consts = SubSeq(g.consts, 1, Len(g.consts) - Len(ns)),
                    !.idx = idx, !.vis = g.vis - Len(ns)]
    BY <1>2 DEF PopTemp
  <2> HIDE DEF idx
  <2> QED
    BY <2>1, <1>2
<1>5. c \in Nat /\ Len(ns) \in Nat
  BY SlotTyped
<1>6. Len(g.consts) - Len(ns) = c /\ g.vis - Len(ns) = f.vis
  BY <1>1, <1>5
<1>7. SubSeq(g.consts, 1, c) = f.consts
  <2> HIDE DEF Slot
  <2>1. \A i \in 1 .. c : g.consts[i] \in Slot
    BY <1>1, <1>3
  <2>2. /\ SubSeq(g.consts, 1, c) \in Seq(Slot)
        /\ Len(SubSeq(g.consts, 1, c)) = IF 1 <= c THEN c - 1 + 1 ELSE 0
        /\ \A i \in 1 .. c - 1 + 1 : SubSeq(g.consts, 1, c)[i] = g.consts[1 + i - 1]
    BY <2>1, <1>5, SubSeqProperties
  <2>3. Len(SubSeq(g.consts, 1, c)) = c
        /\ \A i \in 1 .. c : SubSeq(g.consts, 1, c)[i] = f.consts[i]
    BY <2>2, <1>1, <1>5
  <2> QED
    BY <2>2, <2>3, <1>3, SeqEqual
<1>8. idx = f.idx
  BY <1>1, <1>3
<1> QED
  BY <1>1, <1>3, <1>4, <1>6, <1>7, <1>8 DEF g

(* A name of the block keeps its slot; what it shows becomes a structure.  *)
LEMMA PushTablesKeeps ==
  ASSUME NEW f, Exact(f), NEW ns \in Seq(Name),
         \A n \in Spc!Range1(ns) :
           \E i \in 1 .. Len(f.consts) : f.consts[i] = [name |-> n, info |-> "Ind"]
  PROVE  LET g == PushTables(f, ns) IN
         /\ Exact(g) /\ g.consts = f.consts /\ g.vis = f.vis
         /\ Len(g.tables) = Len(f.tables) + Len(ns)
         /\ \A v \in Nat, n \in Name :
              Shows(g, v, n) = IF n \in Spc!Range1(ns) /\ Find(f, v, n) THEN "Struct"
                               ELSE Shows(f, v, n)
<1> DEFINE g == PushTables(f, ns)
           k == Len(f.tables)
           tbls == [n \in Name |-> IF Has(ns, n) THEN k + LastAt(ns, n) ELSE f.tbls[n]]
<1>1. f = [consts |-> f.consts, tables |-> f.tables, vis |-> f.vis, idx |-> f.idx, tbls |-> f.tbls]
      /\ f.consts \in Seq([name : Name, info : Info]) /\ f.tables \in Seq(Name) /\ f.vis \in Nat
      /\ f.idx \in [Name -> {NoRow} \cup (Nat \X Nat)] /\ f.tbls \in [Name -> Nat]
  BY DEF Exact, FE
<1>2. g = [consts |-> f.consts, tables |-> f.tables \o ns, vis |-> f.vis, idx |-> f.idx, tbls |-> tbls]
  <2>1. g = [f EXCEPT !.tables = f.tables \o ns, !.tbls = tbls]
    BY <1>1 DEF PushTables
  <2> HIDE DEF g, tbls
  <2> QED
    BY <2>1, <1>1
<1> HIDE DEF g
<1>3. k \in Nat /\ Len(ns) \in Nat
  BY SlotTyped
<1>4. /\ f.tables \o ns \in Seq(Name) /\ Len(f.tables \o ns) = k + Len(ns)
      /\ \A i \in 1 .. k + Len(ns) :
           (f.tables \o ns)[i] = IF i <= k THEN f.tables[i] ELSE ns[i - k]
  BY <1>1, ConcatProperties
<1>5. \A n : Has(g.tables, n) <=> Has(f.tables, n) \/ Has(ns, n)
  <2>1. ASSUME NEW n, Has(g.tables, n) PROVE Has(f.tables, n) \/ Has(ns, n)
    <3>1. PICK i \in 1 .. k + Len(ns) : (f.tables \o ns)[i] = n
      BY <2>1, <1>2, <1>4 DEF Has
    <3>2. CASE i <= k
      BY <3>1, <3>2, <1>3, <1>4 DEF Has
    <3>3. CASE i > k
      <4>1. i - k \in 1 .. Len(ns) /\ ns[i - k] = n
        BY <3>1, <3>3, <1>3, <1>4
      <4> QED
        BY <4>1 DEF Has
    <3> QED
      BY <3>2, <3>3, <1>3
  <2>2. ASSUME NEW n, Has(f.tables, n) PROVE Has(g.tables, n)
    <3>1. PICK i \in 1 .. k : f.tables[i] = n
      BY <2>2 DEF Has
    <3>2. i \in 1 .. k + Len(ns) /\ (f.tables \o ns)[i] = n
      BY <3>1, <1>3, <1>4
    <3> QED
      BY <3>2, <1>2, <1>4 DEF Has
  <2>3. ASSUME NEW n, Has(ns, n) PROVE Has(g.tables, n)
    <3>1. PICK i \in 1 .. Len(ns) : ns[i] = n
      BY <2>3 DEF Has
    <3>2. k + i \in 1 .. k + Len(ns) /\ ~ (k + i <= k) /\ (k + i) - k = i
      BY <1>3
    <3>3. (f.tables \o ns)[k + i] = n
      BY <3>1, <3>2, <1>4
    <3> QED
      BY <3>2, <3>3, <1>2, <1>4 DEF Has
  <2> QED
    BY <2>1, <2>2, <2>3
<1>6. \A n : Has(ns, n) <=> n \in Spc!Range1(ns)
  BY DEF Has, Spc!Range1
<1>7. \A n \in Name : Has(ns, n) => LastAt(ns, n) \in 1 .. Len(ns)
  BY <1>3, FirstAndLast
<1>8. g \in FE
  <2>1. tbls \in [Name -> Nat]
    BY <1>1, <1>3, <1>7
  <2> HIDE DEF tbls
  <2> QED
    BY <2>1, <1>1, <1>2, <1>4 DEF FE
<1>9. ASSUME NEW n \in Name
      PROVE  g.tbls[n] \in 0 .. Len(g.tables) /\ (g.tbls[n] # 0 <=> Has(g.tables, n))
  <2>1. CASE Has(ns, n)
    <3>1. g.tbls[n] = k + LastAt(ns, n)
      BY <2>1, <1>2
    <3> QED
      BY <2>1, <3>1, <1>2, <1>3, <1>4, <1>5, <1>7
  <2>2. CASE ~Has(ns, n)
    <3>1. g.tbls[n] = f.tbls[n]
      BY <2>2, <1>2
    <3>2. f.tbls[n] \in 0 .. k /\ (f.tbls[n] # 0 <=> Has(f.tables, n))
      BY DEF Exact
    <3> QED
      BY <2>2, <3>1, <3>2, <1>2, <1>3, <1>4, <1>5
  <2> QED
    BY <2>1, <2>2
<1>10. ASSUME NEW n \in Name, Has(g.tables, n) PROVE Holds(g, n)
  <2>1. Holds(f, n)
    <3>1. CASE Has(f.tables, n)
      BY <3>1 DEF Exact
    <3>2. CASE n \in Spc!Range1(ns)
      <4>1. PICK i \in 1 .. Len(f.consts) : f.consts[i] = [name |-> n, info |-> "Ind"]
        BY <3>2
      <4> QED
        BY <4>1 DEF Holds
    <3> QED
      BY <3>1, <3>2, <1>5, <1>6, <1>10
  <2> QED
    BY <2>1, <1>2 DEF Holds
<1>11. Exact(g)
  <2>1. /\ \A i \in 1 .. Len(g.consts) : g.idx[g.consts[i].name] = <<i - 1, i>>
        /\ \A n \in Name : g.idx[n] # NoRow => Holds(g, n)
    BY <1>2 DEF Exact, Holds
  <2> QED
    BY <1>8, <1>9, <1>10, <2>1 DEF Exact
<1>12. ASSUME NEW v \in Nat, NEW n \in Name
       PROVE  Shows(g, v, n) = IF n \in Spc!Range1(ns) /\ Find(f, v, n) THEN "Struct"
                               ELSE Shows(f, v, n)
  <2>1. CASE ~Holds(f, n)
    <3>1. ~Holds(g, n)
      BY <2>1, <1>2 DEF Holds
    <3> QED
      BY <2>1, <3>1, <1>11, ShowsAbsent
  <2>2. CASE Holds(f, n) /\ n \notin Spc!Range1(ns)
    <3>1. PICK i \in 1 .. Len(f.consts) : f.consts[i].name = n
      BY <2>2 DEF Holds
    <3>2. g.consts = f.consts /\ (Has(g.tables, n) <=> Has(f.tables, n))
      BY <2>2, <1>2, <1>5, <1>6
    <3> QED
      BY <2>2, <3>1, <3>2, <1>11, ShowsSlot
  <2>3. CASE n \in Spc!Range1(ns)
    <3>1. PICK i \in 1 .. Len(f.consts) : f.consts[i] = [name |-> n, info |-> "Ind"]
      BY <2>3
    <3>2. g.consts = f.consts /\ Has(g.tables, n)
      BY <2>3, <1>2, <1>5, <1>6
    <3>3. Shows(g, v, n) = IF i > v THEN "Absent" ELSE "Struct"
      BY <3>1, <3>2, <1>11, ShowsSlot
    <3>4. (Find(f, v, n) <=> i <= v) /\ (i > v => Shows(f, v, n) = "Absent")
      BY <3>1, ShowsSlot
    <3> QED
      BY <2>3, <3>3, <3>4, SlotTyped
  <2> QED
    BY <2>1, <2>2, <2>3
<1>13. g.consts = f.consts /\ g.vis = f.vis /\ Len(g.tables) = k + Len(ns)
  BY <1>2, <1>4
<1> QED
  BY <1>11, <1>12, <1>13 DEF g

(* Erasing the rows a step installed and writing them anew puts them back. *)
LEMMA ReindexKeeps ==
  ASSUME NEW f, Exact(f), f.vis = Len(f.consts), NEW m,
         m.vis \in 0 .. f.vis, m.tables \in 0 .. Len(f.tables)
  PROVE  LET g == Reindexed(f, m) IN
         /\ Exact(g) /\ g.consts = f.consts /\ g.vis = f.vis /\ g.tables = f.tables
         /\ \A v \in Nat : View(g, v) = View(f, v)
<1> DEFINE g == Reindexed(f, m)
           k == f.vis - m.vis
           new == [i \in 1 .. k |-> f.consts[Len(f.consts) - k + i].name]
           newT == SubSeq(f.tables, m.tables + 1, Len(f.tables))
           idx == [n \in Name |-> IF Has(new, n)
                     THEN <<m.vis + FirstAt(new, n) - 1, Len(f.consts) - k + FirstAt(new, n)>>
                     ELSE f.idx[n]]
           tbls == [n \in Name |-> IF Has(newT, n) THEN m.tables + LastAt(newT, n) ELSE f.tbls[n]]
<1>1. f = [consts |-> f.consts, tables |-> f.tables, vis |-> f.vis, idx |-> f.idx, tbls |-> f.tbls]
      /\ f.consts \in Seq([name : Name, info : Info]) /\ f.tables \in Seq(Name) /\ f.vis \in Nat
      /\ f.idx \in [Name -> {NoRow} \cup (Nat \X Nat)] /\ f.tbls \in [Name -> Nat]
  BY DEF Exact, FE
<1>2. g = [consts |-> f.consts, tables |-> f.tables, vis |-> f.vis, idx |-> idx, tbls |-> tbls]
  <2>1. g = [f EXCEPT !.idx = idx, !.tbls = tbls]
    BY <1>1 DEF Reindexed
  <2> HIDE DEF g, idx, tbls
  <2> QED
    BY <2>1, <1>1
<1> HIDE DEF g
<1>3. Len(f.consts) \in Nat /\ Len(f.tables) \in Nat /\ k \in Nat /\ m.vis \in Nat
      /\ Len(f.consts) - k = m.vis /\ m.tables \in Nat
  BY SlotTyped
<1>4. Len(new) = k /\ Len(new) \in Nat /\ \A i \in 1 .. k : new[i] = f.consts[m.vis + i].name
  BY <1>3
<1>5. idx = f.idx
  <2>1. ASSUME NEW n \in Name, Has(new, n) PROVE idx[n] = f.idx[n]
    <3> DEFINE j == FirstAt(new, n)
    <3>1. j \in 1 .. k /\ new[j] = n
      BY <2>1, <1>4, FirstAndLast
    <3> HIDE DEF j
    <3>2. m.vis + j \in 1 .. Len(f.consts) /\ f.consts[m.vis + j].name = n
      BY <3>1, <1>3, <1>4
    <3>3. f.idx[n] = <<m.vis + j - 1, m.vis + j>>
      <4>1. PICK i \in 1 .. Len(f.consts) : f.consts[i].name = n /\ i = m.vis + j
        BY <3>2
      <4>2. f.idx[f.consts[i].name] = <<i - 1, i>>
        BY DEF Exact
      <4>3. f.idx[n] = <<i - 1, i>>
        BY <4>1, <4>2
      <4>4. i - 1 = m.vis + j - 1
        BY <4>1, <3>1, <1>3
      <4> QED
        BY <4>1, <4>3, <4>4
    <3>4. idx[n] = <<m.vis + j - 1, Len(f.consts) - k + j>>
      BY <2>1 DEF j
    <3> QED
      BY <3>3, <3>4, <1>3
  <2>2. \A n \in Name : ~Has(new, n) => idx[n] = f.idx[n]
    OBVIOUS
  <2>3. idx = [n \in Name |-> idx[n]]
    OBVIOUS
  <2> HIDE DEF idx
  <2> QED
    BY <2>1, <2>2, <2>3, <1>1
<1>6. \A n \in Name : Has(newT, n) =>
        /\ Has(f.tables, n) /\ m.tables + LastAt(newT, n) \in 1 .. Len(f.tables)
  <2> SUFFICES ASSUME NEW n \in Name, Has(newT, n)
               PROVE  Has(f.tables, n) /\ m.tables + LastAt(newT, n) \in 1 .. Len(f.tables)
    OBVIOUS
  <2>1. \A i \in m.tables + 1 .. Len(f.tables) : f.tables[i] \in Name
    BY <1>1, <1>3
  <2>2. /\ newT \in Seq(Name)
        /\ Len(newT) = IF m.tables + 1 <= Len(f.tables) THEN Len(f.tables) - (m.tables + 1) + 1 ELSE 0
        /\ \A i \in 1 .. Len(f.tables) - (m.tables + 1) + 1 : newT[i] = f.tables[m.tables + 1 + i - 1]
    BY SMTT(30), <2>1, <1>3, SubSeqProperties
  <2> HIDE DEF newT
  <2>3. Len(newT) = Len(f.tables) - m.tables
    BY SMTT(30), <2>2, <1>3
  <2> DEFINE j == LastAt(newT, n)
  <2>4. j \in 1 .. Len(newT) /\ newT[j] = n
    BY <2>3, <1>3, FirstAndLast
  <2> HIDE DEF j
  <2>5. m.tables + j \in 1 .. Len(f.tables) /\ newT[j] = f.tables[m.tables + j]
    <3>1. /\ j \in 1 .. Len(f.tables) - (m.tables + 1) + 1
          /\ m.tables + 1 + j - 1 = m.tables + j /\ m.tables + j \in 1 .. Len(f.tables)
      <4>1. Len(f.tables) \in Nat /\ m.tables \in Nat
        BY <1>3
      <4>2. j \in 1 .. Len(f.tables) - m.tables
        BY <2>3, <2>4
      <4> QED
        BY SMTT(30), <4>1, <4>2
    <3>2. newT[j] = f.tables[m.tables + 1 + j - 1]
      BY <2>2, <3>1
    <3> QED
      BY <3>1, <3>2
  <2> QED
    BY <2>4, <2>5 DEF Has, j
<1>7. tbls \in [Name -> Nat]
      /\ \A n \in Name : tbls[n] \in 0 .. Len(f.tables) /\ (tbls[n] # 0 <=> Has(f.tables, n))
  <2>1. \A n \in Name : Has(newT, n) => tbls[n] \in 1 .. Len(f.tables) /\ Has(f.tables, n)
    BY <1>6
  <2>2. \A n \in Name : ~Has(newT, n) => tbls[n] = f.tbls[n]
    OBVIOUS
  <2>3. ASSUME NEW n \in Name
        PROVE  tbls[n] \in Nat /\ tbls[n] \in 0 .. Len(f.tables) /\ (tbls[n] # 0 <=> Has(f.tables, n))
    <3>1. CASE Has(newT, n)
      <4> HIDE DEF tbls, newT
      <4> QED
        BY <3>1, <2>1, <1>3
    <3>2. CASE ~Has(newT, n)
      <4>1. f.tbls[n] \in 0 .. Len(f.tables) /\ (f.tbls[n] # 0 <=> Has(f.tables, n))
        BY DEF Exact
      <4> HIDE DEF tbls, newT
      <4> QED
        BY <3>2, <4>1, <2>2, <1>3
    <3> QED
      BY <3>1, <3>2
  <2>4. tbls = [n \in Name |-> tbls[n]]
    OBVIOUS
  <2> HIDE DEF tbls, newT
  <2> QED
    BY <2>3, <2>4
<1> HIDE DEF tbls, idx, newT, new
<1>8. Exact(g)
  <2>1. g \in FE
    BY <1>1, <1>2, <1>5, <1>7 DEF FE
  <2>2. /\ \A i \in 1 .. Len(g.consts) : g.idx[g.consts[i].name] = <<i - 1, i>>
        /\ \A n \in Name : g.idx[n] # NoRow => Holds(g, n)
        /\ \A n \in Name : Has(g.tables, n) => Holds(g, n)
    BY <1>2, <1>5 DEF Exact, Holds
  <2> QED
    BY <2>1, <2>2, <1>2, <1>7 DEF Exact
<1>9. ASSUME NEW v \in Nat, NEW n \in Name PROVE Shows(g, v, n) = Shows(f, v, n)
  <2>1. Find(g, v, n) <=> Find(f, v, n)
    BY <1>2, <1>5 DEF Find
  <2>2. FindTable(g, v, n) <=> FindTable(f, v, n)
    <3>1. g.tbls[n] \in 1 .. Len(g.tables) <=> f.tbls[n] \in 1 .. Len(f.tables)
      BY <1>2, <1>8, TableTells
    <3> QED
      BY <2>1, <3>1 DEF FindTable
  <2> QED
    BY <2>1, <2>2, <1>2, <1>5 DEF Shows
<1> QED
  BY <1>2, <1>8, <1>9 DEF View, g

-----------------------------------------------------------------------------
(* The environment the declarations installed so far have left.            *)
Env == Spc!EnvAfter(stream)[pos]
(* Phase A is inside a step.                                               *)
InStep == at \notin {"idle", "check"}
(* No pending record may see at or above this bound.                       *)
Base == IF InStep THEN mark.vis ELSE fe.vis

(* A pending record.                                                       *)
PendingCheck ==
  [vg : {stream[i] : i \in 1 .. Len(stream)}, pos : 0 .. Len(stream) - 1, vis : Nat]

(* The types, and where phase A can stand.                                 *)
TypeOK ==
  /\ stream \in Stream /\ pos \in 0 .. Len(stream)
  /\ at \in Stages /\ vg \in BOOLEAN
  /\ pend \in Seq(PendingCheck)
  /\ InStep => pos < Len(stream)
  /\ at = "check" => pos = Len(stream)

(* The kind of record each stage belongs to.                               *)
KindOK ==
  /\ at = "value" => d.kind \in Spc!ValueKind
  /\ at = "axiom" => d.kind = "axiom"
  /\ at \in {"pinned", "cert"} => d.kind = "pinned"
  /\ at \in {"formers", "ctors", "recs", "rules", "finish"} => d.kind = "block"
  /\ vg <=> at = "promote" /\ d.kind \in Spc!ValueKind

(* The index is exact, and the bound is the length of the environment but  *)
(* while a certificate is checked.                                         *)
IndexInv ==
  /\ Exact(fe)
  /\ IF at = "cert" THEN fe.vis = mark.vis /\ Len(fe.consts) = mark.vis + 1
     ELSE fe.vis = Len(fe.consts)
  /\ at = "pinned" => fe.vis = mark.vis
  /\ InStep => mark.vis \in 0 .. fe.vis /\ mark.tables \in 0 .. Len(fe.tables)

(* What is in view is what is due, and the bracket remembers where the     *)
(* declarations installed before end.                                      *)
ViewInv ==
  /\ Here = Due
  /\ InStep => View(fe, mark.vis) = Env
  /\ PrefixView

(* What lies above the bound, or was pushed for a time: the operation      *)
(* being certified, and the bare recursors over an environment that is     *)
(* exact without them.                                                     *)
OnTop ==
  /\ at = "cert" => View(fe, mark.vis + 1) = Spc!After(Env, d)
  /\ at = "rules" =>
       LET g == PopTemp(fe, d.recs, displaced)
       IN  /\ Exact(g) /\ g.vis = Len(g.consts) /\ fe = Push(g, d.recs, "Bare")
           /\ mark.vis <= g.vis /\ mark.tables <= Len(g.tables)
           /\ \A n \in Spc!Recs(d) : ~Holds(g, n)
           /\ View(g, g.vis) = Spc!AtRecs(Env, d)

(* What the earlier stages of the step have already asked of the           *)
(* declaration.                                                            *)
Passed ==
  /\ at = "cert" => /\ d.pin /\ Spc!AllFresh(Env, {d.name})
                    /\ Spc!Types(Env, d.ty) /\ Spc!Types(Env, d.val)
  /\ at \in {"ctors", "recs", "rules", "finish"} =>
       /\ d.pin /\ Spc!Distinct(d.ctors) /\ Spc!Distinct(d.inds)
       /\ Spc!AllFresh(Env, Spc!Formers(d)) /\ Spc!Types(Env, d.ty)
  /\ at \in {"recs", "rules", "finish"} =>
       Spc!AllFresh(Spc!AtCtors(Env, d), Spc!Ctors(d)) /\ Spc!Types(Spc!AtCtors(Env, d), d.flds)
  /\ at \in {"rules", "finish"} =>
       /\ Spc!Distinct(d.recs)
       /\ Spc!AllFresh(Spc!AtRecs(Env, d), Spc!Recs(d)) /\ Spc!Types(Spc!AtRecs(Env, d), d.rty)
  /\ at = "finish" =>
       Spc!Types(Spc!AtRules(Env, d), d.rule) /\ Spc!Resolves(Spc!AtRecs(Env, d), d.dom)
  /\ at = "promote" => Spc!Installs(Env, d)

(* Every declaration behind the position can be installed.                 *)
Installed == \A i \in 1 .. pos : Spc!Installs(Spc!EnvAfter(stream)[i - 1], stream[i])

(* The pending records are those of the value declarations behind the      *)
(* position, in order, with bounds that no later step disturbs.            *)
PendingInv ==
  /\ \A k \in 1 .. Len(pend) :
       /\ pend[k].pos < pos /\ pend[k].vis <= Base
       /\ pend[k].vg = stream[pend[k].pos + 1] /\ pend[k].vg.kind \in Spc!ValueKind
  /\ \A j, k \in 1 .. Len(pend) : j < k => pend[j].pos < pend[k].pos
  /\ \A i \in 1 .. pos : stream[i].kind \in Spc!ValueKind =>
       \E k \in 1 .. Len(pend) : pend[k].pos = i - 1

(* Phase B, in whatever order, answers each record as its check comes out. *)
OutcomeInv ==
  at = "check" =>
    /\ outcome \in [1 .. Len(pend) -> {"none", "ok", "refused", "limit"}]
    /\ \A k \in 1 .. Len(pend) : /\ outcome[k] = "ok" => ChecksOut(pend[k])
                                 /\ outcome[k] = "refused" => ~ChecksOut(pend[k])

(* The inductive invariant.                                                *)
Inv ==
  /\ TypeOK /\ KindOK /\ IndexInv /\ ViewInv /\ OnTop /\ Passed /\ CacheFresh
  /\ Installed /\ PendingInv /\ OutcomeInv

-----------------------------------------------------------------------------
(* The position is in the stream, and what it points at is well formed.    *)
LEMMA DeclOK ==
  ASSUME TypeOK
  PROVE  /\ Len(stream) \in Nat /\ pos \in Nat
         /\ \A i \in 1 .. Len(stream) : WellFormed(stream[i])
         /\ pos < Len(stream) => WellFormed(d)
<1>1. Len(stream) \in Nat /\ \A i \in 1 .. Len(stream) : WellFormed(stream[i])
  BY StreamAssumption DEF TypeOK
<1>2. pos \in Nat /\ (pos < Len(stream) => pos + 1 \in 1 .. Len(stream))
  BY <1>1 DEF TypeOK
<1> QED
  BY <1>1, <1>2 DEF d

(* What the index answers is what the environment in view shows, and an    *)
(* answer of the caches is the answer the environment in view would give.  *)
LEMMA Judgements ==
  ASSUME Inv
  PROVE  /\ \A n \in Name : Fresh(n) <=> Here[n] = "Absent"
         /\ \A t : Resolves(t) <=> Spc!Resolves(Here, t)
         /\ cached \in {NoCache, Here} => Answers = Here
         /\ cached \in {NoCache, Here} => \A t : Infers(t) <=> Spc!Types(Here, t)
<1>1. Exact(fe) /\ fe.vis \in Nat
  BY DEF Inv, IndexInv, Exact, FE
<1>2. \A n \in Name : Fresh(n) <=> Here[n] = "Absent"
  BY <1>1, ShowsTells DEF Fresh, Here, View
<1>3. cached \in {NoCache, Here} => Answers = Here
  BY DEF Answers
<1> QED
  BY <1>2, <1>3 DEF Resolves, Infers, Spc!Types

(* The check of a value declaration on installing it is the first half of  *)
(* the one-pass check.                                                     *)
LEMMA PassesValue ==
  ASSUME Inv, at = "value"
  PROVE  Passes <=> Spc!Installs(Env, d)
<1>1. d.kind \in Spc!ValueKind /\ Here = Env /\ d.name \in Name
  BY DeclOK DEF Inv, KindOK, TypeOK, InStep, ViewInv, Due, Env, WellFormed, Spc!ValueKind
<1>2. Fresh(d.name) <=> Spc!AllFresh(Env, {d.name})
  BY <1>1, Judgements DEF Spc!AllFresh
<1>3. \A t : Resolves(t) <=> Spc!Resolves(Env, t)
  BY <1>1, Judgements
<1>4. Passes <=> Header /\ (d.kind # "thm" => Resolves(d.val))
  BY DEF Passes
<1> QED
  BY <1>1, <1>2, <1>3, <1>4 DEF Header, Spc!Installs, Spc!ValueKind

(* The check of an axiom is the one-pass check.                            *)
LEMMA PassesAxiom ==
  ASSUME Inv, at = "axiom"
  PROVE  Passes <=> Spc!Installs(Env, d)
<1>1. d.kind = "axiom" /\ Here = Env /\ d.name \in Name /\ cached \in {NoCache, Here}
  BY DeclOK DEF Inv, KindOK, TypeOK, InStep, ViewInv, Due, Env, WellFormed, CacheFresh
<1>2. Fresh(d.name) <=> Spc!AllFresh(Env, {d.name})
  BY <1>1, Judgements DEF Spc!AllFresh
<1>3. \A t : (Resolves(t) <=> Spc!Resolves(Env, t)) /\ (Infers(t) <=> Spc!Types(Env, t))
  BY <1>1, Judgements
<1>4. Passes <=> Header /\ Infers(d.ty)
  BY DEF Passes
<1> QED
  BY <1>1, <1>2, <1>3, <1>4 DEF Header, Spc!Installs

(* The check of a pinned operation is the one-pass check but for its       *)
(* certificate.                                                            *)
LEMMA PassesPinned ==
  ASSUME Inv, at = "pinned"
  PROVE  Passes <=> /\ d.pin /\ Spc!AllFresh(Env, {d.name})
                    /\ Spc!Types(Env, d.ty) /\ Spc!Types(Env, d.val)
<1>1. d.kind = "pinned" /\ Here = Env /\ d.name \in Name /\ cached \in {NoCache, Here}
  BY DeclOK DEF Inv, KindOK, TypeOK, InStep, ViewInv, Due, Env, WellFormed, CacheFresh
<1>2. Fresh(d.name) <=> Spc!AllFresh(Env, {d.name})
  BY <1>1, Judgements DEF Spc!AllFresh
<1>3. \A t : (Resolves(t) <=> Spc!Resolves(Env, t)) /\ (Infers(t) <=> Spc!Types(Env, t))
  BY <1>1, Judgements
<1>4. Passes <=> Header /\ Infers(d.ty) /\ Infers(d.val)
  BY DEF Passes
<1> QED
  BY <1>1, <1>2, <1>3, <1>4 DEF Header, Spc!Types

(* With the operation out of view, the certificate stage asks for the      *)
(* certificate itself; the rest of the check is behind it.                 *)
LEMMA PassesCert ==
  ASSUME Inv, at = "cert"
  PROVE  Passes <=> Spc!Installs(Env, d)
<1>1. d.kind = "pinned" /\ Here = Env /\ d.name \in Name
  BY DeclOK DEF Inv, KindOK, TypeOK, InStep, ViewInv, Due, Env, WellFormed
<1>2. /\ d.pin /\ Spc!AllFresh(Env, {d.name}) /\ Spc!Types(Env, d.ty) /\ Spc!Types(Env, d.val)
  BY DEF Inv, Passed
<1>3. Fresh(d.name)
  BY <1>1, <1>2, Judgements DEF Spc!AllFresh
<1>4. Passes <=> d.cert
  BY <1>3 DEF Passes, CertOk
<1> QED
  BY <1>1, <1>2, <1>4 DEF Spc!Installs, Spc!Types

(* The stages of a block ask, one after the other, what makes it good.     *)
LEMMA PassesBlock ==
  ASSUME Inv, at \in {"formers", "ctors", "recs", "rules"}
  PROVE  /\ at = "formers" => (Passes <=>
              /\ d.pin /\ Spc!Distinct(d.ctors) /\ Spc!Distinct(d.inds)
              /\ Spc!AllFresh(Env, Spc!Formers(d)) /\ Spc!Types(Env, d.ty))
         /\ at = "ctors" => (Passes <=>
              /\ Spc!AllFresh(Spc!AtCtors(Env, d), Spc!Ctors(d))
              /\ Spc!Types(Spc!AtCtors(Env, d), d.flds))
         /\ at = "recs" => (Passes <=>
              /\ Spc!Distinct(d.recs)
              /\ Spc!AllFresh(Spc!AtRecs(Env, d), Spc!Recs(d))
              /\ Spc!Types(Spc!AtRecs(Env, d), d.rty))
         /\ at = "rules" => (Passes <=>
              /\ Spc!Types(Spc!AtRules(Env, d), d.rule)
              /\ Spc!Resolves(Spc!AtRecs(Env, d), d.dom))
<1>1. /\ d.kind = "block" /\ cached \in {NoCache, Here} /\ WellFormed(d)
  BY DeclOK DEF Inv, KindOK, TypeOK, InStep, CacheFresh
<1>2. /\ Spc!Formers(d) \subseteq Name /\ Spc!Ctors(d) \subseteq Name /\ Spc!Recs(d) \subseteq Name
  BY <1>1 DEF WellFormed, Spc!Formers, Spc!Ctors, Spc!Recs, Spc!Range1
<1>3. /\ \A n \in Name : Fresh(n) <=> Here[n] = "Absent"
      /\ \A t : Infers(t) <=> Spc!Types(Here, t)
  BY <1>1, Judgements
<1>4. ASSUME at = "formers"
      PROVE  Passes <=> /\ d.pin /\ Spc!Distinct(d.ctors) /\ Spc!Distinct(d.inds)
                        /\ Spc!AllFresh(Env, Spc!Formers(d)) /\ Spc!Types(Env, d.ty)
  <2>1. Here = Env
    BY <1>4 DEF Inv, ViewInv, Due, Env
  <2>2. Passes <=> FormersOk
    BY <1>4 DEF Passes
  <2> QED
    BY <2>1, <2>2, <1>2, <1>3 DEF FormersOk, Spc!AllFresh
<1>5. ASSUME at = "ctors"
      PROVE  Passes <=> /\ Spc!AllFresh(Spc!AtCtors(Env, d), Spc!Ctors(d))
                        /\ Spc!Types(Spc!AtCtors(Env, d), d.flds)
  <2>1. Here = Spc!AtCtors(Env, d)
    BY <1>5 DEF Inv, ViewInv, Due, Env
  <2>2. Passes <=> CtorsOk
    BY <1>5 DEF Passes
  <2> QED
    BY <2>1, <2>2, <1>2, <1>3 DEF CtorsOk, Spc!AllFresh
<1>6. ASSUME at = "recs"
      PROVE  Passes <=> /\ Spc!Distinct(d.recs)
                        /\ Spc!AllFresh(Spc!AtRecs(Env, d), Spc!Recs(d))
                        /\ Spc!Types(Spc!AtRecs(Env, d), d.rty)
  <2>1. Here = Spc!AtRecs(Env, d)
    BY <1>6 DEF Inv, ViewInv, Due, Env
  <2>2. Passes <=> RecsOk
    BY <1>6 DEF Passes
  <2> QED
    BY <2>1, <2>2, <1>2, <1>3 DEF RecsOk, Spc!AllFresh
<1>7. ASSUME at = "rules"
      PROVE  Passes <=> /\ Spc!Types(Spc!AtRules(Env, d), d.rule)
                        /\ Spc!Resolves(Spc!AtRecs(Env, d), d.dom)
  <2>1. Here = Spc!AtRules(Env, d)
    BY <1>7 DEF Inv, ViewInv, Due, Env
  <2>2. Passes <=> RulesOk
    BY <1>7 DEF Passes
  <2> DEFINE g == PopTemp(fe, d.recs, displaced)
  <2>3. /\ Exact(g) /\ g.vis = Len(g.consts) /\ fe = Push(g, d.recs, "Bare")
        /\ \A n \in Spc!Recs(d) : ~Holds(g, n)
        /\ View(g, g.vis) = Spc!AtRecs(Env, d)
        /\ Spc!Distinct(d.recs) /\ d.recs \in Seq(Name)
    BY <1>1, <1>7 DEF Inv, OnTop, Passed, WellFormed
  <2> HIDE DEF g
  <2>4. /\ Len(fe.consts) = Len(g.consts) + Len(d.recs) /\ fe.vis = Len(fe.consts)
        /\ \A v \in 0 .. g.vis : View(fe, v) = View(g, v)
    BY <2>3, PushKeeps DEF Spc!Recs, Info
  <2>5. fe.vis - Len(d.recs) = g.vis /\ g.vis \in 0 .. g.vis
    <3>1. Len(g.consts) \in Nat
      BY <2>3, SlotTyped
    <3>2. Len(d.recs) \in Nat
      BY <2>3
    <3>3. fe.vis = Len(g.consts) + Len(d.recs) /\ g.vis = Len(g.consts)
      BY <2>3, <2>4
    <3> QED
      BY <3>1, <3>2, <3>3
  <2> QED
    BY <2>1, <2>2, <2>3, <2>4, <2>5, <1>3 DEF RulesOk
<1> QED
  BY <1>4, <1>5, <1>6, <1>7

(* The tables of a block are its own formers', in view and without one.    *)
LEMMA PassesFinish ==
  ASSUME Inv, at = "finish"
  PROVE  /\ Passes /\ Spc!Installs(Env, d)
         /\ \A n \in Spc!Range1(d.structs) :
              /\ n \in Name /\ n \in Spc!Formers(d) /\ n \notin Spc!Recs(d)
              /\ Here[n] = "Ind"
<1>1. d.kind = "block" /\ WellFormed(d) /\ Here = Spc!AtRecs(Env, d)
  BY DeclOK DEF Inv, KindOK, TypeOK, InStep, ViewInv, Due, Env
<1>2. /\ Spc!AllFresh(Spc!AtCtors(Env, d), Spc!Ctors(d))
      /\ Spc!AllFresh(Spc!AtRecs(Env, d), Spc!Recs(d))
  BY DEF Inv, Passed
<1>3. ASSUME NEW n \in Spc!Range1(d.structs)
      PROVE  n \in Name /\ n \in Spc!Formers(d) /\ n \notin Spc!Recs(d) /\ Here[n] = "Ind"
  <2>1. n \in Spc!Formers(d)
    BY <1>1 DEF WellFormed, Spc!Range1
  <2>2. n \in Name
    BY <2>1, <1>1 DEF WellFormed, Spc!Formers, Spc!Range1
  <2>3. Spc!AtCtors(Env, d)[n] = "Ind"
    BY <2>1, <2>2 DEF Spc!AtCtors, Spc!With
  <2>4. n \notin Spc!Ctors(d)
    BY <2>3, <1>2 DEF Spc!AllFresh
  <2>5. Spc!AtRecs(Env, d)[n] = "Ind"
    BY <2>2, <2>3, <2>4 DEF Spc!AtRecs, Spc!With
  <2> QED
    BY <2>1, <2>2, <2>5, <1>1, <1>2 DEF Spc!AllFresh
<1>4. ASSUME NEW n \in Spc!Range1(d.structs) PROVE ~Fresh(n) /\ ~FindTable(fe, fe.vis, n)
  <2>1. Shows(fe, fe.vis, n) = "Ind" /\ n \in Name
    BY <1>3 DEF Here, View
  <2>2. Exact(fe) /\ fe.vis \in Nat
    BY DEF Inv, IndexInv, Exact, FE
  <2>3. Find(fe, fe.vis, n)
    BY <2>1, <2>2, ShowsTells
  <2>4. ~FindTable(fe, fe.vis, n)
    BY <2>1, <2>3 DEF Shows
  <2> QED
    BY <2>3, <2>4 DEF Fresh
<1>5. Passes
  BY <1>4 DEF Passes, TablesOk
<1>6. Spc!Installs(Env, d)
  BY <1>1 DEF Inv, Passed, Spc!Installs, Spc!GoodBlock
<1> QED
  BY <1>3, <1>5, <1>6

-----------------------------------------------------------------------------
(* An empty environment with nothing pending satisfies the invariant.      *)
LEMMA InitInv == Init => Inv
<1> SUFFICES ASSUME Init PROVE Inv
  OBVIOUS
<1>1. /\ stream \in Stream /\ Len(stream) \in Nat /\ pos = 0 /\ fe = EmptyFE /\ pend = <<>>
      /\ at = "idle" /\ vg = FALSE
  BY StreamAssumption DEF Init
<1>2. TypeOK /\ KindOK /\ OnTop /\ Passed /\ CacheFresh /\ Installed /\ OutcomeInv
  <2>1. TypeOK
    <3>1. pend \in Seq(PendingCheck)
      BY <1>1
    <3>2. at \in Stages /\ ~InStep /\ at # "check"
      BY <1>1 DEF Stages, InStep
    <3>3. pos \in 0 .. Len(stream)
      <4>1. pos = 0 /\ Len(stream) \in Nat
        BY <1>1
      <4> QED
        BY <4>1
    <3> QED
      BY <1>1, <3>1, <3>2, <3>3 DEF TypeOK
  <2>2. KindOK
    BY <1>1 DEF KindOK
  <2>3. OnTop /\ Passed /\ CacheFresh /\ OutcomeInv
    BY <1>1 DEF OnTop, Passed, CacheFresh, OutcomeInv
  <2>4. Installed
    BY <1>1 DEF Installed
  <2> QED
    BY <2>1, <2>2, <2>3, <2>4
<1>3. Exact(fe)
  <2>1. Len(fe.consts) = 0 /\ Len(fe.tables) = 0
    BY <1>1 DEF EmptyFE
  <2>2. fe \in FE
    BY <1>1 DEF EmptyFE, FE
  <2>3. \A n \in Name : fe.idx[n] = NoRow /\ fe.tbls[n] = 0
    BY <1>1 DEF EmptyFE
  <2> QED
    BY <2>1, <2>2, <2>3 DEF Exact, Has
<1>4. IndexInv
  BY <1>1, <1>3 DEF IndexInv, InStep, EmptyFE
<1>5. Here = Spc!Nothing
  <2>1. \A n \in Name : fe.idx[n] = NoRow
    BY <1>1 DEF EmptyFE
  <2>2. \A n \in Name : \A v : Shows(fe, v, n) = "Absent"
    BY <2>1 DEF Shows, Find
  <2> QED
    BY <2>2 DEF Here, View, Spc!Nothing
<1>6. ViewInv
  <2>1. Due = Spc!EnvAfter(stream)[0]
    BY <1>1 DEF Due
  <2>2. PrefixView
    BY <1>1 DEF PrefixView
  <2> QED
    BY <1>1, <1>5, <2>1, <2>2, EnvUnfolds DEF ViewInv, InStep
<1>7. PendingInv
  BY <1>1 DEF PendingInv
<1> QED
  BY <1>2, <1>4, <1>6, <1>7 DEF Inv

-----------------------------------------------------------------------------
(* A stage that leaves everything below the bracket's bound as it was      *)
(* keeps what the invariant says of earlier declarations and pending       *)
(* records.                                                                *)
LEMMA StageFrame ==
  ASSUME Inv, InStep, UNCHANGED <<stream, pos, pend, outcome, mark>>,
         at' \in Stages \ {"idle", "check"}, vg' \in BOOLEAN, IndexInv', Here' = Due',
         \A v \in 0 .. mark.vis : View(fe, v)' = View(fe, v)
  PROVE  TypeOK' /\ ViewInv' /\ Installed' /\ PendingInv' /\ OutcomeInv'
<1>1. InStep' /\ at' # "check"
  BY DEF InStep
<1>2. TypeOK'
  <2>1. PendingCheck' = PendingCheck
    BY DEF PendingCheck
  <2> QED
    BY <1>1, <2>1 DEF Inv, TypeOK
<1>3. mark.vis \in Nat /\ \A k \in 1 .. Len(pend) : pend[k].vis \in 0 .. mark.vis
  <2>1. mark.vis \in Nat
    BY DEF Inv, IndexInv
  <2>2. \A k \in 1 .. Len(pend) : pend[k] \in PendingCheck
    BY DEF Inv, TypeOK
  <2>3. \A k \in 1 .. Len(pend) : pend[k].vis \in Nat /\ pend[k].vis <= mark.vis
    BY <2>2 DEF Inv, PendingInv, Base, PendingCheck
  <2> QED
    BY <2>1, <2>3
<1>4. ViewInv'
  <2>1. PrefixView'
    BY <1>3 DEF Inv, ViewInv, PrefixView
  <2>2. View(fe, mark.vis)' = Env'
    BY <1>3 DEF Inv, ViewInv, Env
  <2> QED
    BY <2>1, <2>2 DEF ViewInv
<1>5. Installed'
  BY DEF Inv, Installed
<1>6. PendingInv'
  BY <1>1 DEF Inv, PendingInv, Base
<1>7. OutcomeInv'
  BY <1>1 DEF OutcomeInv
<1> QED
  BY <1>2, <1>4, <1>5, <1>6, <1>7

(* A name not in view is not stored: nothing lies above the bound.         *)
LEMMA NotHeld ==
  ASSUME Inv, at # "cert", NEW n \in Name, Here[n] = "Absent"
  PROVE  ~Holds(fe, n)
<1>1. Exact(fe) /\ fe.vis = Len(fe.consts) /\ fe.vis \in Nat
  BY DEF Inv, IndexInv, Exact, FE
<1>2. Shows(fe, fe.vis, n) = "Absent"
  BY DEF Here, View
<1> QED
  BY <1>1, <1>2, ShowsTells

(* A push of names not in view, on the environment of the step.            *)
LEMMA PushedOn ==
  ASSUME Inv, InStep, at # "cert", NEW ns \in Seq(Name), NEW info \in Info, Spc!Distinct(ns),
         \A n \in Spc!Range1(ns) : n \in Name /\ Here[n] = "Absent"
  PROVE  LET g == Push(fe, ns, info) IN
         /\ Exact(g) /\ g.vis = Len(g.consts) /\ g.tables = fe.tables
         /\ g.vis = fe.vis + Len(ns) /\ fe.vis \in Nat /\ mark.vis \in 0 .. g.vis
         /\ mark.tables \in 0 .. Len(g.tables)
         /\ View(g, g.vis) = Spc!With(Here, Spc!Range1(ns), info)
         /\ \A v \in 0 .. mark.vis : View(g, v) = View(fe, v)
<1>1. /\ Exact(fe) /\ fe.vis = Len(fe.consts) /\ fe.vis \in Nat
      /\ mark.vis \in 0 .. fe.vis /\ mark.tables \in 0 .. Len(fe.tables)
  BY DEF Inv, IndexInv, Exact, FE
<1>2. \A n \in Spc!Range1(ns) : ~Holds(fe, n)
  BY NotHeld
<1> DEFINE g == Push(fe, ns, info)
<1>3. /\ Exact(g) /\ g.vis = Len(g.consts) /\ g.tables = fe.tables
      /\ Len(g.consts) = Len(fe.consts) + Len(ns)
      /\ View(g, g.vis) = Spc!With(View(fe, fe.vis), Spc!Range1(ns), info)
      /\ \A v \in 0 .. fe.vis : View(g, v) = View(fe, v)
  BY <1>1, <1>2, PushKeeps
<1> HIDE DEF g
<1>4. Len(ns) \in Nat
  OBVIOUS
<1>5. g.vis = fe.vis + Len(ns) /\ mark.vis \in 0 .. g.vis /\ mark.tables \in 0 .. Len(g.tables)
  BY <1>1, <1>3, <1>4
<1>6. \A v \in 0 .. mark.vis : View(g, v) = View(fe, v)
  BY <1>1, <1>3
<1> QED
  BY <1>1, <1>3, <1>5, <1>6 DEF g, Here

(* A stage that pushes names not in view, and goes on.                     *)
LEMMA PushStage ==
  ASSUME Inv, InStep, at # "cert", UNCHANGED <<stream, pos, pend, outcome, mark>>,
         at' \in Stages \ {"idle", "check", "pinned", "cert"}, vg' \in BOOLEAN,
         NEW ns \in Seq(Name), NEW info \in Info, Spc!Distinct(ns),
         \A n \in Spc!Range1(ns) : n \in Name /\ Here[n] = "Absent",
         fe' = Push(fe, ns, info), Due' = Spc!With(Here, Spc!Range1(ns), info)
  PROVE  TypeOK' /\ IndexInv' /\ ViewInv' /\ Installed' /\ PendingInv' /\ OutcomeInv'
<1>1. /\ Exact(fe') /\ fe'.vis = Len(fe'.consts)
      /\ mark.vis \in 0 .. fe'.vis /\ mark.tables \in 0 .. Len(fe'.tables)
      /\ View(fe', fe'.vis) = Spc!With(Here, Spc!Range1(ns), info)
      /\ \A v \in 0 .. mark.vis : View(fe', v) = View(fe, v)
  BY PushedOn
<1>2. IndexInv'
  BY <1>1 DEF IndexInv
<1>3. Here' = Due'
  BY <1>1 DEF Here
<1> QED
  BY <1>1, <1>2, <1>3, StageFrame

(* Within a step the declaration and the environment before it stay.       *)
LEMMA SameDecl ==
  ASSUME UNCHANGED <<stream, pos>>
  PROVE  d' = d /\ Env' = Env
BY DEF d, Env

(* One name is a sequence of distinct names.                               *)
LEMMA OneName ==
  ASSUME NEW n \in Name
  PROVE  <<n>> \in Seq(Name) /\ Spc!Distinct(<<n>>) /\ Spc!Range1(<<n>>) = {n}
<1>1. <<n>> \in Seq(Name) /\ Len(<<n>>) = 1 /\ <<n>>[1] = n
  OBVIOUS
<1> QED
  BY <1>1 DEF Spc!Distinct, Spc!Range1

-----------------------------------------------------------------------------
(* Opening a bracket keeps the invariant.                                  *)
LEMMA OpenStepKeeps == ASSUME Inv, OpenStep PROVE Inv'
<1>1. /\ at = "idle" /\ pos < Len(stream) /\ cached' = NoCache
      /\ mark' = [vis |-> fe.vis, tables |-> Len(fe.tables)]
      /\ UNCHANGED <<stream, pos, pend, outcome, fe, vg>>
  BY DEF OpenStep, Stage, frame
<1>2. /\ at' \in {"value", "axiom", "pinned", "formers"}
      /\ at' = "value" => d.kind \in Spc!ValueKind
      /\ at' = "axiom" => d.kind = "axiom"
      /\ at' = "pinned" => d.kind = "pinned"
      /\ at' = "formers" => d.kind = "block"
  <2>1. d.kind \in Spc!ValueKind \cup {"axiom", "pinned", "block"}
    BY <1>1, DeclOK DEF Inv, WellFormed
  <2>2. at' = CASE d.kind \in Spc!ValueKind -> "value"
                [] d.kind = "block" -> "formers"
                [] OTHER -> d.kind
    BY DEF OpenStep
  <2> QED
    BY <2>1, <2>2 DEF Spc!ValueKind
<1>3. d' = d /\ Env' = Env
  BY <1>1, SameDecl
<1>4. InStep' /\ ~InStep /\ at' \in Stages
  BY <1>1, <1>2 DEF InStep, Stages
<1>5. TypeOK'
  <2>1. PendingCheck' = PendingCheck
    BY <1>1 DEF PendingCheck
  <2> QED
    BY <1>1, <1>2, <1>4, <2>1 DEF Inv, TypeOK
<1>6. KindOK'
  <2>1. ~vg
    BY <1>1 DEF Inv, KindOK
  <2> QED
    BY <1>1, <1>2, <1>3, <2>1 DEF KindOK
<1>7. IndexInv'
  <2>1. Exact(fe) /\ fe.vis = Len(fe.consts) /\ fe.vis \in Nat /\ Len(fe.tables) \in Nat
    BY <1>1, SlotTyped DEF Inv, IndexInv, Exact, FE
  <2>2. mark'.vis = fe.vis /\ mark'.tables = Len(fe.tables)
    BY <1>1
  <2> QED
    BY <1>1, <1>2, <2>1, <2>2 DEF IndexInv
<1>8. ViewInv'
  <2>1. Here = Env /\ PrefixView
    BY <1>1 DEF Inv, ViewInv, Due, Env
  <2>2. Here' = Env' /\ PrefixView' /\ View(fe, mark.vis)' = Env'
    BY <1>1, <1>3, <2>1 DEF Here, PrefixView
  <2>3. Due' = Env'
    BY <1>2 DEF Due, Env
  <2> QED
    BY <2>2, <2>3 DEF ViewInv
<1>9. OnTop' /\ Passed' /\ CacheFresh' /\ OutcomeInv'
  BY <1>1, <1>2 DEF OnTop, Passed, CacheFresh, OutcomeInv
<1>10. Installed'
  BY <1>1 DEF Inv, Installed
<1>11. PendingInv'
  BY <1>1, <1>4 DEF Inv, PendingInv, Base
<1> QED
  BY <1>5, <1>6, <1>7, <1>8, <1>9, <1>10, <1>11 DEF Inv

(* A value or an axiom is one push, with nothing left to ask.              *)
LEMMA PushOneKeeps ==
  ASSUME Inv, at \in {"value", "axiom"}, Spc!Installs(Env, d), Here = Env,
         UNCHANGED <<stream, pos, pend, outcome, mark>>,
         at' = "promote", vg' <=> d.kind \in Spc!ValueKind, vg' \in BOOLEAN,
         fe' = Push(fe, <<d.name>>, Spc!Stored(d))
  PROVE  Inv'
<1>1. d.kind \in Spc!ValueKind \cup {"axiom"} /\ d.name \in Name /\ pos < Len(stream)
  BY DeclOK DEF Inv, KindOK, TypeOK, InStep, WellFormed, Spc!ValueKind
<1>2. d' = d /\ Env' = Env
  BY SameDecl
<1>3. Spc!Stored(d) \in Info /\ d.kind # "block"
  BY <1>1 DEF Spc!Stored, Info, Spc!ValueKind
<1>4. Here[d.name] = "Absent"
  BY <1>3 DEF Spc!Installs, Spc!AllFresh
<1>5. Due' = Spc!With(Here, {d.name}, Spc!Stored(d))
  BY <1>2, <1>3 DEF Due, Env, Spc!After
<1>6. TypeOK' /\ IndexInv' /\ ViewInv' /\ Installed' /\ PendingInv' /\ OutcomeInv'
  <2>1. InStep /\ at # "cert" /\ at' \in Stages \ {"idle", "check", "pinned", "cert"}
    BY DEF InStep, Stages
  <2>2. <<d.name>> \in Seq(Name) /\ Spc!Distinct(<<d.name>>) /\ Spc!Range1(<<d.name>>) = {d.name}
    BY <1>1, OneName
  <2>3. \A n \in Spc!Range1(<<d.name>>) : n \in Name /\ Here[n] = "Absent"
    BY <2>2, <1>1, <1>4
  <2>4. Due' = Spc!With(Here, Spc!Range1(<<d.name>>), Spc!Stored(d))
    BY <2>2, <1>5
  <2> QED
    BY <2>1, <2>2, <2>3, <2>4, <1>3, PushStage
<1>7. KindOK' /\ OnTop' /\ Passed' /\ CacheFresh'
  BY <1>2 DEF KindOK, OnTop, Passed, CacheFresh
<1> QED
  BY <1>6, <1>7 DEF Inv

(* Installing a definition, theorem or opaque keeps the invariant.         *)
LEMMA InstallValueKeeps == ASSUME Inv, InstallValue PROVE Inv'
<1>1. /\ at = "value" /\ Passes /\ at' = "promote" /\ vg' = TRUE
      /\ fe' = Push(fe, <<d.name>>, Spc!Stored(d))
      /\ UNCHANGED <<stream, pos, pend, outcome, mark>>
  BY DEF InstallValue, Stage, frame
<1>2. Spc!Installs(Env, d) /\ Here = Env /\ d.kind \in Spc!ValueKind
  BY <1>1, PassesValue DEF Inv, ViewInv, Due, Env, KindOK
<1> QED
  BY <1>1, <1>2, PushOneKeeps

(* Installing an axiom keeps the invariant.                                *)
LEMMA InstallAxiomKeeps == ASSUME Inv, InstallAxiom PROVE Inv'
<1>1. /\ at = "axiom" /\ Passes /\ at' = "promote"
      /\ fe' = Push(fe, <<d.name>>, "Axiom")
      /\ UNCHANGED <<stream, pos, pend, outcome, mark, vg>>
  BY DEF InstallAxiom, Stage, frame, bracket
<1>2. Spc!Installs(Env, d) /\ Here = Env /\ d.kind = "axiom"
  BY <1>1, PassesAxiom DEF Inv, ViewInv, Due, Env, KindOK
<1>3. Spc!Stored(d) = "Axiom" /\ d.kind \notin Spc!ValueKind
  BY <1>2 DEF Spc!Stored, Spc!ValueKind
<1>4. vg' = FALSE
  BY <1>1 DEF Inv, KindOK, TypeOK
<1> QED
  BY <1>1, <1>2, <1>3, <1>4, PushOneKeeps

(* Storing a pinned operation and restricting the index keeps it.          *)
LEMMA InstallPinnedKeeps == ASSUME Inv, InstallPinned PROVE Inv'
<1> DEFINE g == Push(fe, <<d.name>>, "Defn")
<1>1. /\ at = "pinned" /\ Passes /\ at' = "cert" /\ cached' = Answers
      /\ fe' = RestrictTo(g, fe.vis)
      /\ UNCHANGED <<stream, pos, pend, outcome, mark, vg>>
  BY DEF InstallPinned, Stage, frame, bracket
<1>2. /\ d.pin /\ Spc!AllFresh(Env, {d.name}) /\ Spc!Types(Env, d.ty) /\ Spc!Types(Env, d.val)
      /\ Here = Env /\ d.kind = "pinned" /\ cached \in {NoCache, Here} /\ InStep
  BY <1>1, PassesPinned DEF Inv, ViewInv, Due, Env, KindOK, CacheFresh, InStep
<1>3. d' = d /\ Env' = Env /\ d.name \in Name
  <2>1. pos < Len(stream)
    BY <1>2 DEF Inv, TypeOK
  <2> QED
    BY <1>1, <1>2, <2>1, SameDecl, DeclOK DEF Inv, WellFormed
<1>4. /\ <<d.name>> \in Seq(Name) /\ Spc!Distinct(<<d.name>>) /\ Spc!Range1(<<d.name>>) = {d.name}
      /\ Len(<<d.name>>) = 1
  BY <1>3, OneName
<1>5. /\ Exact(g) /\ g.vis = Len(g.consts) /\ g.tables = fe.tables
      /\ g.vis = fe.vis + 1 /\ fe.vis \in Nat
      /\ \A v \in 0 .. mark.vis : View(g, v) = View(fe, v)
      /\ View(g, g.vis) = Spc!With(Here, {d.name}, "Defn")
  <2>1. \A n \in Spc!Range1(<<d.name>>) : n \in Name /\ Here[n] = "Absent"
    BY <1>2, <1>3, <1>4 DEF Spc!AllFresh
  <2>2. "Defn" \in Info /\ at # "cert"
    BY <1>1 DEF Info
  <2> HIDE DEF g
  <2> QED
    BY <2>1, <2>2, <1>2, <1>4, PushedOn DEF g
<1> HIDE DEF g
<1>6. fe.vis = mark.vis /\ mark.tables \in 0 .. Len(fe.tables)
  BY <1>1, <1>2 DEF Inv, IndexInv

<1>7. /\ Exact(fe') /\ fe'.vis = mark.vis /\ fe'.consts = g.consts /\ fe'.tables = g.tables
      /\ \A v \in 0 .. mark.vis : View(fe', v) = View(fe, v)
  BY <1>1, <1>5, <1>6, RestrictKeeps
<1>8. IndexInv'
  <2>1. Len(fe'.consts) = mark.vis + 1 /\ mark.vis \in 0 .. fe'.vis
        /\ mark.tables \in 0 .. Len(fe'.tables)
    <3>1. fe'.consts = g.consts /\ fe'.tables = fe.tables /\ fe'.vis = mark.vis
      BY <1>5, <1>7
    <3>2. mark.vis \in Nat /\ Len(g.consts) = mark.vis + 1
      BY <1>5, <1>6
    <3>3. mark.tables \in 0 .. Len(fe'.tables)
      BY <1>6, <3>1
    <3> QED
      BY <3>1, <3>2, <3>3
  <2> QED
    BY <1>1, <1>7, <2>1 DEF IndexInv
<1>9. Here' = Env /\ Due' = Env
  <2>1. Here' = View(fe, mark.vis)
    BY <1>5, <1>6, <1>7 DEF Here
  <2> QED
    BY <2>1, <1>1, <1>2, <1>3, <1>6 DEF Due, Env, Here
<1>10. TypeOK' /\ ViewInv' /\ Installed' /\ PendingInv' /\ OutcomeInv'
  <2>1. vg' \in BOOLEAN /\ at' \in Stages \ {"idle", "check"}
    BY <1>1 DEF Inv, TypeOK, Stages
  <2> QED
    BY <2>1, <1>1, <1>2, <1>7, <1>8, <1>9, StageFrame
<1>11. KindOK'
  BY <1>1, <1>2, <1>3 DEF Inv, KindOK
<1>12. Passed'
  BY <1>1, <1>2, <1>3 DEF Passed
<1>14. OnTop'
  <2>1. View(fe', mark.vis + 1) = View(g, g.vis)
    <3>1. \A v : View(fe', v) = View(g, v)
      BY <1>1, <1>5, RestrictKeeps
    <3> QED
      BY <3>1, <1>5, <1>6
  <2>2. Spc!After(Env, d) = Spc!With(Here, {d.name}, "Defn")
    BY <1>2 DEF Spc!After, Spc!Stored
  <2>3. View(fe, mark.vis + 1)' = View(fe', mark.vis + 1)
    BY <1>1
  <2> QED
    BY <1>1, <1>3, <1>5, <2>1, <2>2, <2>3 DEF OnTop
<1>13. CacheFresh'
  BY <1>1, <1>2, <1>9, Judgements DEF CacheFresh
<1> QED
  BY <1>8, <1>10, <1>11, <1>12, <1>13, <1>14 DEF Inv

(* The restored bound shows the operation and nothing else that is new.    *)
LEMMA CertifyKeeps == ASSUME Inv, Certify PROVE Inv'
<1>1. /\ at = "cert" /\ Passes /\ at' = "promote"
      /\ fe' = RestrictTo(fe, mark.vis + 1)
      /\ UNCHANGED <<stream, pos, pend, outcome, mark, vg>>
  BY DEF Certify, Stage, frame, bracket
<1>2. /\ Spc!Installs(Env, d) /\ InStep /\ d.kind = "pinned" /\ Exact(fe)
      /\ fe.vis = mark.vis /\ Len(fe.consts) = mark.vis + 1
      /\ mark.vis \in 0 .. fe.vis /\ mark.tables \in 0 .. Len(fe.tables)
  BY <1>1, PassesCert DEF Inv, KindOK, InStep, IndexInv
<1>3. d' = d /\ Env' = Env /\ d.name \in Name
  <2>1. pos < Len(stream)
    BY <1>2 DEF Inv, TypeOK
  <2> QED
    BY <1>1, <1>2, <2>1, SameDecl, DeclOK DEF Inv, WellFormed
<1>4. /\ Exact(fe') /\ fe'.vis = Len(fe'.consts) /\ mark.vis \in 0 .. fe'.vis
      /\ fe'.consts = fe.consts /\ fe'.tables = fe.tables
      /\ \A v : View(fe', v) = View(fe, v)
  <2>1. mark.vis \in Nat /\ mark.vis + 1 \in Nat
    BY <1>2
  <2>2. /\ Exact(fe') /\ fe'.vis = mark.vis + 1 /\ fe'.consts = fe.consts /\ fe'.tables = fe.tables
        /\ \A v : View(fe', v) = View(fe, v)
    BY <1>1, <1>2, <2>1, RestrictKeeps
  <2> QED
    BY <1>2, <2>1, <2>2
<1>5. IndexInv'
  <2>1. mark'.vis \in 0 .. fe'.vis /\ mark'.tables \in 0 .. Len(fe'.tables)
    BY <1>1, <1>2, <1>4
  <2>2. at' = "promote" /\ Exact(fe') /\ fe'.vis = Len(fe'.consts)
    BY <1>1, <1>4
  <2> QED
    BY <2>1, <2>2 DEF IndexInv
<1>6. Here' = Due'
  <2>1. fe'.vis = mark.vis + 1
    BY <1>2, <1>4
  <2>2. Here' = View(fe, mark.vis + 1)
    BY <2>1, <1>4 DEF Here
  <2>3. View(fe, mark.vis + 1) = Spc!After(Env, d)
    BY <1>1 DEF Inv, OnTop
  <2>4. Due' = Spc!After(Env, d)
    BY <1>1, <1>3 DEF Due, Env
  <2> QED
    BY <2>2, <2>3, <2>4
<1>7. TypeOK' /\ ViewInv' /\ Installed' /\ PendingInv' /\ OutcomeInv'
  <2>1. vg' \in BOOLEAN /\ at' \in Stages \ {"idle", "check"}
    BY <1>1 DEF Inv, TypeOK, Stages
  <2>2. \A v \in 0 .. mark.vis : View(fe, v)' = View(fe, v)
    BY <1>4
  <2> QED
    BY <2>1, <2>2, <1>1, <1>2, <1>5, <1>6, StageFrame
<1>8. KindOK'
  <2>1. vg' = FALSE /\ d.kind \notin Spc!ValueKind
    BY <1>1, <1>2 DEF Inv, KindOK, TypeOK, Spc!ValueKind
  <2> QED
    BY <1>1, <1>3, <2>1 DEF KindOK
<1>9. OnTop' /\ Passed' /\ CacheFresh'
  BY <1>1, <1>2, <1>3 DEF OnTop, Passed, CacheFresh
<1> QED
  BY <1>5, <1>7, <1>8, <1>9 DEF Inv

-----------------------------------------------------------------------------
(* What is known of the declaration in a stage of a block.                 *)
LEMMA BlockOK ==
  ASSUME Inv, at \in {"formers", "ctors", "recs", "rules", "finish"}
  PROVE  /\ d.kind = "block" /\ WellFormed(d) /\ InStep /\ vg = FALSE
         /\ d.inds \in Seq(Name) /\ d.ctors \in Seq(Name) /\ d.recs \in Seq(Name)
         /\ Spc!Formers(d) \subseteq Name /\ Spc!Ctors(d) \subseteq Name
         /\ Spc!Recs(d) \subseteq Name
<1>1. d.kind = "block" /\ InStep /\ ~vg /\ vg \in BOOLEAN
  BY DEF Inv, KindOK, InStep, TypeOK
<1>2. WellFormed(d)
  BY <1>1, DeclOK DEF Inv, TypeOK
<1>3. d.inds \in Seq(Name) /\ d.ctors \in Seq(Name) /\ d.recs \in Seq(Name)
  BY <1>1, <1>2 DEF WellFormed
<1>4. /\ Spc!Formers(d) \subseteq Name /\ Spc!Ctors(d) \subseteq Name /\ Spc!Recs(d) \subseteq Name
  BY <1>3 DEF Spc!Formers, Spc!Ctors, Spc!Recs, Spc!Range1
<1> QED
  BY <1>1, <1>2, <1>3, <1>4

(* Installing the formers of a block keeps the invariant.                  *)
LEMMA InstallFormersKeeps == ASSUME Inv, InstallFormers PROVE Inv'
<1>1. /\ at = "formers" /\ Passes /\ at' = "ctors" /\ cached' = NoCache
      /\ fe' = Push(fe, d.inds, "Ind")
      /\ UNCHANGED <<stream, pos, pend, outcome, mark, vg>>
  BY DEF InstallFormers, Stage, frame, bracket
<1>2. /\ d.pin /\ Spc!Distinct(d.ctors) /\ Spc!Distinct(d.inds)
      /\ Spc!AllFresh(Env, Spc!Formers(d)) /\ Spc!Types(Env, d.ty) /\ Here = Env
  BY <1>1, PassesBlock DEF Inv, ViewInv, Due, Env
<1>3. /\ d.kind = "block" /\ InStep /\ vg = FALSE /\ d.inds \in Seq(Name)
      /\ Spc!Formers(d) \subseteq Name
  BY <1>1, BlockOK
<1>4. d' = d /\ Env' = Env
  BY <1>1, SameDecl
<1>5. Due' = Spc!With(Here, Spc!Range1(d.inds), "Ind")
  BY <1>1, <1>2, <1>4 DEF Due, Env, Spc!AtCtors, Spc!Formers
<1>6. TypeOK' /\ IndexInv' /\ ViewInv' /\ Installed' /\ PendingInv' /\ OutcomeInv'
  <2>1. at # "cert" /\ at' \in Stages \ {"idle", "check", "pinned", "cert"} /\ vg' \in BOOLEAN
    BY <1>1, <1>3 DEF Stages
  <2>2. \A n \in Spc!Range1(d.inds) : n \in Name /\ Here[n] = "Absent"
    BY <1>2, <1>3 DEF Spc!AllFresh, Spc!Formers
  <2>3. "Ind" \in Info
    BY DEF Info
  <2> QED
    BY <1>1, <1>2, <1>3, <1>5, <2>1, <2>2, <2>3, PushStage
<1>7. KindOK' /\ OnTop' /\ Passed' /\ CacheFresh'
  BY <1>1, <1>2, <1>3, <1>4 DEF KindOK, OnTop, Passed, CacheFresh
<1> QED
  BY <1>6, <1>7 DEF Inv

(* Installing the constructors keeps the invariant.                        *)
LEMMA InstallCtorsKeeps == ASSUME Inv, InstallCtors PROVE Inv'
<1>1. /\ at = "ctors" /\ Passes /\ at' = "recs" /\ cached' = NoCache
      /\ fe' = Push(fe, d.ctors, "Ctor")
      /\ UNCHANGED <<stream, pos, pend, outcome, mark, vg>>
  BY DEF InstallCtors, Stage, frame, bracket
<1>2. /\ d.pin /\ Spc!Distinct(d.ctors) /\ Spc!Distinct(d.inds)
      /\ Spc!AllFresh(Env, Spc!Formers(d)) /\ Spc!Types(Env, d.ty)
      /\ Spc!AllFresh(Spc!AtCtors(Env, d), Spc!Ctors(d))
      /\ Spc!Types(Spc!AtCtors(Env, d), d.flds) /\ Here = Spc!AtCtors(Env, d)
  BY <1>1, PassesBlock DEF Inv, ViewInv, Due, Env, Passed
<1>3. /\ d.kind = "block" /\ InStep /\ vg = FALSE /\ d.ctors \in Seq(Name)
      /\ Spc!Ctors(d) \subseteq Name
  BY <1>1, BlockOK
<1>4. d' = d /\ Env' = Env
  BY <1>1, SameDecl
<1>5. Due' = Spc!With(Here, Spc!Range1(d.ctors), "Ctor")
  BY <1>1, <1>2, <1>4 DEF Due, Env, Spc!AtRecs, Spc!Ctors
<1>6. TypeOK' /\ IndexInv' /\ ViewInv' /\ Installed' /\ PendingInv' /\ OutcomeInv'
  <2>1. at # "cert" /\ at' \in Stages \ {"idle", "check", "pinned", "cert"} /\ vg' \in BOOLEAN
    BY <1>1, <1>3 DEF Stages
  <2>2. \A n \in Spc!Range1(d.ctors) : n \in Name /\ Here[n] = "Absent"
    BY <1>2, <1>3 DEF Spc!AllFresh, Spc!Ctors
  <2>3. "Ctor" \in Info
    BY DEF Info
  <2> QED
    BY <1>1, <1>2, <1>3, <1>5, <2>1, <2>2, <2>3, PushStage
<1>7. KindOK' /\ OnTop' /\ Passed' /\ CacheFresh'
  BY <1>1, <1>2, <1>3, <1>4 DEF KindOK, OnTop, Passed, CacheFresh
<1> QED
  BY <1>6, <1>7 DEF Inv

(* Pushing the bare recursors for a time keeps it: popping them would give *)
(* the environment of now.                                                 *)
LEMMA PushBareRecsKeeps == ASSUME Inv, PushBareRecs PROVE Inv'
<1>1. /\ at = "recs" /\ Passes /\ at' = "rules" /\ cached' = NoCache /\ displaced' = fe.idx
      /\ fe' = Push(fe, d.recs, "Bare")
      /\ UNCHANGED <<stream, pos, pend, outcome, mark, vg>>
  BY DEF PushBareRecs, Stage, frame
<1>2. /\ Spc!Distinct(d.recs) /\ Spc!AllFresh(Spc!AtRecs(Env, d), Spc!Recs(d))
      /\ Spc!Types(Spc!AtRecs(Env, d), d.rty) /\ Here = Spc!AtRecs(Env, d)
  BY <1>1, PassesBlock DEF Inv, ViewInv, Due, Env
<1>3. /\ d.kind = "block" /\ InStep /\ vg = FALSE /\ d.recs \in Seq(Name)
      /\ Spc!Recs(d) \subseteq Name
  BY <1>1, BlockOK
<1>4. d' = d /\ Env' = Env
  BY <1>1, SameDecl
<1>5. Due' = Spc!With(Here, Spc!Range1(d.recs), "Bare")
  BY <1>1, <1>2, <1>4 DEF Due, Env, Spc!AtRules, Spc!Recs
<1>6. \A n \in Spc!Recs(d) : n \in Name /\ Here[n] = "Absent"
  BY <1>2, <1>3 DEF Spc!AllFresh
<1>7. "Bare" \in Info
  BY DEF Info
<1>8. TypeOK' /\ IndexInv' /\ ViewInv' /\ Installed' /\ PendingInv' /\ OutcomeInv'
  <2>1. at # "cert" /\ at' \in Stages \ {"idle", "check", "pinned", "cert"} /\ vg' \in BOOLEAN
    BY <1>1, <1>3 DEF Stages
  <2>2. \A n \in Spc!Range1(d.recs) : n \in Name /\ Here[n] = "Absent"
    BY <1>6 DEF Spc!Recs
  <2> QED
    BY <1>1, <1>2, <1>3, <1>5, <1>7, <2>1, <2>2, PushStage
<1>9. OnTop'
  <2>1. /\ Exact(fe) /\ fe.vis = Len(fe.consts) /\ fe.vis \in Nat
        /\ mark.vis \in 0 .. fe.vis /\ mark.tables \in 0 .. Len(fe.tables)
    BY <1>1, <1>3 DEF Inv, IndexInv, Exact, FE
  <2>2. PopTemp(fe', d.recs, displaced') = fe
    BY <1>1, <1>2, <1>3, <1>7, <2>1, PopPush
  <2>3. \A n \in Spc!Recs(d) : ~Holds(fe, n)
    BY <1>1, <1>6, NotHeld
  <2>4. mark.vis <= fe.vis /\ mark.tables <= Len(fe.tables)
    BY <2>1, SlotTyped
  <2>5. View(fe, fe.vis) = Spc!AtRecs(Env, d)
    BY <1>2 DEF Here
  <2> QED
    BY <1>1, <1>4, <2>1, <2>2, <2>3, <2>4, <2>5 DEF OnTop
<1>10. Passed'
  BY <1>1, <1>2, <1>4 DEF Inv, Passed
<1>11. KindOK' /\ CacheFresh'
  BY <1>1, <1>3, <1>4 DEF KindOK, CacheFresh
<1> QED
  BY <1>8, <1>9, <1>10, <1>11 DEF Inv

(* Popping them gives it.                                                  *)
LEMMA PopBareRecsKeeps == ASSUME Inv, PopBareRecs PROVE Inv'
<1>1. /\ at = "rules" /\ Passes /\ at' = "finish" /\ cached' = NoCache
      /\ fe' = PopTemp(fe, d.recs, displaced)
      /\ UNCHANGED <<stream, pos, pend, outcome, mark, vg>>
  BY DEF PopBareRecs, Stage, frame, bracket
<1>2. /\ Spc!Types(Spc!AtRules(Env, d), d.rule) /\ Spc!Resolves(Spc!AtRecs(Env, d), d.dom)
  BY <1>1, PassesBlock
<1>3. d.kind = "block" /\ InStep /\ vg = FALSE /\ d.recs \in Seq(Name)
  BY <1>1, BlockOK
<1>4. d' = d /\ Env' = Env
  BY <1>1, SameDecl
<1>5. /\ Exact(fe') /\ fe'.vis = Len(fe'.consts) /\ fe = Push(fe', d.recs, "Bare")
      /\ mark.vis <= fe'.vis /\ mark.tables <= Len(fe'.tables)
      /\ \A n \in Spc!Recs(d) : ~Holds(fe', n)
      /\ View(fe', fe'.vis) = Spc!AtRecs(Env, d)
  BY <1>1 DEF Inv, OnTop
<1>6. \A v \in 0 .. fe'.vis : View(fe, v) = View(fe', v)
  <2>1. Spc!Distinct(d.recs) /\ "Bare" \in Info
    BY <1>1 DEF Inv, Passed, Info
  <2> QED
    BY <1>3, <1>5, <2>1, PushKeeps DEF Spc!Recs
<1>7. /\ mark.vis \in Nat /\ mark.tables \in Nat /\ fe'.vis \in Nat /\ Len(fe'.tables) \in Nat
  <2>1. mark.vis \in Nat /\ mark.tables \in Nat
    BY <1>3 DEF Inv, IndexInv
  <2> QED
    BY <1>5, <2>1, SlotTyped
<1>8. IndexInv'
  <2>1. mark.vis \in 0 .. fe'.vis /\ mark.tables \in 0 .. Len(fe'.tables)
    BY <1>5, <1>7
  <2> QED
    BY <1>1, <1>5, <2>1 DEF IndexInv
<1>9. TypeOK' /\ ViewInv' /\ Installed' /\ PendingInv' /\ OutcomeInv'
  <2>1. vg' \in BOOLEAN /\ at' \in Stages \ {"idle", "check"}
    BY <1>1, <1>3 DEF Stages
  <2>2. \A v \in 0 .. mark.vis : View(fe, v)' = View(fe, v)
    BY <1>5, <1>6, <1>7
  <2>3. Here' = Due'
    BY <1>1, <1>4, <1>5 DEF Here, Due, Env
  <2> QED
    BY <2>1, <2>2, <2>3, <1>1, <1>3, <1>8, StageFrame
<1>10. Passed'
  BY <1>1, <1>2, <1>4 DEF Inv, Passed
<1>11. KindOK' /\ CacheFresh' /\ OnTop'
  BY <1>1, <1>3, <1>4 DEF KindOK, CacheFresh, OnTop
<1> QED
  BY <1>8, <1>9, <1>10, <1>11 DEF Inv

(* The recursors with their rules and the tables of the structures: below  *)
(* the bracket's bound the formers are not there, so the tables are not.   *)
LEMMA InstallRecsKeeps == ASSUME Inv, InstallRecs PROVE Inv'
<1> DEFINE h == Push(fe, d.recs, "Rec")
<1>1. /\ at = "finish" /\ at' = "promote"
      /\ fe' = PushTables(h, d.structs)
      /\ UNCHANGED <<stream, pos, pend, outcome, mark, vg>>
  BY DEF InstallRecs, Stage, frame, bracket
<1>2. /\ Spc!Installs(Env, d) /\ Here = Spc!AtRecs(Env, d)
      /\ Spc!Distinct(d.recs) /\ Spc!AllFresh(Spc!AtRecs(Env, d), Spc!Recs(d))
      /\ Spc!AllFresh(Env, Spc!Formers(d)) /\ View(fe, mark.vis) = Env
      /\ mark.vis \in Nat
  BY <1>1, PassesFinish DEF Inv, ViewInv, Due, Env, Passed, InStep, IndexInv
<1>3. /\ d.kind = "block" /\ WellFormed(d) /\ InStep /\ vg = FALSE /\ d.recs \in Seq(Name)
      /\ Spc!Recs(d) \subseteq Name
  BY <1>1, BlockOK
<1>4. \A n \in Spc!Range1(d.structs) :
        n \in Name /\ n \in Spc!Formers(d) /\ n \notin Spc!Recs(d) /\ Here[n] = "Ind"
  BY <1>1, PassesFinish
<1>5. d' = d /\ Env' = Env
  BY <1>1, SameDecl
<1>6. /\ Exact(h) /\ h.vis = Len(h.consts) /\ h.tables = fe.tables /\ h.vis \in Nat
      /\ mark.vis \in 0 .. h.vis /\ mark.tables \in 0 .. Len(h.tables)
      /\ View(h, h.vis) = Spc!With(Here, Spc!Recs(d), "Rec")
      /\ \A v \in 0 .. mark.vis : View(h, v) = View(fe, v)
  <2>1. \A n \in Spc!Range1(d.recs) : n \in Name /\ Here[n] = "Absent"
    BY <1>2, <1>3 DEF Spc!AllFresh, Spc!Recs
  <2>2. "Rec" \in Info /\ at # "cert"
    BY <1>1 DEF Info
  <2>3. /\ Exact(h) /\ h.vis = Len(h.consts) /\ h.tables = fe.tables
        /\ mark.vis \in 0 .. h.vis /\ mark.tables \in 0 .. Len(h.tables)
        /\ View(h, h.vis) = Spc!With(Here, Spc!Recs(d), "Rec")
        /\ \A v \in 0 .. mark.vis : View(h, v) = View(fe, v)
    <3> HIDE DEF h
    <3> QED
      BY <2>1, <2>2, <1>2, <1>3, PushedOn DEF h, Spc!Recs
  <2> HIDE DEF h
  <2>4. h.vis \in Nat
    BY <2>3, SlotTyped
  <2> QED
    BY <2>3, <2>4
<1> HIDE DEF h
<1>7. \A n \in Spc!Range1(d.structs) :
        /\ Shows(h, h.vis, n) = "Ind"
        /\ \E i \in 1 .. Len(h.consts) : h.consts[i] = [name |-> n, info |-> "Ind"]
  <2> SUFFICES ASSUME NEW n \in Spc!Range1(d.structs)
               PROVE  /\ Shows(h, h.vis, n) = "Ind"
                      /\ \E i \in 1 .. Len(h.consts) : h.consts[i] = [name |-> n, info |-> "Ind"]
    OBVIOUS
  <2>1. n \in Name /\ n \notin Spc!Recs(d) /\ Here[n] = "Ind"
    BY <1>4
  <2>2. View(h, h.vis)[n] = "Ind"
    BY <2>1, <1>6 DEF Spc!With
  <2>3. Shows(h, h.vis, n) = "Ind"
    BY <2>1, <2>2 DEF View
  <2> QED
    BY <2>1, <2>3, <1>6, ShowsTells
<1>8. /\ Exact(fe') /\ fe'.consts = h.consts /\ fe'.vis = h.vis
      /\ Len(fe'.tables) = Len(h.tables) + Len(d.structs)
      /\ \A v \in Nat, n \in Name :
           Shows(fe', v, n) = IF n \in Spc!Range1(d.structs) /\ Find(h, v, n) THEN "Struct"
                              ELSE Shows(h, v, n)
  <2>1. d.structs \in Seq(Name)
    <3>1. d.structs \in Seq(Spc!Formers(d)) /\ Spc!Formers(d) \subseteq Name
      BY <1>1, <1>3, BlockOK DEF WellFormed
    <3> QED
      BY <3>1
  <2> QED
    BY <1>1, <1>6, <1>7, <2>1, PushTablesKeeps
<1>9. IndexInv'
  <2>1. Len(d.structs) \in Nat /\ Len(h.tables) \in Nat
    BY <1>3, <1>6, SlotTyped DEF WellFormed
  <2>2. mark.tables \in 0 .. Len(fe'.tables)
    <3>1. mark.tables \in 0 .. Len(h.tables)
      BY <1>6
    <3>2. Len(fe'.tables) = Len(h.tables) + Len(d.structs)
      BY <1>8
    <3>3. \A a, b \in Nat : \A x \in 0 .. a : x \in 0 .. a + b
      OBVIOUS
    <3> QED
      BY <2>1, <3>1, <3>2, <3>3, Zenon
  <2> QED
    BY <1>1, <1>6, <1>8, <2>2 DEF IndexInv
<1>10. Here' = Due'
  <2>1. Due' = Spc!AtEnd(Env, d)
    BY <1>1, <1>3, <1>5 DEF Due, Env, Spc!After
  <2>2. ASSUME NEW n \in Name
        PROVE  Shows(fe', fe'.vis, n) = Spc!AtEnd(Env, d)[n]
    <3>1. Shows(h, h.vis, n) = IF n \in Spc!Recs(d) THEN "Rec" ELSE Here[n]
      BY <1>6 DEF View, Spc!With
    <3>2. Spc!AtEnd(Env, d)[n] =
            IF n \in Spc!Range1(d.structs) THEN "Struct"
            ELSE IF n \in Spc!Recs(d) THEN "Rec" ELSE Here[n]
      BY <1>2 DEF Spc!AtEnd, Spc!With
    <3>3. n \in Spc!Range1(d.structs) => Find(h, h.vis, n)
      BY <1>6, <1>7, ShowsTells
    <3> QED
      BY <3>1, <3>2, <3>3, <1>6, <1>8
  <2>3. Spc!AtEnd(Env, d) = [n \in Name |-> Spc!AtEnd(Env, d)[n]]
    BY DEF Spc!AtEnd, Spc!With
  <2> QED
    BY <2>1, <2>2, <2>3 DEF Here, View
<1>11. \A v \in 0 .. mark.vis : View(fe, v)' = View(fe, v)
  <2> SUFFICES ASSUME NEW v \in 0 .. mark.vis, NEW n \in Name
               PROVE  Shows(fe', v, n) = Shows(h, v, n)
    BY <1>6 DEF View
  <2>1. ASSUME n \in Spc!Range1(d.structs), Find(h, v, n) PROVE FALSE
    <3>1. Find(h, mark.vis, n)
      <4>1. \E i \in 1 .. Len(h.consts) : h.consts[i] = [name |-> n, info |-> "Ind"]
        BY <2>1, <1>7
      <4>2. PICK i \in 1 .. Len(h.consts) : h.consts[i].name = n
        BY <4>1
      <4>3. v \in Nat /\ v <= mark.vis /\ Len(h.consts) \in Nat
        BY <1>2, <1>6
      <4> QED
        BY <2>1, <4>2, <4>3, <1>2, <1>6, ShowsSlot
    <3>2. Shows(h, mark.vis, n) # "Absent"
      BY <3>1, <1>2, <1>6, ShowsTells
    <3>3. View(h, mark.vis) = Env
      BY <1>2, <1>6
    <3>4. Env[n] = "Absent"
      BY <2>1, <1>2, <1>4 DEF Spc!AllFresh
    <3> QED
      BY <3>2, <3>3, <3>4 DEF View
  <2>2. v \in Nat
    BY <1>2
  <2> QED
    BY <2>1, <2>2, <1>8
<1>12. TypeOK' /\ ViewInv' /\ Installed' /\ PendingInv' /\ OutcomeInv'
  <2>1. vg' \in BOOLEAN /\ at' \in Stages \ {"idle", "check"}
    BY <1>1, <1>3 DEF Stages
  <2> QED
    BY <2>1, <1>1, <1>3, <1>9, <1>10, <1>11, StageFrame
<1>13. KindOK' /\ OnTop' /\ Passed' /\ CacheFresh'
  <2>1. d.kind \notin Spc!ValueKind
    BY <1>3 DEF Spc!ValueKind
  <2> QED
    BY <2>1, <1>1, <1>2, <1>3, <1>5 DEF KindOK, OnTop, Passed, CacheFresh
<1> QED
  BY <1>9, <1>12, <1>13 DEF Inv

-----------------------------------------------------------------------------
(* Closing the bracket re-indexes what the step installed and may add a    *)
(* record, whose bound shows the environment of its own position.          *)
LEMMA CloseStepKeeps == ASSUME Inv, CloseStep PROVE Inv'
<1>1. /\ at = "promote" /\ at' = "idle" /\ vg' = FALSE /\ cached' = NoCache
      /\ fe' = Reindexed(fe, mark) /\ pos' = pos + 1
      /\ pend' = IF vg THEN Append(pend, Pending) ELSE pend
      /\ UNCHANGED <<stream, outcome>>
  BY DEF CloseStep, Stage
<1>2. /\ InStep /\ ~InStep' /\ pos < Len(stream) /\ Len(stream) \in Nat /\ pos \in Nat
      /\ pos + 1 \in 1 .. Len(stream) /\ (pos + 1) - 1 = pos
      /\ WellFormed(d) /\ d = stream[pos + 1]
  BY <1>1, DeclOK DEF Inv, TypeOK, InStep, d
<1>3. /\ Exact(fe) /\ fe.vis = Len(fe.consts) /\ fe.vis \in Nat /\ Here = Spc!After(Env, d)
      /\ View(fe, mark.vis) = Env /\ Spc!Installs(Env, d)
      /\ mark.vis \in 0 .. fe.vis /\ mark.tables \in 0 .. Len(fe.tables)
  BY <1>1, <1>2 DEF Inv, IndexInv, ViewInv, Due, Env, Passed, Exact, FE
<1>4. /\ Exact(fe') /\ fe'.consts = fe.consts /\ fe'.vis = fe.vis
      /\ \A v \in Nat : View(fe', v) = View(fe, v)
  BY <1>1, <1>3, ReindexKeeps
<1>5. Env' = Spc!After(Env, d)
  <2>1. Spc!EnvAfter(stream)[pos + 1] =
          Spc!After(Spc!EnvAfter(stream)[pos + 1 - 1], stream[pos + 1])
    BY <1>2, EnvUnfolds
  <2>2. Env' = Spc!EnvAfter(stream)[pos + 1]
    BY <1>1 DEF Env
  <2> QED
    BY <1>2, <2>1, <2>2 DEF Env
<1>6. pend \in Seq(PendingCheck) /\ Len(pend) \in Nat /\ vg \in BOOLEAN
      /\ \A k \in 1 .. Len(pend) : pend[k] \in PendingCheck
  BY DEF Inv, TypeOK
<1>7. Pending \in PendingCheck /\ Pending.vg = d /\ Pending.pos = pos /\ Pending.vis = mark.vis
  <2>1. d \in {stream[i] : i \in 1 .. Len(stream)} /\ pos \in 0 .. Len(stream) - 1
    BY <1>2
  <2>2. mark.vis \in Nat
    BY <1>3
  <2> QED
    BY <2>1, <2>2 DEF Pending, PendingCheck
<1>8. TypeOK'
  <2>1. pend' \in Seq(PendingCheck)
    <3> HIDE DEF Pending, PendingCheck
    <3> QED
      BY <1>1, <1>6, <1>7
  <2>2. PendingCheck' = PendingCheck
    BY <1>1 DEF PendingCheck
  <2>3. pos' \in 0 .. Len(stream)
    BY <1>1, <1>2
  <2> QED
    BY <1>1, <1>2, <2>1, <2>2, <2>3 DEF Inv, TypeOK, Stages
<1>9. IndexInv'
  BY <1>1, <1>2, <1>3, <1>4 DEF IndexInv
<1>10. \A k \in 1 .. Len(pend) :
         /\ pend[k].pos \in Nat /\ pend[k].pos < pos
         /\ pend[k].vis \in Nat /\ pend[k].vis <= mark.vis
         /\ pend[k].vg = stream[pend[k].pos + 1] /\ pend[k].vg.kind \in Spc!ValueKind
         /\ View(fe, pend[k].vis) = Spc!EnvAfter(stream)[pend[k].pos]
  <2>1. ASSUME NEW k \in 1 .. Len(pend) PROVE pend[k].pos \in Nat /\ pend[k].vis \in Nat
    <3>1. pend[k].pos \in 0 .. Len(stream) - 1 /\ pend[k].vis \in Nat
      BY <1>6 DEF PendingCheck
    <3> QED
      BY <3>1
  <2>2. \A k \in 1 .. Len(pend) :
          /\ pend[k].pos < pos /\ pend[k].vis <= mark.vis
          /\ pend[k].vg = stream[pend[k].pos + 1] /\ pend[k].vg.kind \in Spc!ValueKind
    BY <1>2 DEF Inv, PendingInv, Base
  <2>3. \A k \in 1 .. Len(pend) : View(fe, pend[k].vis) = Spc!EnvAfter(stream)[pend[k].pos]
    BY DEF Inv, ViewInv, PrefixView
  <2> QED
    BY <2>1, <2>2, <2>3
(* The records afterwards: those of before, and the step's own on the end. *)
<1>11. /\ Len(pend') \in Nat
       /\ \A k \in 1 .. Len(pend') :
            \/ k \in 1 .. Len(pend) /\ pend'[k] = pend[k]
            \/ vg /\ k = Len(pend) + 1 /\ pend'[k] = Pending /\ ~ (k \in 1 .. Len(pend))
       /\ \A k \in 1 .. Len(pend) : k \in 1 .. Len(pend') /\ pend'[k] = pend[k]
       /\ vg => Len(pend) + 1 \in 1 .. Len(pend') /\ pend'[Len(pend) + 1] = Pending
  <2> HIDE DEF Pending, PendingCheck
  <2>1. CASE vg
    <3>1. pend' = Append(pend, Pending)
      BY <2>1, <1>1
    <3>2. Len(pend') = Len(pend) + 1 /\ pend'[Len(pend) + 1] = Pending
          /\ \A k \in 1 .. Len(pend) : pend'[k] = pend[k]
      BY <3>1, <1>6, <1>7
    <3> QED
      BY <2>1, <3>2, <1>6
  <2>2. CASE ~vg
    BY <2>2, <1>1, <1>6
  <2> QED
    BY <2>1, <2>2
<1>12. vg <=> d.kind \in Spc!ValueKind
  BY <1>1 DEF Inv, KindOK
<1>13. ViewInv'
  <2>1. Here' = Here
    BY <1>3, <1>4 DEF Here
  <2>2. Due' = Env'
    BY <1>1 DEF Due, Env
  <2>3. ASSUME NEW k \in 1 .. Len(pend')
        PROVE  View(fe', pend'[k].vis) = Spc!EnvAfter(stream)[pend'[k].pos]
    <3>1. CASE k \in 1 .. Len(pend) /\ pend'[k] = pend[k]
      BY <3>1, <1>4, <1>10
    <3>2. CASE pend'[k] = Pending
      <4>1. mark.vis \in Nat
        BY <1>3
      <4> QED
        BY <3>2, <4>1, <1>3, <1>4, <1>7 DEF Env
    <3> QED
      BY <3>1, <3>2, <1>11
  <2>4. PrefixView'
    BY <2>3, <1>1 DEF PrefixView
  <2> QED
    BY <1>2, <1>3, <1>5, <2>1, <2>2, <2>4 DEF ViewInv
<1>14. Installed'
  <2> SUFFICES ASSUME NEW i \in 1 .. pos + 1
               PROVE  Spc!Installs(Spc!EnvAfter(stream)[i - 1], stream[i])
    BY <1>1 DEF Installed
  <2>1. CASE i \in 1 .. pos
    BY <2>1 DEF Inv, Installed
  <2>2. CASE i = pos + 1
    BY <2>2, <1>2, <1>3 DEF Env
  <2> QED
    BY <2>1, <2>2, <1>2
<1>15. PendingInv'
  <2>1. fe'.vis \in Nat /\ mark.vis \in Nat /\ mark.vis <= fe'.vis /\ Base' = fe'.vis
    BY <1>2, <1>3, <1>4 DEF Base
  <2>2. ASSUME NEW k \in 1 .. Len(pend')
        PROVE  /\ pend'[k].pos < pos + 1 /\ pend'[k].vis <= fe'.vis
               /\ pend'[k].vg = stream[pend'[k].pos + 1] /\ pend'[k].vg.kind \in Spc!ValueKind
    <3>1. CASE k \in 1 .. Len(pend) /\ pend'[k] = pend[k]
      <4>1. pend[k].pos < pos + 1 /\ pend[k].vis <= fe'.vis
        BY <3>1, <2>1, <1>2, <1>10
      <4> QED
        BY <3>1, <4>1, <1>10
    <3>2. CASE vg /\ pend'[k] = Pending
      BY <3>2, <2>1, <1>2, <1>7, <1>12
    <3> QED
      BY <3>1, <3>2, <1>11
  <2>3. ASSUME NEW j \in 1 .. Len(pend'), NEW k \in 1 .. Len(pend'), j < k
        PROVE  pend'[j].pos < pend'[k].pos
    <3>1. j \in 1 .. Len(pend) /\ pend'[j] = pend[j]
      BY <2>3, <1>6, <1>11
    <3>2. CASE k \in 1 .. Len(pend) /\ pend'[k] = pend[k]
      BY <2>3, <3>1, <3>2 DEF Inv, PendingInv
    <3>3. CASE pend'[k] = Pending
      BY <3>1, <3>3, <1>7, <1>10
    <3> QED
      BY <3>2, <3>3, <1>11
  <2>4. ASSUME NEW i \in 1 .. pos + 1, stream[i].kind \in Spc!ValueKind
        PROVE  \E k \in 1 .. Len(pend') : pend'[k].pos = i - 1
    <3>1. CASE i \in 1 .. pos
      <4>1. PICK k \in 1 .. Len(pend) : pend[k].pos = i - 1
        BY <2>4, <3>1 DEF Inv, PendingInv
      <4> QED
        BY <4>1, <1>11
    <3>2. CASE i = pos + 1
      <4>1. vg
        BY <2>4, <3>2, <1>2, <1>12
      <4> QED
        BY <4>1, <3>2, <1>2, <1>7, <1>11
    <3> QED
      BY <3>1, <3>2, <1>2
  <2>5. \A k \in 1 .. Len(pend') :
          /\ pend'[k].pos < pos' /\ pend'[k].vis <= Base'
          /\ pend'[k].vg = stream'[pend'[k].pos + 1] /\ pend'[k].vg.kind \in Spc!ValueKind
    BY <2>1, <2>2, <1>1
  <2>6. \A i \in 1 .. pos' : stream'[i].kind \in Spc!ValueKind =>
          \E k \in 1 .. Len(pend') : pend'[k].pos = i - 1
    BY <2>4, <1>1
  <2> QED
    BY <2>3, <2>5, <2>6 DEF PendingInv
<1>16. KindOK' /\ OnTop' /\ Passed' /\ CacheFresh' /\ OutcomeInv'
  BY <1>1 DEF KindOK, OnTop, Passed, CacheFresh, OutcomeInv
<1> QED
  BY <1>8, <1>9, <1>13, <1>14, <1>15, <1>16 DEF Inv

(* Entering phase B keeps the invariant.                                   *)
LEMMA EnterCheckKeeps == ASSUME Inv, EnterCheck PROVE Inv'
<1>1. /\ at = "idle" /\ at' = "check" /\ pos = Len(stream)
      /\ outcome' = [k \in 1 .. Len(pend) |-> "none"]
      /\ UNCHANGED <<stream, pos, fe, pend, mark, vg, displaced, cached>>
  BY DEF EnterCheck, Stage, bracket
<1>2. ~InStep /\ ~InStep'
  BY <1>1 DEF InStep
<1>3. TypeOK'
  <2>1. PendingCheck' = PendingCheck
    BY <1>1 DEF PendingCheck
  <2> QED
    BY <1>1, <1>2, <2>1 DEF Inv, TypeOK, Stages
<1>4. KindOK'
  <2>1. ~vg
    BY <1>1 DEF Inv, KindOK
  <2> QED
    BY <1>1, <2>1 DEF KindOK
<1>5. IndexInv'
  BY <1>1, <1>2 DEF Inv, IndexInv
<1>6. ViewInv'
  <2>1. Here' = Here /\ Due' = Due /\ PrefixView'
    BY <1>1 DEF Inv, ViewInv, Here, Due, PrefixView
  <2> QED
    BY <1>2, <2>1 DEF Inv, ViewInv
<1>7. OnTop' /\ Passed' /\ CacheFresh'
  BY <1>1 DEF OnTop, Passed, CacheFresh
<1>8. Installed' /\ PendingInv'
  BY <1>1, <1>2 DEF Inv, Installed, PendingInv, Base
<1>9. OutcomeInv'
  BY <1>1 DEF OutcomeInv
<1> QED
  BY <1>3, <1>4, <1>5, <1>6, <1>7, <1>8, <1>9 DEF Inv

(* A step that leaves all but the outcomes and the verdict keeps the rest. *)
LEMMA OnlyOutcome ==
  ASSUME Inv, UNCHANGED <<stream, pos, fe, pend, at, mark, vg, displaced, cached>>, OutcomeInv'
  PROVE  Inv'
<1>1. TypeOK' /\ KindOK' /\ IndexInv' /\ OnTop' /\ Passed' /\ CacheFresh' /\ Installed' /\ PendingInv'
  <2>1. d' = d /\ Env' = Env /\ Here' = Here /\ InStep' = InStep /\ PendingCheck' = PendingCheck
    BY DEF d, Env, Here, InStep, PendingCheck
  <2>2. TypeOK' /\ KindOK'
    BY <2>1 DEF Inv, TypeOK, KindOK
  <2>3. IndexInv' /\ OnTop'
    BY <2>1 DEF Inv, IndexInv, OnTop
  <2>4. Passed' /\ CacheFresh'
    BY <2>1 DEF Inv, Passed, CacheFresh
  <2>5. Installed' /\ PendingInv'
    BY <2>1 DEF Inv, Installed, PendingInv, Base
  <2> QED
    BY <2>2, <2>3, <2>4, <2>5
<1>2. ViewInv'
  BY DEF Inv, ViewInv, Here, Due, Env, InStep, PrefixView, d
<1> QED
  BY <1>1, <1>2 DEF Inv

(* A worker that checks a record, or gives up on it, keeps the invariant.  *)
LEMMA CheckPendingKeeps ==
  ASSUME Inv, NEW k \in DOMAIN outcome, CheckPending(k) PROVE Inv'
<1>1. /\ at = "check" /\ UNCHANGED <<stream, pos, fe, pend, at, mark, vg, displaced, cached>>
  BY DEF CheckPending, Stage, bracket
<1>2. PICK r \in {IF ChecksOut(pend[k]) THEN "ok" ELSE "refused", "limit"} :
        outcome' = [outcome EXCEPT ![k] = r]
  BY DEF CheckPending
<1>3. outcome \in [1 .. Len(pend) -> {"none", "ok", "refused", "limit"}]
  BY <1>1 DEF Inv, OutcomeInv
<1>4. r \in {"ok", "refused", "limit"} /\ (r = "ok" => ChecksOut(pend[k]))
      /\ (r = "refused" => ~ChecksOut(pend[k]))
  BY <1>2
<1>5. OutcomeInv'
  <2>1. outcome' \in [1 .. Len(pend) -> {"none", "ok", "refused", "limit"}]
    BY <1>2, <1>3, <1>4
  <2>2. \A j \in 1 .. Len(pend) : outcome'[j] = IF j = k THEN r ELSE outcome[j]
    BY <1>2, <1>3
  <2>3. \A j \in 1 .. Len(pend) : /\ outcome'[j] = "ok" => ChecksOut(pend[j])
                                  /\ outcome'[j] = "refused" => ~ChecksOut(pend[j])
    BY <2>2, <1>1, <1>4 DEF Inv, OutcomeInv
  <2>4. \A j \in 1 .. Len(pend) : ChecksOut(pend[j])' <=> ChecksOut(pend[j])
    BY <1>1 DEF ChecksOut
  <2> QED
    BY <1>1, <2>1, <2>3, <2>4 DEF OutcomeInv
<1> QED
  BY <1>1, <1>5, OnlyOutcome

(* A step that changes only the verdict keeps the invariant.               *)
LEMMA SameKeeps ==
  ASSUME Inv, UNCHANGED <<stream, pos, fe, pend, at, bracket, cached, outcome>> PROVE Inv'
<1>1. OutcomeInv'
  BY DEF Inv, OutcomeInv, ChecksOut, bracket
<1> QED
  BY <1>1, OnlyOutcome DEF bracket

(* In every state of every run of the fold, whatever the stream, the       *)
(* invariant holds: it is what the theorems below rest on.                 *)
THEOREM FoldInv == Spec => []Inv
<1>1. Inv /\ [Next]_vars => Inv'
  <2> SUFFICES ASSUME Inv, [Next]_vars PROVE Inv'
    OBVIOUS
  <2>1. CASE OpenStep
    BY <2>1, OpenStepKeeps
  <2>2. CASE InstallValue
    BY <2>2, InstallValueKeeps
  <2>3. CASE InstallAxiom
    BY <2>3, InstallAxiomKeeps
  <2>4. CASE InstallPinned
    BY <2>4, InstallPinnedKeeps
  <2>5. CASE Certify
    BY <2>5, CertifyKeeps
  <2>6. CASE InstallFormers
    BY <2>6, InstallFormersKeeps
  <2>7. CASE InstallCtors
    BY <2>7, InstallCtorsKeeps
  <2>8. CASE PushBareRecs
    BY <2>8, PushBareRecsKeeps
  <2>9. CASE PopBareRecs
    BY <2>9, PopBareRecsKeeps
  <2>10. CASE InstallRecs
    BY <2>10, InstallRecsKeeps
  <2>11. CASE CloseStep
    BY <2>11, CloseStepKeeps
  <2>12. CASE RefuseStep \/ StepAtLimit \/ PhaseBVerdict
    BY <2>12, SameKeeps DEF RefuseStep, StepAtLimit, PhaseBVerdict
  <2>13. CASE EnterCheck
    BY <2>13, EnterCheckKeeps
  <2>14. CASE \E k \in DOMAIN outcome : CheckPending(k)
    BY <2>14, CheckPendingKeeps
  <2>15. CASE Stopped \/ UNCHANGED vars
    BY <2>15, SameKeeps DEF Stopped, vars, bracket
  <2> QED
    BY <2>1, <2>2, <2>3, <2>4, <2>5, <2>6, <2>7, <2>8, <2>9, <2>10, <2>11, <2>12, <2>13,
       <2>14, <2>15 DEF Next
<1> QED
  BY <1>1, InitInv, PTL DEF Spec

-----------------------------------------------------------------------------
(* At every stage a lookup answers, for every name, what the stage is      *)
(* entitled to see, however often the environment was turned back before.  *)
THEOREM ViewIsExact == Spec => []ViewExact
<1>1. Inv => ViewExact
  BY DEF Inv, ViewInv, ViewExact
<1> QED
  BY <1>1, FoldInv, PTL

(* No name is stored twice, and the row of each is its counter and slot.   *)
THEOREM IndexIsExact == Spec => []IndexExact
<1>1. ASSUME Inv PROVE IndexExact
  <2>1. \A i \in 1 .. Len(fe.consts) : fe.idx[fe.consts[i].name] = <<i - 1, i>>
    BY <1>1 DEF Inv, IndexInv, Exact
  <2>2. ASSUME NEW i \in 1 .. Len(fe.consts), NEW j \in 1 .. Len(fe.consts),
               fe.consts[i].name = fe.consts[j].name
        PROVE  i = j
    <3>1. <<i - 1, i>> = <<j - 1, j>>
      BY <2>1, <2>2
    <3> QED
      BY <3>1
  <2> QED
    BY <2>1, <2>2 DEF IndexExact
<1> QED
  BY <1>1, FoldInv, PTL

(* A pending record's bound shows the environment of its own position for  *)
(* as long as the run lasts.                                               *)
THEOREM PrefixViewHolds == Spec => []PrefixView
<1>1. Inv => PrefixView
  BY DEF Inv, ViewInv
<1> QED
  BY <1>1, FoldInv, PTL

(* No result about another environment than the one in view is answered    *)
(* from the caches.                                                        *)
THEOREM CachesAreFresh == Spec => []CacheFresh
<1>1. Inv => CacheFresh
  BY DEF Inv
<1> QED
  BY <1>1, FoldInv, PTL

-----------------------------------------------------------------------------
(* A stage that refuses does so for a reason the one-pass checker has.     *)
LEMMA RefusedCannotInstall ==
  ASSUME Inv, ~Passes
  PROVE  pos < Len(stream) /\ ~Spc!Installs(Env, d)
<1>1. at \in {"value", "axiom", "pinned", "cert", "formers", "ctors", "recs", "rules", "finish"}
  BY DEF Passes
<1>2. pos < Len(stream)
  BY <1>1 DEF Inv, TypeOK, InStep
<1>3. CASE at \in {"value", "axiom", "cert"}
  <2>1. CASE at = "value"
    BY <1>2, <2>1, PassesValue
  <2>2. CASE at = "axiom"
    BY <1>2, <2>2, PassesAxiom
  <2>3. CASE at = "cert"
    BY <1>2, <2>3, PassesCert
  <2> QED
    BY <1>3, <2>1, <2>2, <2>3
<1>4. CASE at = "pinned"
  <2>1. d.kind = "pinned"
    BY <1>4 DEF Inv, KindOK
  <2>2. ~ (d.pin /\ Spc!AllFresh(Env, {d.name}) /\ Spc!Types(Env, d.ty) /\ Spc!Types(Env, d.val))
    BY <1>4, PassesPinned
  <2>3. Spc!Installs(Env, d) =>
          d.pin /\ Spc!AllFresh(Env, {d.name}) /\ Spc!Types(Env, d.ty) /\ Spc!Types(Env, d.val)
    BY <2>1 DEF Spc!Installs
  <2> QED
    BY <1>2, <2>2, <2>3
<1>5. CASE at \in {"formers", "ctors", "recs", "rules"}
  <2>1. d.kind = "block"
    BY <1>5 DEF Inv, KindOK
  <2>2. ~ (d.pin /\ Spc!GoodBlock(Env, d))
    BY <1>5, PassesBlock DEF Spc!GoodBlock
  <2> QED
    BY <1>2, <2>1, <2>2 DEF Spc!Installs
<1>6. CASE at = "finish"
  BY <1>6, PassesFinish
<1> QED
  BY <1>1, <1>2, <1>3, <1>4, <1>5, <1>6

(* Checking a pending record is the second half of the one-pass check of   *)
(* the declaration at its position.                                        *)
LEMMA OutcomeTells ==
  ASSUME Inv, at = "check", NEW k \in 1 .. Len(pend)
  PROVE  LET p == pend[k].pos + 1 IN
         /\ p \in 1 .. Len(stream) /\ p - 1 = pend[k].pos
         /\ stream[p].kind \in Spc!ValueKind
         /\ ChecksOut(pend[k]) <=> Spc!ValueChecks(Spc!EnvAfter(stream)[p - 1], stream[p])
<1> DEFINE p == pend[k].pos + 1
<1>1. Len(stream) \in Nat /\ pend[k] \in PendingCheck
  BY DeclOK DEF Inv, TypeOK
<1>2. pend[k].pos \in 0 .. Len(stream) - 1
  BY <1>1 DEF PendingCheck
<1>3. p \in 1 .. Len(stream) /\ p - 1 = pend[k].pos
  BY <1>1, <1>2
<1>4. /\ pend[k].vg = stream[p] /\ stream[p].kind \in Spc!ValueKind
      /\ View(fe, pend[k].vis) = Spc!EnvAfter(stream)[pend[k].pos]
  BY DEF Inv, PendingInv, ViewInv, PrefixView
<1> HIDE DEF p
<1>5. ChecksOut(pend[k]) <=> Spc!ValueChecks(Spc!EnvAfter(stream)[p - 1], stream[p])
  BY <1>3, <1>4 DEF ChecksOut, Spc!ValueChecks
<1> QED
  BY <1>3, <1>4, <1>5 DEF p

(* What phase B concludes, the one-pass checker justifies: acceptance only *)
(* if it refuses nothing, a refusal at its first refusal.                  *)
LEMMA VerdictJustified ==
  ASSUME Inv, PhaseBVerdict
  PROVE  Spc!Justified(stream, verdict')
<1>1. /\ at = "check" /\ pos = Len(stream) /\ Len(stream) \in Nat
      /\ outcome \in [1 .. Len(pend) -> {"none", "ok", "refused", "limit"}]
      /\ Len(pend) \in Nat
  BY DeclOK DEF PhaseBVerdict, Stage, Inv, TypeOK, OutcomeInv
<1>2. \A i \in 1 .. Len(stream) : Spc!Installs(Spc!EnvAfter(stream)[i - 1], stream[i])
  BY <1>1 DEF Inv, Installed
<1>3. \A k \in 1 .. Len(pend) :
        /\ outcome[k] = "ok" => ChecksOut(pend[k])
        /\ outcome[k] = "refused" => ~ChecksOut(pend[k])
  BY <1>1 DEF Inv, OutcomeInv
(* Every refused declaration has a record that was not answered "ok".      *)
<1>4. ASSUME NEW i \in Spc!Refused(stream)
      PROVE  i \in 1 .. Len(stream)
             /\ \E k \in 1 .. Len(pend) : pend[k].pos = i - 1 /\ outcome[k] # "ok"
  <2>1. i \in 1 .. Len(stream) /\ ~Spc!ValueChecks(Spc!EnvAfter(stream)[i - 1], stream[i])
    BY <1>2 DEF Spc!Refused, Spc!Accepts
  <2>2. stream[i].kind \in Spc!ValueKind
    BY <2>1 DEF Spc!ValueChecks
  <2>3. PICK k \in 1 .. Len(pend) : pend[k].pos = i - 1
    BY <1>1, <2>1, <2>2 DEF Inv, PendingInv
  <2>4. ~ChecksOut(pend[k])
    <3>1. pend[k].pos + 1 = i
      BY <2>1, <2>3
    <3> QED
      BY <1>1, <2>1, <3>1, OutcomeTells
  <2> QED
    BY <1>3, <2>1, <2>3, <2>4
<1>5. CASE (\A k \in DOMAIN outcome : outcome[k] = "ok") /\ verdict' = Spc!Accepted
  <2>1. Spc!Refused(stream) = {}
    BY <1>1, <1>4, <1>5
  <2> QED
    BY <1>5, <2>1 DEF Spc!Justified
<1>6. ASSUME NEW k \in DOMAIN outcome, FirstBad(k), outcome[k] = "refused",
             verdict' = Spc!RefusedAt(pend[k].pos)
      PROVE  Spc!Justified(stream, verdict')
  <2> DEFINE p == pend[k].pos + 1
  <2>1. /\ k \in 1 .. Len(pend) /\ p \in 1 .. Len(stream) /\ p - 1 = pend[k].pos
        /\ stream[p].kind \in Spc!ValueKind
        /\ ChecksOut(pend[k]) <=> Spc!ValueChecks(Spc!EnvAfter(stream)[p - 1], stream[p])
    BY <1>1, OutcomeTells
  <2>2. p \in Spc!Refused(stream)
    BY <2>1, <1>3, <1>6 DEF Spc!Refused, Spc!Accepts
  <2>3. ASSUME NEW i \in Spc!Refused(stream) PROVE p <= i
    <3>1. PICK j \in 1 .. Len(pend) : pend[j].pos = i - 1 /\ outcome[j] # "ok"
      BY <1>4
    <3>2. i \in 1 .. Len(stream)
      BY <1>4
    <3>3. k <= j
      <4>1. ~ (j \in 1 .. k - 1)
        BY <1>6, <3>1 DEF FirstBad
      <4> QED
        BY <4>1, <2>1, <1>1
    <3>4. pend[k].pos <= pend[j].pos
      <4>1. CASE k = j
        <5>1. pend[k].pos \in Int
          BY <3>1, <3>2, <4>1
        <5> QED
          BY <5>1, <4>1
      <4>2. CASE k < j
        <5>1. pend[k].pos < pend[j].pos
          BY <4>2, <2>1 DEF Inv, PendingInv
        <5>2. pend[k].pos \in Int /\ pend[j].pos \in Int
          <6>1. pend[k] \in PendingCheck /\ pend[j] \in PendingCheck
            BY <2>1 DEF Inv, TypeOK
          <6> QED
            BY <6>1 DEF PendingCheck
        <5> QED
          BY <5>1, <5>2
      <4> QED
        BY <3>3, <4>1, <4>2, <2>1
    <3>5. pend[k].pos \in Int
      <4>1. pend[k] \in PendingCheck
        BY <2>1 DEF Inv, TypeOK
      <4> QED
        BY <4>1 DEF PendingCheck
    <3> QED
      BY <3>1, <3>2, <3>4, <3>5
  <2> HIDE DEF p
  <2>4. verdict' = Spc!RefusedAt(p - 1)
    BY <1>6, <2>1
  <2> QED
    BY <2>2, <2>3, <2>4 DEF Spc!Justified
<1>7. ASSUME NEW k \in DOMAIN outcome, verdict' = Spc!LimitAt(pend[k].pos)
      PROVE  Spc!Justified(stream, verdict')
  <2> DEFINE p == pend[k].pos + 1
  <2>1. p \in 1 .. Len(stream) /\ p - 1 = pend[k].pos
    BY <1>1, OutcomeTells
  <2> HIDE DEF p
  <2>2. verdict' = Spc!LimitAt(p - 1)
    BY <1>7, <2>1
  <2> QED
    BY <2>1, <2>2 DEF Spc!Justified
<1>8. CASE verdict' = Spc!Internal
  BY <1>8 DEF Spc!Justified
<1> QED
  BY <1>5, <1>6, <1>7, <1>8 DEF PhaseBVerdict, FirstBad

(* The two-phase fold gives only verdicts the one-pass checker justifies:  *)
(* each of its steps is one of CheckDecls or a stutter.                    *)
THEOREM FoldImplements == Spec => Implements
<1>1. Init => Spc!Init
  BY DEF Init, Spc!Init
<1>2. Inv /\ [Next]_vars => [Spc!Decide]_(Spc!vars)
  <2> SUFFICES ASSUME Inv, [Next]_vars PROVE [Spc!Decide]_(Spc!vars)
    OBVIOUS
  <2>1. CASE RefuseStep
    <3>1. /\ verdict = Spc!Running /\ ~Passes /\ verdict' = Spc!RefusedAt(pos)
          /\ UNCHANGED stream
      BY <2>1 DEF RefuseStep
    <3>2. /\ Len(stream) \in Nat /\ pos \in Nat /\ pos + 1 \in 1 .. Len(stream)
          /\ (pos + 1) - 1 = pos /\ ~Spc!Installs(Env, d)
      BY <3>1, RefusedCannotInstall, DeclOK DEF Inv
    <3> DEFINE p == pos + 1
               bad == {i \in 1 .. Len(stream) :
                         ~Spc!Installs(Spc!EnvAfter(stream)[i - 1], stream[i])}
    <3>3. p \in bad
      BY <3>2 DEF Env, d
    <3>4. p \in Spc!Refused(stream)
      BY <3>3 DEF Spc!Refused, Spc!Accepts
    <3>5. \A i \in bad : p <= i
      <4> SUFFICES ASSUME NEW i \in bad PROVE p <= i
        OBVIOUS
      <4>1. ~ (i \in 1 .. pos)
        BY DEF Inv, Installed
      <4> QED
        BY <4>1, <3>2
    <3>6. verdict' = Spc!RefusedAt(p - 1)
      BY <3>1, <3>2
    <3> HIDE DEF p
    <3>7. Spc!Justified(stream, verdict')
      BY <3>3, <3>4, <3>5, <3>6 DEF Spc!Justified
    <3> QED
      BY <3>1, <3>7 DEF Spc!Decide
  <2>2. CASE StepAtLimit
    <3>1. /\ verdict = Spc!Running /\ pos < Len(stream) /\ verdict' = Spc!LimitAt(pos)
          /\ UNCHANGED stream
      BY <2>2 DEF StepAtLimit
    <3>2. Len(stream) \in Nat /\ pos + 1 \in 1 .. Len(stream) /\ (pos + 1) - 1 = pos
      BY <3>1, DeclOK DEF Inv
    <3> DEFINE p == pos + 1
    <3>3. p \in 1 .. Len(stream) /\ verdict' = Spc!LimitAt(p - 1)
      BY <3>1, <3>2
    <3> HIDE DEF p
    <3>4. Spc!Justified(stream, verdict')
      BY <3>3 DEF Spc!Justified
    <3> QED
      BY <3>1, <3>4 DEF Spc!Decide
  <2>3. CASE PhaseBVerdict
    BY <2>3, VerdictJustified DEF PhaseBVerdict, Stage, Spc!Decide
  <2>4. CASE UNCHANGED <<stream, verdict>>
    BY <2>4 DEF Spc!vars
  <2>5. ASSUME ~RefuseStep, ~StepAtLimit, ~PhaseBVerdict PROVE UNCHANGED <<stream, verdict>>
    BY <2>5 DEF Next, vars, frame, bracket, OpenStep, InstallValue, InstallAxiom, InstallPinned,
       Certify, InstallFormers, InstallCtors, PushBareRecs, PopBareRecs, InstallRecs, CloseStep,
       EnterCheck, CheckPending, Stopped
  <2> QED
    BY <2>1, <2>2, <2>3, <2>4, <2>5
<1> QED
  BY <1>1, <1>2, FoldInv, PTL DEF Spec, Implements, Spc!Spec
=============================================================================
