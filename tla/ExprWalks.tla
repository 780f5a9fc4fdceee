------------------------------ MODULE ExprWalks ------------------------------
(***************************************************************************)
(* The walks of arena/expr_ops.rs as they run: cut short by the word each  *)
(* node carries, memoised in the tables of the checker state, bounded by   *)
(* fuel.  Term says what they compute; here is what makes that so hard to  *)
(* see: the word's two bounds saturate, a memo is keyed by node and cursor *)
(* and not by what is substituted, two walks share one table, one walk     *)
(* runs another inside it, and a walk that fails leaves its table filled.  *)
(*                                                                         *)
(* A walk is a tuple <<operation, its fixed arguments...>>.  The cursor d  *)
(* is what moves under binders.  A result is [ok, val, memo]; a failure    *)
(* (no fuel left) has ok = FALSE.                                          *)
(***************************************************************************)
EXTENDS Term
LOCAL INSTANCE SequencesExt
LOCAL INSTANCE TLC

CONSTANT SatRange    \* where the bounds in a word saturate; 32767 in the code
ASSUME SatRangeAssumption == SatRange \in Nat /\ SatRange > 1

-----------------------------------------------------------------------------
(* The word: bounds of the loose bound variables and of the free ones, and *)
(* whether a universe parameter occurs.                                    *)

SatSucc(n) == IF n >= SatRange - 1 THEN SatRange ELSE n + 1
\* An error: a bound that has saturated is lowered under a binder all the same,
\* so that it looks exact.
SatPredAlways(x) == IF x = 0 THEN 0 ELSE x - 1

SatPred(x) == IF x \in {SatRange, 0} THEN x ELSE x - 1

MaxU64(a, b) == IF a < b THEN b ELSE a
PackData(b, f, lp) == [bvar |-> b, fvar |-> f, lp |-> lp]

WordApp(x, y) == PackData(MaxU64(x.bvar, y.bvar), MaxU64(x.fvar, y.fvar), x.lp \/ y.lp)
WordBind(t, b) ==
  PackData(MaxU64(t.bvar, SatPred(b.bvar)), MaxU64(t.fvar, b.fvar), t.lp \/ b.lp)
WordLet(t, v, b) == WordBind(WordApp(t, v), b)

RECURSIVE Word(_)
Word(e) ==
  CASE e[1] = "bvar"           -> PackData(SatSucc(e[2]), 0, FALSE)
    [] e[1] = "fvar"           -> PackData(0, SatSucc(e[2]), Word(e[3]).lp)
    [] e[1] = "sort"           -> PackData(0, 0, LevelHasParam(e[2]))
    [] e[1] = "const"          -> PackData(0, 0, LevelsHaveParam(e[3]))
    [] e[1] = "app"            -> WordApp(Word(e[2]), Word(e[3]))
    [] e[1] \in {"lam", "pi"}  -> WordBind(Word(e[2]), Word(e[3]))
    [] e[1] = "let"            -> WordLet(Word(e[2]), Word(e[3]), Word(e[4]))
    [] e[1] = "proj"           -> Word(e[4])
    [] e[1] \in {"lit", "str"} -> PackData(0, 0, FALSE)

-----------------------------------------------------------------------------
(* Memo tables.                                                            *)

Tables == {"inst1", "instL", "lift", "abs1", "inst1L", "instLp", "instLpL",
           "instLpLs", "bvarB", "fvarB"}
NoMemos == [t \in Tables |-> <<>>]

Res(v, m) == [ok |-> TRUE, val |-> v, memo |-> m]
Fail(m) == [ok |-> FALSE, val |-> <<>>, memo |-> m]

Knows(t, key, m) == key \in DOMAIN m[t]
Known(t, key, m) == Res(m[t][key], m)
Store(t, key, r) ==
  IF r.ok THEN [r EXCEPT !.memo[t] = (key :> r.val) @@ @] ELSE r

\* An error: what a walk finds is left to the next one.
ClearNothing(ts, m) == m

Clear(ts, m) == [t \in Tables |-> IF t \in ts THEN <<>> ELSE m[t]]
ClearAfter(ts, r) == IF r.ok THEN Res(r.val, Clear(ts, r.memo)) ELSE r

\* Each subterm in turn, the memo handed on; the first failure ends it.
Indices(e) == [i \in DOMAIN Kids(e) |-> i]
Then(r, s) == IF s.ok THEN Res(Append(r.val, s.val), s.memo) ELSE s

-----------------------------------------------------------------------------
(* The exact bounds, walked for when the word has saturated.               *)

BoundLeaf(t, e) == IF e[1] = (IF t = "bvarB" THEN "bvar" ELSE "fvar") THEN e[2] + 1 ELSE 0

SubNat(a, b) == IF a < b THEN 0 ELSE a - b
BoundOf(t, e, below) ==
  LET Below(i) == IF t = "bvarB" THEN SubNat(below[i], Opened(e, i)) ELSE below[i]
  IN  FoldLeft(LAMBDA x, i : MaxU64(x, Below(i)), BoundLeaf(t, e), Indices(e))

Combined(t, e, r) == IF r.ok THEN Res(BoundOf(t, e, r.val), r.memo) ELSE r

RECURSIVE BoundGo(_, _, _, _)
BoundGo(t, e, k, m) ==
  IF k = 0 THEN Fail(m)
  ELSE IF Knows(t, e, m) THEN Known(t, e, m)
  ELSE Store(t, e, Combined(t, e,
         FoldLeft(LAMBDA r, i :
                    IF r.ok THEN Then(r, BoundGo(t, Kids(e)[i], k - 1, r.memo)) ELSE r,
                  Res(<<>>, m), Indices(e))))

BoundMemo(t, e, k, m) == ClearAfter({t}, BoundGo(t, e, k, Clear({t}, m)))

BVarB(e, k, m) ==
  IF Word(e).bvar = SatRange THEN BoundMemo("bvarB", e, k, m) ELSE Res(Word(e).bvar, m)
FVarB(e, k, m) ==
  IF Word(e).fvar = SatRange THEN BoundMemo("fvarB", e, k, m) ELSE Res(Word(e).fvar, m)

Mapped(r, yes) == IF r.ok THEN Res(yes, r.memo) ELSE r
AtMost(r, n) == Mapped(r, r.ok /\ r.val <= n)

HasFVarFast(e, k, m) ==
  LET r == FVarB(e, k, m) IN Mapped(r, r.ok /\ r.val # 0)
LooseBVarsBoundedFast(n, e, k, m) == AtMost(BVarB(e, k, m), n)

-----------------------------------------------------------------------------
(* Substitutions.  Where a walk stops short, and what it does at a leaf.   *)

InstListCutoff(e, d) == Word(e).bvar < SatRange /\ Word(e).bvar <= d

LastE(vs, i) == SubSeq(vs, Len(vs) - i + 1, Len(vs))

Instantiate1Leaf(v, e, d, m) ==
  IF ~Is("bvar", e) \/ e[2] < d THEN Res(e, m)
  ELSE Res(IF e[2] = d THEN v ELSE BVar(e[2] - 1), m)

LiftLeaf(amount, e, c, m) ==
  Res(IF Is("bvar", e) /\ e[2] >= c THEN BVar(e[2] + amount) ELSE e, m)

Abstract1Leaf(D, e, c, m) ==
  Res(IF Is("fvar", e) /\ e[2] = D THEN BVar(c) ELSE e, m)

AbstractRangeLeaf(D, n, e, c, m) ==
  Res(IF Is("fvar", e) /\ D <= e[2] /\ e[2] < D + n THEN BVar(c + (D + n - 1 - e[2])) ELSE e, m)

SubstLMemoAt(ks, us, u, m) ==
  IF Knows("instLpL", u, m) THEN Known("instLpL", u, m)
  ELSE Store("instLpL", u, Res(LSubst(ks, us, u), m))
SubstLevelList(ks, us, vs) == [i \in DOMAIN vs |-> LSubst(ks, us, vs[i])]
SubstLsMemoAt(ks, us, vs, m) ==
  IF Knows("instLpLs", vs, m) THEN Known("instLpLs", vs, m)
  ELSE Store("instLpLs", vs, Res(SubstLevelList(ks, us, vs), m))

SortAt(r) == Res(Srt(r.val), r.memo)
ConstAt(n, r) == Res(Cnst(n, r.val), r.memo)
InstLpLeaf(ks, us, e, m) ==
  CASE e[1] = "sort"  -> SortAt(SubstLMemoAt(ks, us, e[2], m))
    [] e[1] = "const" -> ConstAt(e[2], SubstLsMemoAt(ks, us, e[3], m))
    [] OTHER          -> Res(e, m)

Table(w) ==
  CASE w[1] \in {"abs1", "absRange"} -> "abs1"
    [] OTHER -> w[1]

\* The subterms a walk enters: the universe walk also enters the type of a free
\* variable, and has no cursor.
Parts(w, e) == IF w[1] = "instLp" /\ Is("fvar", e) THEN <<e[3]>> ELSE Kids(e)
Cursor(w, e, i, d) == IF w[1] = "instLp" THEN 0 ELSE d + Opened(e, i)
Whole(e, parts) == IF Is("fvar", e) THEN FVar(e[2], parts[1]) ELSE Rebuild(e, parts)
Built(e, r) == IF r.ok THEN Res(Whole(e, r.val), r.memo) ELSE r

CutOff(w, e, d, k, m) ==
  CASE w[1] \in {"inst1", "instL", "lift"} -> Res(InstListCutoff(e, d), m)
    [] w[1] \in {"abs1", "absRange"}       -> AtMost(FVarB(e, k, m), w[2])
    [] w[1] = "inst1L"                     -> AtMost(BVarB(e, k, m), d)
    [] w[1] = "instLp"                     -> Res(~Word(e).lp, m)

\* `instantiate_list` without a memo, which the memoised walk calls at a bound
\* variable: the replacement's own loose variables are filled from the rest.
RECURSIVE InstantiateList(_, _, _, _, _)
InstantiateList(vs, e, d, k, m) ==
  IF k = 0 THEN Fail(m)
  ELSE IF InstListCutoff(e, d) THEN Res(e, m)
  ELSE IF Is("bvar", e)
  THEN IF e[2] < d THEN Res(e, m)
       ELSE IF e[2] - d >= Len(vs) THEN Res(BVar(e[2] - Len(vs)), m)
       ELSE IF InstListCutoff(vs[Len(vs) - (e[2] - d)], d)
       THEN Res(vs[Len(vs) - (e[2] - d)], m)
       ELSE InstantiateList(LastE(vs, e[2] - d), vs[Len(vs) - (e[2] - d)], d, k - 1, m)
  ELSE IF Kids(e) = <<>> THEN Res(e, m)
  ELSE Built(e, FoldLeft(LAMBDA r, i :
         IF r.ok THEN Then(r, InstantiateList(vs, Kids(e)[i], d + Opened(e, i), k - 1, r.memo))
         ELSE r,
         Res(<<>>, m), Indices(e)))

RECURSIVE Walk(_, _, _, _, _)
Leaf(w, e, d, k, m) ==
  CASE w[1] = "inst1"    -> Instantiate1Leaf(w[2], e, d, m)
    [] w[1] = "instL"    -> InstantiateList(w[2], e, d, k, m)
    [] w[1] = "lift"     -> LiftLeaf(w[2], e, d, m)
    [] w[1] = "abs1"     -> Abstract1Leaf(w[2], e, d, m)
    [] w[1] = "absRange" -> AbstractRangeLeaf(w[2], w[3], e, d, m)
    [] w[1] = "instLp"   -> InstLpLeaf(w[2], w[3], e, m)
    [] w[1] = "inst1L"   ->
         IF Is("bvar", e) /\ e[2] = d
         THEN ClearAfter({"lift"}, Walk(<<"lift", d>>, w[2], 0, k, Clear({"lift"}, m)))
         ELSE Instantiate1Leaf(w[2], e, d, m)

WalkParts(w, e, d, k, m) ==
  FoldLeft(LAMBDA r, i :
             IF r.ok THEN Then(r, Walk(w, Parts(w, e)[i], Cursor(w, e, i, d), k, r.memo)) ELSE r,
           Res(<<>>, m), [i \in DOMAIN Parts(w, e) |-> i])

Enter(w, e, d, k, cut) ==
  IF ~cut.ok THEN cut
  ELSE IF cut.val THEN Res(e, cut.memo)
  ELSE IF Parts(w, e) = <<>> THEN Leaf(w, e, d, k, cut.memo)
  ELSE IF Knows(Table(w), <<e, d>>, cut.memo) THEN Known(Table(w), <<e, d>>, cut.memo)
  ELSE Store(Table(w), <<e, d>>, Built(e, WalkParts(w, e, d, k, cut.memo)))

Walk(w, e, d, k, m) ==
  IF k = 0 THEN Fail(m) ELSE Enter(w, e, d, k - 1, CutOff(w, e, d, k - 1, m))

\* Every `_fast` entry: drop what the table holds, walk, drop it again.
OwnTables(w) ==
  IF w[1] = "instLp" THEN {"instLp", "instLpL", "instLpLs"} ELSE {Table(w)}
Fast(w, e, d, k, m) ==
  ClearAfter(OwnTables(w), Walk(w, e, d, k, Clear(OwnTables(w), m)))

Instantiate1Fast(e, v, d, k, m) == Fast(<<"inst1", v>>, e, d, k, m)
InstantiateListFast(e, vs, d, k, m) == Fast(<<"instL", vs>>, e, d, k, m)
LiftLooseBVarsFast(amount, c, e, k, m) == Fast(<<"lift", amount>>, e, c, k, m)
Abstract1Fast(e, D, c, k, m) == Fast(<<"abs1", D>>, e, c, k, m)
AbstractRangeFast(e, D, n, c, k, m) ==
  IF n = 0 THEN Res(e, m) ELSE Fast(<<"absRange", D, n>>, e, c, k, m)
Instantiate1LiftFast(e, v, d, k, m) == Fast(<<"inst1L", v>>, e, d, k, m)
InstLpFast(ks, us, e, k, m) ==
  IF ~Word(e).lp THEN Res(e, m) ELSE Fast(<<"instLp", ks, us>>, e, 0, k, m)

InstSpineStep(r, a, t, k) == IF r.ok THEN Instantiate1Fast(r.val, a, t, k, r.memo) ELSE r
InstSpineFast(args, t, e, k, m) ==
  FoldLeft(LAMBDA r, i : InstSpineStep(r, args[i], SubNat(t, i - 1), k), Res(e, m),
           [i \in DOMAIN args |-> i])

\* A telescope of pis at arguments, None when there are too few pis.
InstPisStep(r, a, k) ==
  IF ~r.ok \/ r.val = <<>> THEN r
  ELSE IF ~Is("pi", r.val[1]) THEN Res(<<>>, r.memo)
  ELSE Then(Res(<<>>, r.memo), Instantiate1LiftFast(r.val[1][3], a, 0, k, r.memo))
InstPisAtLift(args, e, k, m) ==
  FoldLeft(LAMBDA r, a : InstPisStep(r, a, k), Res(<<e>>, m), args)

-----------------------------------------------------------------------------
(* Scope checks.  Their memos are made for the call and dropped with it:   *)
(* here m is the memo itself, not the table of tables.                     *)

StoreOwn(key, r) == IF r.ok THEN [r EXCEPT !.memo = (key :> r.val) @@ @] ELSE r

RECURSIVE WScopedBGo(_, _, _, _)
WScopedBGo(d, e, k, m) ==
  IF k = 0 THEN Fail(m)
  ELSE IF Word(e).fvar = 0 THEN Res(TRUE, m)
  ELSE IF <<e, d>> \in DOMAIN m THEN Res(m[<<e, d>>], m)
  ELSE StoreOwn(<<e, d>>,
         IF Is("fvar", e)
         THEN IF e[2] < d THEN WScopedBGo(e[2], e[3], k - 1, m) ELSE Res(FALSE, m)
         ELSE FoldLeft(LAMBDA r, i : IF r.ok /\ r.val THEN WScopedBGo(d, Kids(e)[i], k - 1, r.memo) ELSE r,
                       Res(TRUE, m), Indices(e)))
WScopedBFast(d, e, k) == WScopedBGo(d, e, k, <<>>)

\* val: the leaves found so far; memo: the nodes seen.
RECURSIVE FVarLeavesGo(_, _, _, _)
FVarLeavesGo(acc, e, k, seen) ==
  IF k = 0 THEN Fail(seen)
  ELSE IF Word(e).fvar = 0 \/ e \in seen THEN Res(acc, seen)
  ELSE IF Is("fvar", e) THEN FVarLeavesGo(Append(acc, <<e[2], e[3]>>), e[3], k - 1, seen \cup {e})
  ELSE FoldLeft(LAMBDA r, i : IF r.ok THEN FVarLeavesGo(r.val, Kids(e)[i], k - 1, r.memo) ELSE r,
                Res(acc, seen \cup {e}), Indices(e))
FVarLeavesFast(e, k) == FVarLeavesGo(<<>>, e, k, {})

LeafMem(bl, e) == \E i \in DOMAIN bl : bl[i] = <<e[2], e[3]>>

RECURSIVE LeavesSubGo(_, _, _, _)
LeavesSubGo(bl, e, k, m) ==
  IF k = 0 THEN Fail(m)
  ELSE IF Word(e).fvar = 0 THEN Res(TRUE, m)
  ELSE IF e \in DOMAIN m THEN Res(m[e], m)
  ELSE StoreOwn(e,
         IF Is("fvar", e)
         THEN IF LeafMem(bl, e) THEN LeavesSubGo(bl, e[3], k - 1, m) ELSE Res(FALSE, m)
         ELSE FoldLeft(LAMBDA r, i : IF r.ok /\ r.val THEN LeavesSubGo(bl, Kids(e)[i], k - 1, r.memo) ELSE r,
                       Res(TRUE, m), Indices(e)))

LeafGuardAt(fab, bl, k) == IF bl.ok THEN LeavesSubGo(bl.val, fab, k, <<>>) ELSE bl
LeafGuardFast(fab, base, k) ==
  IF Word(fab).fvar = 0 THEN Res(TRUE, <<>>) ELSE LeafGuardAt(fab, FVarLeavesFast(base, k), k)
=============================================================================
