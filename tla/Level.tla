------------------------------- MODULE Level -------------------------------
(***************************************************************************)
(* Universe levels (kernel/level.rs), as tagged tuples, and the predicate  *)
(* "this sort is Prop" over universe parameters (kernel/prop_when.rs).     *)
(* The reference-counted node with its hash is the tree itself.            *)
(*                                                                         *)
(*   <<"zero">>  <<"succ", l>>  <<"max", l, r>>  <<"imax", l, r>>          *)
(*   <<"param", n>>                                                        *)
(*                                                                         *)
(* An Option is <<>> for None and <<v>> for Some(v), here and in every     *)
(* module that extends this one.                                           *)
(***************************************************************************)
EXTENDS Integers, Sequences

LZero       == <<"zero">>
LSucc(l)    == <<"succ", l>>
LMax(l, r)  == <<"max", l, r>>
LIMax(l, r) == <<"imax", l, r>>
LParam(n)   == <<"param", n>>

LIs(tag, l) == l[1] = tag

(* `o && p` and `o || p` on Option<bool>, where None ends the evaluation.  *)
BothSome(o, p)   == IF o = <<TRUE>> THEN p ELSE o
EitherSome(o, p) == IF o = <<FALSE>> THEN p ELSE o

(* The level of parameter n under ks |-> vs: the first match counts, and   *)
(* the shorter of the two lists ends the search.                           *)
SubstGo(ks, vs, n) ==
  LET hits == {i \in DOMAIN ks : i <= Len(vs) /\ ks[i] = n}
  IN  IF hits = {} THEN LParam(n) ELSE vs[CHOOSE i \in hits : \A j \in hits : i <= j]

RECURSIVE LSubst(_, _, _), AllParamsDefined(_, _), IsNeverZero(_), LevelHasParam(_)
LSubst(ks, vs, l) ==
  CASE LIs("zero", l)  -> l
    [] LIs("succ", l)  -> LSucc(LSubst(ks, vs, l[2]))
    [] LIs("param", l) -> SubstGo(ks, vs, l[2])
    [] OTHER           -> <<l[1], LSubst(ks, vs, l[2]), LSubst(ks, vs, l[3])>>

AllParamsDefined(ps, l) ==
  CASE LIs("zero", l)  -> TRUE
    [] LIs("succ", l)  -> AllParamsDefined(ps, l[2])
    [] LIs("param", l) -> \E i \in DOMAIN ps : ps[i] = l[2]
    [] OTHER           -> AllParamsDefined(ps, l[2]) /\ AllParamsDefined(ps, l[3])

LevelHasParam(l) ==
  CASE LIs("zero", l)  -> FALSE
    [] LIs("succ", l)  -> LevelHasParam(l[2])
    [] LIs("param", l) -> TRUE
    [] OTHER           -> LevelHasParam(l[2]) \/ LevelHasParam(l[3])
LevelsHaveParam(us) == \E i \in DOMAIN us : LevelHasParam(us[i])

IsNeverZero(l) ==
  \/ LIs("succ", l)
  \/ LIs("max", l) /\ (IsNeverZero(l[2]) \/ IsNeverZero(l[3]))
  \/ LIs("imax", l) /\ IsNeverZero(l[3])

RECURSIVE Combining(_, _), Simplify(_)
Combining(l, r) ==
  CASE LIs("zero", l) -> r
    [] LIs("zero", r) -> l
    [] LIs("succ", l) /\ LIs("succ", r) -> LSucc(Combining(l[2], r[2]))
    [] OTHER -> LMax(l, r)

SimplifyIMax(ls, rs) ==
  CASE ls \in {LZero, LSucc(LZero)} -> rs
    [] LIs("zero", rs) -> LZero
    [] LIs("succ", rs) -> Combining(ls, rs)
    [] OTHER           -> LIMax(ls, rs)

Simplify(l) ==
  CASE LIs("zero", l) \/ LIs("param", l) -> l
    [] LIs("succ", l) -> LSucc(Simplify(l[2]))
    [] LIs("max", l)  -> Combining(Simplify(l[2]), Simplify(l[3]))
    [] LIs("imax", l) -> SimplifyIMax(Simplify(l[2]), Simplify(l[3]))

(* The case split on a parameter p: once at 0, once at p + 1.              *)
AtLevel(p, v, l) == Simplify(LSubst(<<p>>, <<v>>, l))
IsIMaxParam(l)   == LIs("imax", l) /\ LIs("param", l[3])

(* imax a (imax x y) = max (imax a y) (imax x y), and over a max the max   *)
(* of the two, simplified.                                                 *)
Distributes(l) == LIs("imax", l) /\ l[3][1] \in {"imax", "max"}
Distrib(l) ==
  LET a == l[2]  x == l[3][2]  y == l[3][3]
  IN  IF LIs("imax", l[3]) THEN LMax(LIMax(a, y), LIMax(x, y))
      ELSE Simplify(LMax(LIMax(a, x), LIMax(a, y)))

(* l <= r + diff.  The arms of the match, in its order.                    *)
RECURSIVE LeqCore(_, _, _, _)
LeqAtSuccOnly(fuel, p, l, r, diff) ==                  \* mutant: p = 0 forgotten
  LeqCore(fuel, AtLevel(p, LSucc(LParam(p)), l), AtLevel(p, LSucc(LParam(p)), r), diff)
LeqByCases(fuel, p, l, r, diff) ==
  BothSome(LeqCore(fuel, AtLevel(p, LZero, l), AtLevel(p, LZero, r), diff),
           LeqCore(fuel, AtLevel(p, LSucc(LParam(p)), l), AtLevel(p, LSucc(LParam(p)), r), diff))

IMaxRules(fuel, l, r, diff) ==
  CASE IsIMaxParam(l) -> LeqByCases(fuel, l[3][2], l, r, diff)
    [] ~IsIMaxParam(l) /\ IsIMaxParam(r) -> LeqByCases(fuel, r[3][2], l, r, diff)
    [] ~IsIMaxParam(l) /\ ~IsIMaxParam(r) /\ Distributes(l) -> LeqCore(fuel, Distrib(l), r, diff)
    [] ~IsIMaxParam(l) /\ ~IsIMaxParam(r) /\ ~Distributes(l) /\ Distributes(r) ->
         LeqCore(fuel, l, Distrib(r), diff)
    [] OTHER -> <<>>

LeqRest(fuel, l, r, diff) ==
  CASE LIs("param", l) /\ LIs("param", r) -> <<l = r /\ diff >= 0>>
    [] LIs("param", l) /\ LIs("zero", r)  -> <<FALSE>>
    [] LIs("zero", l) /\ LIs("param", r)  -> <<diff >= 0>>
    [] LIs("succ", l) -> LeqCore(fuel, l[2], r, diff - 1)
    [] ~LIs("succ", l) /\ LIs("succ", r)  -> LeqCore(fuel, l, r[2], diff + 1)
    [] LIs("max", l) /\ ~LIs("succ", r) ->
         BothSome(LeqCore(fuel, l[2], r, diff), LeqCore(fuel, l[3], r, diff))
    [] l[1] \in {"param", "zero"} /\ LIs("max", r) ->
         EitherSome(LeqCore(fuel, l, r[2], diff), LeqCore(fuel, l, r[3], diff))
    [] OTHER -> IF l = r /\ LIs("imax", l) /\ diff >= 0 THEN <<TRUE>>
                ELSE IMaxRules(fuel, l, r, diff)

LeqCore(fuel, l, r, diff) ==
  CASE fuel = 0 -> <<>>
    [] fuel > 0 /\ LIs("zero", l) /\ diff >= 0 -> <<TRUE>>
    [] fuel > 0 /\ LIs("zero", r) /\ diff < 0 /\ ~(LIs("zero", l) /\ diff >= 0) -> <<FALSE>>
    [] OTHER -> LeqRest(fuel - 1, l, r, diff)

DefaultFuel == 10000
Leq(l, r) == LeqCore(DefaultFuel, Simplify(l), Simplify(r), 0)

IsEquiv(l, r) ==
  IF l = r \/ Simplify(l) = Simplify(r) THEN <<TRUE>>
  ELSE BothSome(Leq(l, r), Leq(r, l))

(* Two lists are equivalent pointwise; unequal lengths are found only at   *)
(* the end of the shorter one.                                             *)
RECURSIVE IsEquivList(_, _)
IsEquivList(ls, rs) ==
  IF ls = <<>> \/ rs = <<>> THEN <<ls = rs>>
  ELSE BothSome(IsEquiv(Head(ls), Head(rs)), IsEquivList(Tail(ls), Tail(rs)))

(* PropWhen: never Prop, or Prop when every listed parameter is zero.      *)
Never         == <<"never">>
IfAllZero(ps) == <<"ifallzero", ps>>
PwInter(p, q) == IF Never \in {p, q} THEN Never ELSE IfAllZero(p[2] \o q[2])

RECURSIVE ZeronessOf(_), BindZ(_, _, _)
ZeronessOf(l) ==
  CASE LIs("zero", l)  -> IfAllZero(<<>>)
    [] LIs("succ", l)  -> Never
    [] LIs("param", l) -> IfAllZero(<<l[2]>>)
    [] LIs("max", l)   -> PwInter(ZeronessOf(l[2]), ZeronessOf(l[3]))
    [] LIs("imax", l)  -> ZeronessOf(l[3])

BindZ(ks, vs, ps) ==
  IF ps = <<>> THEN IfAllZero(<<>>)
  ELSE PwInter(ZeronessOf(SubstGo(ks, vs, Head(ps))), BindZ(ks, vs, Tail(ps)))
SubstPwShort(ks, vs, pw) ==                            \* mutant: one parameter short
  IF pw = Never \/ pw[2] = <<>> THEN pw ELSE BindZ(ks, vs, SubSeq(pw[2], 1, Len(pw[2]) - 1))
SubstPw(ks, vs, pw) == IF pw = Never THEN Never ELSE BindZ(ks, vs, pw[2])

(* Not code: what a level means at a valuation of the parameters.          *)
RECURSIVE Eval(_, _)
Eval(x, val) ==
  LET Larger(a, b) == IF a >= b THEN a ELSE b
  IN  CASE LIs("zero", x)  -> 0
        [] LIs("succ", x)  -> 1 + Eval(x[2], val)
        [] LIs("param", x) -> val[x[2]]
        [] LIs("max", x)   -> Larger(Eval(x[2], val), Eval(x[3], val))
        [] LIs("imax", x)  -> IF Eval(x[3], val) = 0 THEN 0
                              ELSE Larger(Eval(x[2], val), Eval(x[3], val))
=============================================================================
