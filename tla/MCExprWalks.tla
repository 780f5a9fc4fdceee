----------------------------- MODULE MCExprWalks -----------------------------
(***************************************************************************)
(* The walks of ExprWalks called one after another on one checker state:   *)
(* terms that share subterms at several depths, bounds on both sides of    *)
(* saturation, replacements that are closed and that are not, and fuel     *)
(* that runs out half way.                                                 *)
(***************************************************************************)
EXTENDS ExprWalks

CONSTANTS
  MaxQueries,    \* calls in a behaviour
  Enough,        \* fuel no walk here uses up
  Fuels          \* the fuels a call is given, Enough among them

P == LParam("u")
One == LSucc(LZero)
F0 == FVar(0, Srt(P))
F1 == FVar(1, App(F0, F0))
F3 == FVar(3, Srt(LZero))
C == Cnst("C", <<P, One>>)

Loose == App(BVar(0), BVar(1))
Free == App(F1, F3)
Terms ==
  { BVar(0), F1, C,
    App(Loose, Lam(Loose, Pi(Loose, Loose))),
    LetE(Loose, BVar(3), App(Loose, BVar(4))),
    Lam(C, Prj("S", 1, App(BVar(3), Loose))),
    App(Free, Lam(Free, App(Free, BVar(2)))),
    Pi(Free, LetE(F0, Free, App(Free, C))),
    Pi(Srt(P), Pi(App(BVar(0), F1), Loose)),
    App(App(C, Srt(LMax(P, One))), Lam(Srt(P), C)) }

Repls == {F0, C, Loose}

Query ==
  [op : {"inst1", "inst1L"}, e : Terms, v : Repls, d : 0..2]
    \cup [op : {"instL"}, e : Terms, vs : {<<F0, C>>, <<Loose, F1>>}, d : 0..1]
    \cup [op : {"spine", "pis"}, e : Terms, vs : {<<F0>>, <<Loose, C>>}]
    \cup [op : {"lift"}, e : Terms, n : {2}, d : 0..2]
    \cup [op : {"abs1"}, e : Terms, D : {0, 1, 3}, d : 0..1]
    \cup [op : {"absRange"}, e : Terms, D : 0..2, n : {0, 2}, d : 0..1]
    \cup [op : {"instLp"}, e : Terms, us : {<<LZero>>, <<LSucc(P)>>}]
    \cup [op : {"hasFVar"}, e : Terms]
    \cup [op : {"bounded", "wscoped"}, e : Terms, d : 0..4]
    \cup [op : {"leafGuard"}, e : Terms, base : {Free, F1, C}]

Call(q, k, m) ==
  CASE q.op = "inst1"     -> Instantiate1Fast(q.e, q.v, q.d, k, m)
    [] q.op = "inst1L"    -> Instantiate1LiftFast(q.e, q.v, q.d, k, m)
    [] q.op = "instL"     -> InstantiateListFast(q.e, q.vs, q.d, k, m)
    [] q.op = "spine"     -> InstSpineFast(q.vs, Len(q.vs) - 1, q.e, k, m)
    [] q.op = "pis"       -> InstPisAtLift(q.vs, q.e, k, m)
    [] q.op = "lift"      -> LiftLooseBVarsFast(q.n, q.d, q.e, k, m)
    [] q.op = "abs1"      -> Abstract1Fast(q.e, q.D, q.d, k, m)
    [] q.op = "absRange"  -> AbstractRangeFast(q.e, q.D, q.n, q.d, k, m)
    [] q.op = "instLp"    -> InstLpFast(<<"u">>, q.us, q.e, k, m)
    [] q.op = "hasFVar"   -> HasFVarFast(q.e, k, m)
    [] q.op = "bounded"   -> LooseBVarsBoundedFast(q.d, q.e, k, m)
    [] q.op = "wscoped"   -> [WScopedBFast(q.d, q.e, k) EXCEPT !.memo = m]
    [] q.op = "leafGuard" -> [LeafGuardFast(q.e, q.base, k) EXCEPT !.memo = m]

-----------------------------------------------------------------------------
(* The reference, by structural recursion.                                 *)

RECURSIVE RefLift(_, _, _)
RefLift(e, n, c) ==
  IF Is("bvar", e) THEN BVar(IF e[2] >= c THEN e[2] + n ELSE e[2])
  ELSE IF Kids(e) = <<>> THEN e
  ELSE Rebuild(e, [i \in DOMAIN Kids(e) |-> RefLift(Kids(e)[i], n, c + Opened(e, i))])

RECURSIVE RefInst1Lift(_, _, _)
RefInst1Lift(e, v, d) ==
  IF Is("bvar", e)
  THEN IF e[2] = d THEN RefLift(v, d, 0) ELSE BVar(IF e[2] > d THEN e[2] - 1 ELSE e[2])
  ELSE IF Kids(e) = <<>> THEN e
  ELSE Rebuild(e, [i \in DOMAIN Kids(e) |-> RefInst1Lift(Kids(e)[i], v, d + Opened(e, i))])

RECURSIVE RefPis(_, _)
RefPis(e, vs) ==
  IF vs = <<>> THEN <<e>>
  ELSE IF ~Is("pi", e) THEN <<>>
  ELSE RefPis(RefInst1Lift(e[3], Head(vs), 0), Tail(vs))

Reference(q) ==
  CASE q.op = "inst1"     -> InstList(q.e, <<q.v>>, q.d)
    [] q.op = "inst1L"    -> RefInst1Lift(q.e, q.v, q.d)
    [] q.op = "instL"     -> InstSpine(q.vs, q.d + Len(q.vs) - 1, q.e)
    [] q.op = "spine"     -> InstSpine(q.vs, Len(q.vs) - 1, q.e)
    [] q.op = "pis"       -> RefPis(q.e, q.vs)
    [] q.op = "lift"      -> RefLift(q.e, q.n, q.d)
    [] q.op = "abs1"      -> AbsRange(q.e, q.D, 1, q.d)
    [] q.op = "absRange"  -> AbsRange(q.e, q.D, q.n, q.d)
    [] q.op = "instLp"    -> InstLp(<<"u">>, q.us, q.e)
    [] q.op = "hasFVar"   -> HasFVar(q.e)
    [] q.op = "bounded"   -> LooseBounded(q.d, q.e)
    [] q.op = "wscoped"   -> WScoped(q.d, q.e)
    [] q.op = "leafGuard" -> LeafGuard(q.e, q.base)

-----------------------------------------------------------------------------
VARIABLES
  memos,    \* the tables of the checker state
  count,
  last      \* the last call: its fuel, and if it returned, what was asked and the result

vars == <<memos, count, last>>

NoCall == [q |-> <<>>, val |-> <<>>, fuel |-> 0]
Init == memos = NoMemos /\ count = 0 /\ last = NoCall

\* Of a call that ran out of fuel only what it left in the tables is kept.
Answered(q, k, r) ==
  /\ memos' = r.memo
  /\ last' = IF r.ok THEN [q |-> <<q>>, val |-> <<r.val>>, fuel |-> k]
              ELSE [q |-> <<>>, val |-> <<>>, fuel |-> k]
  /\ count' = count + 1

\* A behaviour goes on as long as a call leaves entries behind; when it leaves
\* none, the next one starts as the first does.
CallWalk ==
  /\ count < MaxQueries
  /\ count = 0 \/ memos # NoMemos
  /\ \E q \in Query, k \in Fuels : Answered(q, k, Call(q, k, memos))

Next == CallWalk
Spec == Init /\ [][Next]_vars

\* Whatever walks came before on this state, and wherever their fuel ran out,
\* a walk that returns has computed what the plain structural recursion does:
\* no answer comes from a memo filled under another substitution or cursor,
\* and no saturated bound cuts a walk short.  With fuel enough, each returns.
WalksExact ==
  IF last.q = <<>> THEN last.fuel # Enough ELSE last.val[1] = Reference(last.q[1])
=============================================================================
