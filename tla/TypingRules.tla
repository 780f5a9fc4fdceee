----------------------------- MODULE TypingRules -----------------------------
(***************************************************************************)
(* What the typing core is meant to compute, stated apart from how: types  *)
(* and conversion by normal forms, with no cache, no fuel, no order of     *)
(* evaluation, no certificate and no shortcut.  Nothing here is code.      *)
(*                                                                         *)
(* Normal forms are typed and long: a function is a lambda, a structure    *)
(* that can be projected is its constructor applied to its projections, a  *)
(* unit is one token and so is a proof, a numeral is a literal and a level *)
(* is its meaning.  Two well-typed terms of one type are definitionally    *)
(* equal if their normal forms are the same.                               *)
(***************************************************************************)
EXTENDS CoreEnv

CONSTANTS Params,      \* the universe parameters in scope
          MaxLevel     \* levels are compared at the valuations into 0 .. MaxLevel

Meaning(l) == [val \in [Params -> 0 .. MaxLevel] |-> Eval(l, val)]
ZeroLevel(l) == Meaning(l) = Meaning(LZero)

(* The judgements depend on one another; each is a question to Judge.      *)
RECURSIVE Judge(_, _, _, _)
TWhnf(env, d, e)     == Judge("whnf", env, d, e)
TType(env, d, e)     == Judge("type", env, d, e)
NF(env, d, e)        == Judge("normal form", env, d, e)
NFNeutral(env, d, w) == Judge("neutral form", env, d, w)
WellTyped(env, d, e) == Judge("well typed", env, d, e)

(* A premise as a constructor application: reduced, or by its type when    *)
(* one constructor builds everything of that type.                         *)
TByType(env, w, cj, rl, t) ==
  IF rl.k THEN MkAppN(Cnst(rl.ctor, HeadLevels(t)), TakeN(GetAppArgs(t), cj.np))
  ELSE IF TowerSlotsAll(env, HeadName(t), cj.nf)
  THEN MkAppN(Cnst(rl.ctor, HeadLevels(t)), GetAppArgs(t) \o EtaProjs(HeadName(t), w, cj.nf))
  ELSE w
TMajorOf(env, d, rules, m, w) ==
  IF IsCtorApp(env, w) \/ Len(rules) # 1 THEN w
  ELSE TByType(env, w, env.infos[rules[1].ctor], rules[1], TWhnf(env, d, TType(env, d, m)))
TMajor(env, d, rules, m) == TMajorOf(env, d, rules, m, LitToCtorIfNat(env, TWhnf(env, d, m)))

(* One rule at a time, outermost first.  An operation defined by           *)
(* well-founded recursion computes on literals only.                       *)
TOnLits(env, d, e, h, lits) == IF <<>> \in {lits[1], lits[2]} THEN e ELSE NatOpResult(h[2], lits[1][1], lits[2][1])[1]
TIota(info, h, args, rl, margs) ==
  MkAppN(InstLp(info.lps, h[3], rl.rhs),
         TakeN(args, info.rp) \o DropN(margs, rl.ctor_params) \o DropN(args, info.mi + 1))
TProjOf(env, e, h, args, at, sv) ==
  IF IsCtorApp(env, sv) THEN MkAppN(GetAppArgs(sv)[at.num_params + h[3] + 1], args) ELSE e
TRecOf(env, e, info, h, args, maj) ==
  IF IsCtorApp(env, maj)
  THEN TIota(info, h, args, info.rules[FindRule(info.rules, HeadName(maj))], GetAppArgs(maj)) ELSE e
THead(env, d, e, h, args) ==
  CASE Is("const", h) /\ h[2] \in NatOpWfNames /\ Len(args) = 2 ->
         TOnLits(env, d, e, h, [i \in DOMAIN args |-> RawNatLit(TWhnf(env, d, args[i]))])
    [] Is("lam", h) /\ args # <<>> -> MkAppN(Inst1(h[3], args[1]), Tail(args))
    [] Is("let", h)  -> MkAppN(Inst1(h[4], h[3]), args)
    [] Is("proj", h) -> TProjOf(env, e, h, args, FindProj(env, h[2], h[3])[1], TWhnf(env, d, h[4]))
    [] Is("const", h) /\ IsKind(env, h[2], "defn") /\ h[2] \notin NatOpWfNames ->
         MkAppN(InstLp(env.infos[h[2]].lps, h[3], env.infos[h[2]].val), args)
    [] Is("const", h) /\ IsKind(env, h[2], "rec") /\ Len(args) > env.infos[h[2]].mi ->
         TRecOf(env, e, env.infos[h[2]], h, args,
                TMajor(env, d, env.infos[h[2]].rules, args[env.infos[h[2]].mi + 1]))
    [] OTHER -> e

(* Until nothing changes: 2^k steps at a time, k growing, so that a long   *)
(* reduction does not nest deep.                                           *)
Stepped(e, e1) == [e |-> e1, done |-> e1 = e]
RECURSIVE TSteps(_, _, _, _)
TSteps(env, d, k, p) ==
  IF p.done THEN p
  ELSE IF k = 0 THEN Stepped(p.e, THead(env, d, p.e, GetAppFn(p.e), GetAppArgs(p.e)))
  ELSE TSteps(env, d, k - 1, TSteps(env, d, k - 1, p))
RECURSIVE TRun(_, _, _, _)
TRun(env, d, k, p) == IF p.done THEN p.e ELSE TRun(env, d, k + 1, TSteps(env, d, k, p))
WhnfRule(env, d, e) == TRun(env, d, 0, [e |-> e, done |-> FALSE])

(* The type of a well-typed term whose free variables lie below d.         *)
TSort(env, d, t) == TWhnf(env, d, TType(env, d, t))
TProjType(e, at, st) == Instantiate(InstLp(at.lps, HeadLevels(st), at.body), Append(GetAppArgs(st), e[4]))
TypeRule(env, d, e) ==
  LET fv == FVar(d, e[2])
  IN  CASE Is("sort", e)  -> Srt(LSucc(e[2]))
        [] Is("fvar", e)  -> e[3]
        [] Is("const", e) -> InstLp(env.infos[e[2]].lps, e[3], env.infos[e[2]].ty)
        [] Is("lit", e)   -> Const0("Nat")
        [] Is("str", e)   -> Const0("String")
        [] Is("app", e)   -> Inst1(TSort(env, d, e[2])[3], e[3])
        [] Is("lam", e)   -> Pi(e[2], AbstractRange(TType(env, d + 1, Inst1(e[3], fv)), d, 1))
        [] Is("pi", e)    -> Srt(LIMax(TSort(env, d, e[2])[2], TSort(env, d + 1, Inst1(e[3], fv))[2]))
        [] Is("let", e)   -> TType(env, d, Inst1(e[4], e[3]))
        [] Is("proj", e)  -> TProjType(e, FindProj(env, e[2], e[3])[1], TSort(env, d, e[4]))

IsPropSort(s) == Is("sort", s) /\ ZeroLevel(s[2])

(* By the type t of e, and whether t is a proposition.                     *)
NFTyped(env, d, e, t, cap, proof) ==
  CASE proof -> <<"proof">>
    [] ~proof /\ Is("pi", t) -> <<"fun", NF(env, d, t[2]), NF(env, d + 1, App(e, FVar(d, t[2])))>>
    [] ~proof /\ HeadIs(env, t, "ind") /\ cap.unitlike -> <<"unit">>
    [] /\ ~proof /\ HeadIs(env, t, "ind") /\ cap.eta /\ ~cap.unitlike
       /\ TowerSlotsAll(env, HeadName(t), cap.eta_fields) ->
         <<"struct", [j \in 1 .. cap.eta_fields |-> NF(env, d, TWhnf(env, d, Prj(HeadName(t), j - 1, e)))]>>
    [] OTHER -> NFNeutral(env, d, TWhnf(env, d, e))
NFOf(env, d, e, t) ==
  NFTyped(env, d, e, t, env.infos[HeadName(t)].caps, IsPropSort(TSort(env, d, t)))
NFRule(env, d, e) == NFOf(env, d, e, TSort(env, d, e))

NFApp(f, n, w) ==
  IF w[2] = Const0("Nat.succ") /\ Is("lit", n) THEN Lit(n[2] + 1) ELSE <<"app", f, n>>
NeutralRule(env, d, w) ==
  CASE Is("sort", w)  -> <<"sort", Meaning(w[2])>>
    [] Is("pi", w)    -> <<"pi", NF(env, d, w[2]), NF(env, d + 1, Inst1(w[3], FVar(d, w[2])))>>
    [] Is("fvar", w)  -> <<"fvar", w[2]>>
    [] Is("const", w) -> IF w = Const0("Nat.zero") THEN Lit(0)
                         ELSE <<"const", w[2], [i \in DOMAIN w[3] |-> Meaning(w[3][i])]>>
    [] Is("app", w)   -> NFApp(NFNeutral(env, d, w[2]), NF(env, d, w[3]), w)
    [] Is("proj", w)  -> <<"proj", w[2], w[3], NFNeutral(env, d, TWhnf(env, d, w[4]))>>
    [] Is("str", w)   -> NFNeutral(env, d, StrLitToConstructor(w[2]))
    [] OTHER          -> w

Same(p) == p[1] = p[2]
TEqual(env, d, ab) == Same([i \in 1 .. 2 |-> NF(env, d, ab[i])])

(* Well-typed: every part is, every domain is a type, and an argument's    *)
(* type converts to the domain it meets.                                   *)
Part(d, e, isType) == [d |-> d, e |-> e, isType |-> isType]
Parts(d, e) ==
  LET body(isType) == Part(d + 1, Inst1(e[3], FVar(d, e[2])), isType)
  IN  CASE Is("app", e)  -> <<Part(d, e[2], FALSE), Part(d, e[3], FALSE)>>
        [] Is("lam", e)  -> <<Part(d, e[2], TRUE), body(FALSE)>>
        [] Is("pi", e)   -> <<Part(d, e[2], TRUE), body(TRUE)>>
        [] Is("let", e)  -> <<Part(d, e[2], TRUE), Part(d, e[3], FALSE), Part(d, Inst1(e[4], e[3]), FALSE)>>
        [] Is("proj", e) -> <<Part(d, e[4], FALSE)>>
        [] OTHER -> <<>>
ProjTyped(env, e, st) == HeadConst(st) /\ FindProj(env, HeadName(st), e[3]) # <<>>
ArgTyped(env, d, arg, fn) == Is("pi", fn) /\ TEqual(env, d, <<TType(env, d, arg), fn[2]>>)
HeadTyped(env, d, e) ==
  CASE Is("proj", e) -> ProjTyped(env, e, TSort(env, d, e[4]))
    [] Is("app", e)  -> ArgTyped(env, d, e[3], TSort(env, d, e[2]))
    [] Is("let", e)  -> ArgTyped(env, d, e[3], Pi(e[2], e[2]))
    [] Is("const", e) -> e[2] \in DOMAIN env.infos /\ Len(e[3]) = Len(env.infos[e[2]].lps)
    [] OTHER -> TRUE
PartTyped(env, p) == WellTyped(env, p.d, p.e) /\ (p.isType => Is("sort", TSort(env, p.d, p.e)))
WellTypedRule(env, d, e) ==
  /\ \A i \in DOMAIN Parts(d, e) : PartTyped(env, Parts(d, e)[i])
  /\ HeadTyped(env, d, e)

Judge(what, env, d, e) ==
  CASE what = "whnf"         -> WhnfRule(env, d, e)
    [] what = "type"         -> TypeRule(env, d, e)
    [] what = "normal form"  -> NFRule(env, d, e)
    [] what = "neutral form" -> NeutralRule(env, d, e)
    [] what = "well typed"   -> WellTypedRule(env, d, e)
=============================================================================
