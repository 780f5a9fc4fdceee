-------------------------------- MODULE Core --------------------------------
(***************************************************************************)
(* The typing core (arena/core.rs): weak head normalisation, type          *)
(* inference in its checked and its unchecked ("io") grade, and            *)
(* definitional equality, tied together by knots that probe and fill the   *)
(* checker's caches.  An operation takes the caches c and returns a result *)
(*   [c |-> the caches after it, ok |-> TRUE,  v |-> its value]            *)
(*   [c |-> the caches after it, ok |-> FALSE, v |-> the kind of error]    *)
(* A context x is [env, verified, eager, fuel]; the fuel is that of the    *)
(* knots, the loops' own fuel (2^62 steps) never runs out.  A wrong answer *)
(* of the caches, or an order of evaluation, shows in c and in v.          *)
(***************************************************************************)
EXTENDS CoreEnv, TLC

Ok(c, v)      == [c |-> c, ok |-> TRUE, v |-> v]
Fail(c, kind) == [c |-> c, ok |-> FALSE, v |-> kind]
Then(m, F(_, _)) == IF m.ok THEN F(m.c, m.v) ELSE m
AndThen(m, F(_)) == IF m.ok /\ m.v THEN F(m.c) ELSE m
OrElse(m, F(_))  == IF m.ok /\ ~m.v THEN F(m.c) ELSE m
FromOption(c, o) == IF o = <<>> THEN Fail(c, "notimpl") ELSE Ok(c, o[1])
Choice(m, a, b)  == IF m.ok THEN Ok(m.c, IF m.v THEN a ELSE b) ELSE m
Unless(p, c, m)  == IF p THEN m ELSE Ok(c, FALSE)     \* a guard before a certificate

(* The six memos that depend on the mode, and those that do not.           *)
ModeFields == {"whnf_core_c", "whnf_core_cheap_c", "whnf_c", "infer_c", "infer_io_c", "defeq_c"}
PureFields == {"lvl_eq_c", "lvls_eq_c", "const_ty_c", "const_val_c", "rule_rhs_c"}
EmptyMemos  == [f \in ModeFields |-> <<>>]
EmptyCaches == [f \in ModeFields \cup PureFields \cup {"eager_memos"} |->
                  IF f = "eager_memos" THEN EmptyMemos ELSE <<>>]

(* Probe, else compute and store; an error stores nothing.                 *)
Stored2(c, f, k, v) == [c EXCEPT ![f] = (k :> v) @@ @]
Memo(c, f, k, m) ==
  IF k \in DOMAIN c[f] THEN Ok(c, c[f][k])
  ELSE IF m.ok THEN Ok(Stored2(m.c, f, k, m.v), m.v) ELSE m

ConstTyAt(c, n, ci, us)  == Memo(c, "const_ty_c", <<n, us>>, Ok(c, InstLp(ci.lps, us, ci.ty)))
ConstValAt(c, n, ci, us) == Memo(c, "const_val_c", <<n, us>>, Ok(c, InstLp(ci.lps, us, ci.val)))
RuleRhsAt(c, n, rl, lps, us) ==
  Memo(c, "rule_rhs_c", <<n, rl.ctor, us>>, Ok(c, InstLp(lps, us, rl.rhs)))

Down(x)     == [x EXCEPT !.fuel = @ - 1]
ToEager(x)  == [x EXCEPT !.eager = TRUE]

(* The eager lane has memos of its own: they come out of the parking place *)
(* and the caller's go into a local variable, and back at the end.         *)
EnterEager(c) == [f \in DOMAIN c |-> IF f \in ModeFields THEN c.eager_memos[f]
                                     ELSE IF f = "eager_memos" THEN EmptyMemos ELSE c[f]]
LeaveEager(c, saved) == [f \in DOMAIN c |-> IF f \in ModeFields THEN saved[f]
                                            ELSE IF f = "eager_memos" THEN [g \in ModeFields |-> c[g]]
                                            ELSE c[f]]

RECURSIVE Knot(_, _, _, _, _), WhnfCoreLoop(_, _, _, _, _), WhnfLoop(_, _, _, _), WhnfApp(_, _, _, _, _),
          IotaCertsFull(_, _, _, _, _, _), DefEqList(_, _, _, _, _),
          InferBody(_, _, _, _), InferBodyIo(_, _, _, _),
          InferPis(_, _, _, _, _, _), InferLams(_, _, _, _, _, _),
          InferSpine(_, _, _, _, _, _), InferSpineIo(_, _, _, _, _, _),
          DefeqBody(_, _, _, _, _), DefeqPeel(_, _, _, _, _, _), DefeqLams(_, _, _, _, _),
          LazyDelta(_, _, _, _, _), LazyDeltaProj(_, _, _, _, _)

(* What is in normal form by its tag alone never reaches a memo.           *)
WhnfCoreMoves == {"app", "proj", "let", "bvar"}
WhnfStuck     == {"sort", "fvar", "lam", "pi", "lit", "str"}
Stuck(t, k) ==
  \/ t \in {"whnf_core_c", "whnf_core_cheap_c"} /\ k[1] \notin WhnfCoreMoves
  \/ t = "whnf_c" /\ k[1] \in WhnfStuck

(* The knots, and the comparison of levels, by the memo table t of each:   *)
(* probe it at k or compute.                                               *)
Knot(c, x, t, d, k) ==
  LET y == Down(x)
  IN  IF t \in ModeFields /\ x.fuel = 0 THEN Fail(c, "internal")
      ELSE IF Stuck(t, k) THEN Ok(c, k)
      ELSE Memo(c, t, k,
             CASE t \in {"whnf_core_c", "whnf_core_cheap_c"} -> WhnfCoreLoop(c, y, t = "whnf_core_cheap_c", d, k)
               [] t = "whnf_c"     -> WhnfLoop(c, y, d, k)
               [] t = "infer_c"    -> InferBody(c, y, d, k)
               [] t = "infer_io_c" -> InferBodyIo(c, y, d, k)
               [] t = "defeq_c"    -> DefeqBody(c, y, d, k[1], k[2])
               [] t = "lvl_eq_c"   -> FromOption(c, IsEquiv(k[1], k[2]))
               [] t = "lvls_eq_c"  -> FromOption(c, IsEquivList(k[1], k[2])))

(* The comparison may give up (None); lift_fueled makes that an error.     *)
ToOption(m)       == Ok(m.c, IF m.ok THEN <<m.v>> ELSE <<>>)
LvlEq(c, u, v)    == ToOption(Knot(c, "any", "lvl_eq_c", 0, <<u, v>>))
LvlsEq(c, us, vs) == ToOption(Knot(c, "any", "lvls_eq_c", 0, <<us, vs>>))
LiftFueled(m)     == Then(m, FromOption)

KnotWhnfCore(c, x, cheap, d, e) == Knot(c, x, IF cheap THEN "whnf_core_cheap_c" ELSE "whnf_core_c", d, e)
KnotWhnf(c, x, d, e)       == Knot(c, x, "whnf_c", d, e)
KnotInfer(c, x, d, e)      == Knot(c, x, "infer_c", d, e)
KnotInferIo(c, x, d, e)    == Knot(c, x, "infer_io_c", d, e)
KnotInferAt(c, x, io, d, e) == IF io THEN KnotInferIo(c, x, d, e) ELSE KnotInfer(c, x, d, e)
KnotDefeq(c, x, d, a, b)   == Knot(c, x, "defeq_c", d, <<a, b>>)

KnotDefeqEShared(c, x, d, a, b) ==                     \* mutant: no memos of its own
  Knot(c, ToEager(x), "defeq_c", d, <<a, b>>)
(* On an error the eager lane's memos stay where they are.                 *)
KnotDefeqE(c, x, d, a, b) ==
  LET m == Knot(IF x.eager THEN c ELSE EnterEager(c), ToEager(x), "defeq_c", d, <<a, b>>)
  IN  IF x.fuel = 0 THEN Fail(c, "internal")
      ELSE IF m.ok /\ ~x.eager THEN Ok(LeaveEager(m.c, c), m.v) ELSE m

InferIoWhnf(c, x, d, e) == Then(KnotInferIo(c, x, d, e), LAMBDA c1, t : KnotWhnf(c1, x, d, t))
EnsureSort(c, x, d, e) ==
  Then(KnotWhnf(c, x, d, e),
       LAMBDA c1, w : IF Is("sort", w) THEN Ok(c1, w[2]) ELSE Fail(c1, "invalid"))
InferSortOf(c, x, d, e) ==
  Then(KnotInfer(c, x, d, e), LAMBDA c1, t : EnsureSort(c1, x, d, t))

DefEqList(c, x, d, xs, ys) ==
  IF xs = <<>> \/ ys = <<>> THEN Ok(c, xs = ys)
  ELSE AndThen(KnotDefeq(c, x, d, Head(xs), Head(ys)),
               LAMBDA c1 : DefEqList(c1, x, d, Tail(xs), Tail(ys)))
-----------------------------------------------------------------------------
(* Certificates.  Two proofs are equal whatever they prove: only that both *)
(* types are propositions is checked.                                      *)
PropSortsZero(c, x, d, ta, b) ==
  LET isProp(c1, w, F(_, _)) ==
        IF Is("sort", w) THEN Then(LiftFueled(LvlEq(c1, w[2], LZero)), F) ELSE Ok(c1, FALSE)
  IN  Then(InferIoWhnf(c, x, d, ta), LAMBDA c1, wa :
        isProp(c1, wa, LAMBDA c2, okA :
          Then(KnotInferIo(c2, x, d, b), LAMBDA c3, tb :
            Then(InferIoWhnf(c3, x, d, tb), LAMBDA c4, wb :
              isProp(c4, wb, LAMBDA c5, okB : Ok(c5, okA /\ okB))))))
ProofIrrel(c, x, d, a, b) ==
  Then(KnotInferIo(c, x, d, a), LAMBDA c1, ta : PropSortsZero(c1, x, d, ta, b))
PropIrrel(c, x, d, a, b) ==
  IF NotProofFast(x.env, a) \/ NotProofFast(x.env, b) THEN Ok(c, FALSE)
  ELSE IF IsProofFast(x.env, a) /\ IsProofFast(x.env, b) THEN Ok(c, TRUE)
  ELSE ProofIrrel(c, x, d, a, b)

(* a = mk ps fs against b of a structure type: the fields are b's          *)
(* projections.                                                            *)
StructEtaCert(c, x, d, a, b) ==
  LET cj    == x.env.infos[HeadName(a)]
      aargs == GetAppArgs(a)
      tail(c1, t, us2, targs, caps) ==
        AndThen(LiftFueled(LvlsEq(c1, HeadLevels(a), us2)), LAMBDA c2 :
          AndThen(DefEqList(c2, x, d, TakeN(aargs, caps.eta_params), targs), LAMBDA c3 :
            DefEqList(c3, x, d, DropN(aargs, caps.eta_params), EtaProjs(t, b, caps.eta_fields))))
      fits(wtb) ==
        LET ci == x.env.infos[HeadName(wtb)]
        IN  /\ HeadIs(x.env, wtb, "ind")
            /\ ci.caps.eta /\ ci.caps.eta_ctor = HeadName(a)
            /\ {HeadName(wtb), HeadName(a)} \cap ReservedBasis = {}
            /\ Len(GetAppArgs(wtb)) = ci.caps.eta_params
            /\ Len(HeadLevels(wtb)) = Len(ci.lps) /\ cj.lps = ci.lps
            /\ TowerSlotsAll(x.env, HeadName(wtb), ci.caps.eta_fields)
  IN  Unless(IsCtorApp(x.env, a) /\ Len(aargs) = cj.np + cj.nf, c,
        Then(InferIoWhnf(c, x, d, b), LAMBDA c1, wtb :
          Unless(fits(wtb), c1,
            tail(c1, HeadName(wtb), HeadLevels(wtb), GetAppArgs(wtb), x.env.infos[HeadName(wtb)].caps))))

StructUnitCert(c, x, d, a, b) ==
  LET fits(wta) ==
        LET ci == x.env.infos[HeadName(wta)]
        IN  /\ HeadIs(x.env, wta, "ind") /\ ci.caps.unitlike
            /\ HeadName(wta) \notin ReservedBasis
            /\ Len(GetAppArgs(wta)) = ci.caps.unit_params /\ Len(HeadLevels(wta)) = Len(ci.lps)
  IN  Then(InferIoWhnf(c, x, d, a), LAMBDA c1, wta :
        Unless(fits(wta), c1,
          Then(InferIoWhnf(c1, x, d, b), LAMBDA c2, wtb :
            Unless(~Is("pi", wtb), c2, KnotDefeq(c2, x, d, wta, wtb)))))

(* lam ty1, body1 against b of a function type.                            *)
EtaCert(c, x, d, ty1, body1, b) ==
  LET fv == FVar(d, ty1)
      b1 == Inst1(body1, fv)
      codomains(c1, cod2) ==
        Then(KnotInfer(c1, x, d + 1, b1), LAMBDA c2, t1 : KnotDefeq(c2, x, d + 1, t1, Inst1(cod2, fv)))
  IN  Unless(IoNeutral(b), c,
        Then(InferIoWhnf(c, x, d, b), LAMBDA c1, w :
          Unless(Is("pi", w), c1,
            AndThen(KnotDefeq(c1, x, d, w[2], ty1), LAMBDA c2 :
              AndThen(KnotDefeq(c2, x, d + 1, b1, App(b, fv)), LAMBDA c3 :
                IF x.verified THEN codomains(c3, w[3]) ELSE Ok(c3, TRUE))))))

StuckIrrel(c, x, d, a, b) ==
  OrElse(StructEtaCert(c, x, d, a, b), LAMBDA c1 :
    OrElse(StructEtaCert(c1, x, d, b, a), LAMBDA c2 :
      OrElse(StructUnitCert(c2, x, d, a, b), LAMBDA c3 : ProofIrrel(c3, x, d, a, b))))
-----------------------------------------------------------------------------
(* Recursors.  The major premise is brought to a constructor application:  *)
(* by rule K, by structure eta, by the rescue of And, or by reduction.     *)
ProjEntryFireOk(c, entry, us) ==
  Then(LvlEq(c, entry.struct_sort, LZero), LAMBDA c1, o :
    Ok(c1, o = <<TRUE>> => IsEquiv(LSubst(entry.lps, us, entry.field_sort), LZero) = <<TRUE>>))
AndRescueSlots(c, env, ctor, np, us) ==
  LET slot(c1, j) ==
        LET o == FindProj(env, "And", j)
        IN  Unless(o # <<>>, c1,
              AndThen(ProjEntryFireOk(c1, o[1], us), LAMBDA c2 :
                Ok(c2, o[1].ctor = ctor /\ o[1].num_params = np /\ o[1].num_fields = 2)))
  IN  AndThen(slot(c, 0), LAMBDA c1 : slot(c1, 1))

MajorToCtorCerts(c, x, d, fab, tmaj, major) ==
  IF ~FabScopeOk(d, fab, major) THEN Ok(c, major)
  ELSE Then(KnotInferIo(c, x, d, fab), LAMBDA c1, tfab :
         Choice(AndThen(KnotDefeq(c1, x, d, tmaj, tfab), LAMBDA c2 :
                  IF x.verified THEN ProofIrrel(c2, x, d, fab, major) ELSE Ok(c2, TRUE)),
                fab, major))

MajorToCtorK(c, x, d, cj, ctor, t, major) ==
  Then(InferIoWhnf(c, x, d, major), LAMBDA c1, tmaj :
    IF /\ HeadConst(tmaj) /\ HeadName(tmaj) = t /\ Len(HeadLevels(tmaj)) = Len(cj.lps)
       /\ cj.np <= Len(GetAppArgs(tmaj))
    THEN MajorToCtorCerts(c1, x, d, MkAppN(Cnst(ctor, HeadLevels(tmaj)), TakeN(GetAppArgs(tmaj), cj.np)),
                          tmaj, major)
    ELSE Ok(c1, major))

MajorToCtorEta(c, x, d, t, major) ==
  LET ci == x.env.infos[t]
      fab(tmaj) == MkAppN(Cnst(ci.caps.eta_ctor, HeadLevels(tmaj)),
                          GetAppArgs(tmaj) \o EtaProjs(t, major, ci.caps.eta_fields))
  IN  Then(InferIoWhnf(c, x, d, major), LAMBDA c1, tmaj :
        IF /\ HeadConst(tmaj) /\ HeadName(tmaj) = t
           /\ Len(GetAppArgs(tmaj)) = ci.caps.eta_params /\ Len(HeadLevels(tmaj)) = Len(ci.lps)
           /\ CapsNeverZero(ci.lps, HeadLevels(tmaj), ci.caps)
           /\ {t, ci.caps.eta_ctor} \cap ReservedBasis = {}
           /\ TowerSlotsAll(x.env, t, ci.caps.eta_fields)
           /\ FabScopeOk(d, fab(tmaj), major)
        THEN Ok(c1, fab(tmaj)) ELSE Ok(c1, major))

MajorToCtorAnd(c, x, d, cj, ctor, t, major) ==
  Then(InferIoWhnf(c, x, d, major), LAMBDA c1, tmaj :
    IF ~HeadConst(tmaj) THEN Ok(c1, major)
    ELSE Then(AndRescueSlots(c1, x.env, ctor, cj.np, HeadLevels(tmaj)), LAMBDA c2, slots :
           IF /\ slots /\ HeadName(tmaj) = t /\ Len(GetAppArgs(tmaj)) = cj.np
              /\ Len(HeadLevels(tmaj)) = Len(cj.lps)
           THEN MajorToCtorCerts(c2, x, d,
                  MkAppN(Cnst(ctor, HeadLevels(tmaj)), GetAppArgs(tmaj) \o EtaProjs(t, major, 2)), tmaj, major)
           ELSE Ok(c2, major)))

MajorToCtor(c, x, d, rules, major) ==
  LET rl == rules[1]
      cj == x.env.infos[rl.ctor]
      t  == ResultHead(x.env, cj)[2]
  IN  CASE IsCtorApp(x.env, major) \/ Len(rules) # 1 -> Ok(c, major)
        [] OTHER ->
           IF ~IsKind(x.env, rl.ctor, "ctor") \/ ~BuildsInd(x.env, cj) THEN Ok(c, major)
           ELSE IF rl.k THEN MajorToCtorK(c, x, d, cj, rl.ctor, t, major)
           ELSE IF rl.eta THEN MajorToCtorEta(c, x, d, t, major)
           ELSE IF t = "And" THEN MajorToCtorAnd(c, x, d, cj, rl.ctor, t, major)
           ELSE Ok(c, major)

StrLitWhnf(c, x, d, e) ==
  IF StrLitSupported(x.env) THEN KnotWhnf(c, x, d, StrLitToConstructor(e[2])) ELSE Ok(c, e)
LitMajorToCtor(c, x, d, e) ==
  IF Is("str", e) THEN StrLitWhnf(c, x, d, e) ELSE Ok(c, LitToCtorIfNat(x.env, e))

PrepareMajor(c, x, d, rules, major) ==
  IF RecRuleK(rules)
  THEN Then(MajorToCtor(c, x, d, rules, major), LAMBDA c1, mk :
         IF IsCtorApp(x.env, mk) THEN LitMajorToCtor(c1, x, d, mk) ELSE Ok(c1, mk))
  ELSE Then(IF Is("str", major) THEN Ok(c, major) ELSE MajorToCtor(c, x, d, rules, major),
         LAMBDA c1, me :
           IF IsCtorApp(x.env, me) THEN Ok(c1, me)
           ELSE Then(KnotWhnf(c1, x, d, me), LAMBDA c2, w :
                  Then(LitMajorToCtor(c2, x, d, w), LAMBDA c3, lw : MajorToCtor(c3, x, d, rules, lw))))

(* The certificate a firing rule asks for, outside the fast mode, when the *)
(* type may be a Prop: the constructor's levels and parameters are those   *)
(* the recursor was applied to, its arguments have the declared types and  *)
(* its indices agree.                                                      *)
IotaCertsFull(c, x, d, h, acc, args) ==
  IF args = <<>> THEN Ok(c, TRUE)
  ELSE IF Is("pi", h)
  THEN Then(KnotInfer(c, x, d, Head(args)), LAMBDA c1, ta :
         AndThen(KnotDefeq(c1, x, d, ta, Instantiate(h[2], acc)), LAMBDA c2 :
           IotaCertsFull(c2, x, d, h[3], Append(acc, Head(args)), Tail(args))))
  ELSE Unless(Is("bvar", h) /\ acc # <<>>, c, IotaCertsFull(c, x, d, Instantiate(h, acc), <<>>, args))

IotaIndexOk(c, x, d, info, rl, tyCtor, margs, idx) ==
  LET residual == PiResidual(tyCtor, margs)
  IN  IF info.mi = info.rp THEN Ok(c, TRUE)
      ELSE Unless(residual # <<>>, c,
             DefEqList(c, x, d, DropN(GetAppArgs(residual[1]), rl.ctor_params), idx))

IotaRecCert(c, x, d, info, rl, us, cj, usj, args, margs) ==
  LET lvls == RecFireLevels(rl, info.lps, us, x.env.infos[cj])
      idx  == DropN(TakeN(args, info.mi), info.rp)
      family(c1) ==
        Then(ConstTyAt(c1, cj, x.env.infos[cj], usj), LAMBDA c2, ty :
          AndThen(IotaCertsFull(c2, x, d, ty, <<>>, margs), LAMBDA c3 :
            IotaIndexOk(c3, x, d, info, rl, ty, margs, idx)))
  IN  IF ~x.verified \/ ~IotaCase3(x.env, rl, x.env.infos[cj], lvls) THEN Ok(c, TRUE)
      ELSE AndThen(LiftFueled(LvlsEq(c, usj, lvls)), LAMBDA c1 :
             AndThen(DefEqList(c1, x, d, TakeN(margs, rl.ctor_params),
                               RecFireArgs(rl, info.lps, us, args, info.rp)), family))

IotaRecMajor(c, x, d, hd, info, args, major) ==
  LET k     == FindRule(info.rules, HeadName(major))
      rl    == info.rules[k]
      margs == GetAppArgs(major)
      reduct(c1) ==
        Then(RuleRhsAt(c1, hd[2], rl, info.lps, hd[3]), LAMBDA c2, rhs :
          Ok(c2, <<MkAppN(rhs, TakeN(args, info.rp) \o DropN(margs, rl.ctor_params))>>))
  IN  IF ~IsCtorApp(x.env, major) THEN Ok(c, <<>>)
      ELSE IF k = 0 THEN Ok(c, <<>>)
      ELSE IF Len(margs) # rl.ctor_params + rl.nfields THEN Ok(c, <<>>)
      ELSE Then(IotaRecCert(c, x, d, info, rl, hd[3], HeadName(major), HeadLevels(major), args, margs),
                LAMBDA c1, fires : IF fires THEN reduct(c1) ELSE Ok(c1, <<>>))

(* The recursor hd applied to exactly sargs: Some of its reduct.           *)
IotaRecAt(c, x, d, hd, sargs) ==
  LET info == x.env.infos[hd[2]]
  IN  IF /\ Is("const", hd) /\ IsKind(x.env, hd[2], "rec")
         /\ Len(sargs) = info.mi + 1 /\ Len(hd[3]) = Len(info.lps)
         /\ PeelPis(info.mi + 1, info.ty) # <<>>
      THEN Then(PrepareMajor(c, x, d, info.rules, sargs[info.mi + 1]), LAMBDA c1, major :
             IotaRecMajor(c1, x, d, hd, info, sargs, major))
      ELSE Ok(c, <<>>)

(* A projection of a constructor application: Some of the field.           *)
ReduceProjCore(c, x, d, sn, i, e) ==
  LET entry == FindProj(x.env, sn, i)
      fires(ep) ==
        /\ HeadName(ep) = entry[1].ctor /\ i < entry[1].num_fields
        /\ Len(GetAppArgs(ep)) = entry[1].num_params + entry[1].num_fields
        /\ Len(HeadLevels(ep)) = Len(entry[1].lps)
        /\ x.verified => /\ IsCtorApp(x.env, ep)
                         /\ PeelPis(Len(GetAppArgs(ep)), x.env.infos[HeadName(ep)].ty) # <<>>
      field(ep) == GetAppArgs(ep)[entry[1].num_params + i + 1]
  IN  Then(IF Is("str", e) THEN StrLitWhnf(c, x, d, e) ELSE Ok(c, e), LAMBDA c1, ep :
        IF entry = <<>> \/ ~HeadConst(ep) THEN Ok(c1, <<>>)
        ELSE Then(ProjEntryFireOk(c1, entry[1], HeadLevels(ep)), LAMBDA c2, fok :
               Ok(c2, IF fok /\ fires(ep) THEN <<field(ep)>> ELSE <<>>)))
-----------------------------------------------------------------------------
(* Weak head normalisation.  A step is <<"cont", e>> or <<"done", e>>.     *)
Cont(e) == <<"cont", e>>
Done(e) == <<"done", e>>

(* As many lambdas as there are arguments are instantiated at once.        *)
RECURSIVE BetaPeel(_, _, _)
BetaPeel(t, acc, args) ==
  IF args # <<>> /\ Is("lam", t) THEN BetaPeel(t[3], Append(acc, Head(args)), Tail(args))
  ELSE MkAppN(Instantiate(t, acc), args)

(* v, in weak head normal form, applied to args one at a time: a lambda    *)
(* takes all it can, a recursor fires as soon as it has its major premise. *)
WhnfApp(c, x, d, v, args) ==
  LET ap == App(v, Head(args))
  IN  IF args = <<>> THEN Ok(c, Done(v))
      ELSE IF Is("lam", v) THEN Ok(c, Cont(BetaPeel(v[3], <<Head(args)>>, Tail(args))))
      ELSE Then(IotaRecAt(c, x, d, GetAppFn(v), GetAppArgs(ap)), LAMBDA c1, o :
             IF o = <<>> THEN WhnfApp(c1, x, d, ap, Tail(args))
             ELSE Ok(c1, Cont(MkAppN(o[1], Tail(args)))))

WhnfCoreStepProj(c, x, cheap, d, e) ==
  Then(IF cheap THEN KnotWhnfCore(c, x, TRUE, d, e[4]) ELSE KnotWhnf(c, x, d, e[4]), LAMBDA c1, pe :
    Then(ReduceProjCore(c1, x, d, e[2], e[3], pe), LAMBDA c2, o :
      Ok(c2, IF o = <<>> THEN Done(e) ELSE Cont(o[1]))))

WhnfCoreStep(c, x, cheap, d, e) ==
  CASE Is("app", e)  -> Then(KnotWhnfCore(c, x, cheap, d, GetAppFn(e)), LAMBDA c1, v :
                               WhnfApp(c1, x, d, v, GetAppArgs(e)))
    [] Is("proj", e) -> WhnfCoreStepProj(c, x, cheap, d, e)
    [] Is("let", e)  -> Ok(c, Cont(Inst1(e[4], e[3])))
    [] Is("bvar", e) -> Fail(c, "notimpl")
    [] OTHER         -> Ok(c, Done(e))
WhnfCoreLoop(c, x, cheap, d, e) ==
  Then(WhnfCoreStep(c, x, cheap, d, e), LAMBDA c1, s :
    IF s[1] = "done" THEN Ok(c1, s[2]) ELSE WhnfCoreLoop(c1, x, cheap, d, s[2]))

(* Number operations on literals, before their definitions are unfolded.   *)
BothRawLits(c, x, d, a, b, F(_, _, _)) ==
  Then(KnotWhnf(c, x, d, a), LAMBDA c1, wa :
    IF RawNatLit(wa) = <<>> THEN Ok(c1, <<>>)
    ELSE Then(KnotWhnf(c1, x, d, b), LAMBDA c2, wb :
           IF RawNatLit(wb) = <<>> THEN Ok(c2, <<>>) ELSE F(c2, RawNatLit(wa)[1], RawNatLit(wb)[1])))
ReduceNatSucc(c, x, d, e) ==
  IF e[2] = Const0("Nat.succ") /\ NatLitSupported(x.env)
  THEN Then(KnotWhnf(c, x, d, e[3]), LAMBDA c1, w :
         Ok(c1, IF RawNatLit(w) = <<>> THEN <<>> ELSE <<Lit(RawNatLit(w)[1] + 1)>>))
  ELSE Ok(c, <<>>)
ReduceNatBin(c, x, d, op, a, b) ==
  IF op[3] # <<>> THEN Ok(c, <<>>)
  ELSE IF op[2] \in NatBinOps /\ NatOpStored(x.env, op[2])
  THEN BothRawLits(c, x, d, a, b, LAMBDA c1, m, n : Ok(c1, NatOpResult(op[2], m, n)))
  ELSE IF op[2] \in NatOpWfNames /\ NatLitSupported(x.env)
  THEN BothRawLits(c, x, d, a, b, LAMBDA c1, m, n : Fail(c1, "notimpl"))
  ELSE Ok(c, <<>>)
ReduceNat(c, x, d, e) ==
  CASE Is("app", e) /\ Is("const", e[2]) -> ReduceNatSucc(c, x, d, e)
    [] Is("app", e) /\ Is("app", e[2]) /\ Is("const", e[2][2]) ->
         ReduceNatBin(c, x, d, e[2][2], e[2][3], e[3])
    [] OTHER -> Ok(c, <<>>)

UnfoldDefinition(c, x, e) ==
  IF UnfoldableHead(x.env, e)
  THEN Then(ConstValAt(c, HeadName(e), x.env.infos[HeadName(e)], HeadLevels(e)), LAMBDA c1, v :
         Ok(c1, <<MkAppN(v, GetAppArgs(e))>>))
  ELSE Ok(c, <<>>)

WhnfStep(c, x, d, e) ==
  Then(KnotWhnfCore(c, x, FALSE, d, e), LAMBDA c1, e1 :
    Then(ReduceNat(c1, x, d, e1), LAMBDA c2, nat :
      IF nat # <<>> THEN Ok(c2, Cont(nat[1]))
      ELSE Then(UnfoldDefinition(c2, x, e1), LAMBDA c3, o :
             Ok(c3, IF o # <<>> THEN Cont(o[1]) ELSE Done(e1)))))
WhnfLoop(c, x, d, e) ==
  Then(WhnfStep(c, x, d, e), LAMBDA c1, s :
    IF s[1] = "done" THEN Ok(c1, s[2]) ELSE WhnfLoop(c1, x, d, s[2]))
-----------------------------------------------------------------------------
(* Inference.  The checked grade verifies every binder's domain, every     *)
(* argument and every let value; the unchecked one (io) takes them as      *)
(* given and memoises in a table of its own.                               *)
InferFVar(c, d, e) == IF e[2] < d THEN Ok(c, e[3]) ELSE Fail(c, "invalid")
InferConst(c, x, e) ==
  IF ~Stored(x.env, e[2]) THEN Fail(c, IF e[2] = "sorryAx" THEN "notimpl" ELSE "invalid")
  ELSE IF Len(e[3]) # Len(x.env.infos[e[2]].lps) THEN Fail(c, "invalid")
  ELSE ConstTyAt(c, e[2], x.env.infos[e[2]], e[3])
InferLit(c, x, e) ==
  CASE Is("lit", e) -> IF NatLitSupported(x.env) THEN Ok(c, Const0("Nat")) ELSE Fail(c, "invalid")
    [] Is("str", e) -> IF StrLitSupported(x.env) THEN Ok(c, Const0("String")) ELSE Fail(c, "notimpl")

(* Under the binders already opened as the free variables fvs: each domain *)
(* is opened, inferred and must be a sort; the leaf closes the telescope.  *)
InferPis(c, x, d, t, fvs, sorts) ==
  LET k  == Len(fvs)
      ty == Instantiate(t[2], fvs)
      imax(u, v) == LIMax(u, v)
  IN  IF Is("pi", t)
      THEN Then(InferSortOf(c, x, d + k, ty), LAMBDA c1, u :
             InferPis(c1, x, d, t[3], Append(fvs, FVar(d + k, ty)), Append(sorts, u)))
      ELSE Then(InferSortOf(c, x, d + k, Instantiate(t, fvs)), LAMBDA c1, v :
             Ok(c1, Srt(FoldRight(imax, sorts, v))))

InferLams(c, x, d, t, fvs, doms) ==
  LET k  == Len(fvs)
      ty == Instantiate(t[2], fvs)
      close(j, cur) == Pi(AbstractRange(doms[j], d, j - 1), cur)
  IN  IF Is("lam", t)
      THEN Then(InferSortOf(c, x, d + k, ty), LAMBDA c1, u :
             InferLams(c1, x, d, t[3], Append(fvs, FVar(d + k, ty)), Append(doms, ty)))
      ELSE Then(KnotInfer(c, x, d + k, Instantiate(t, fvs)), LAMBDA c1, bt :
             Ok(c1, FoldRight(close, [j \in 1 .. k |-> j], AbstractRange(bt, d, k))))

IsEagerReduce(e) ==
  Is("app", e) /\ Is("app", e[2]) /\ IsConstNamed("eagerReduce", e[2][2])
DefeqArg(c, x, d, a, ta, ty) ==
  IF IsEagerReduce(a) THEN KnotDefeqE(c, x, d, ta, ty) ELSE KnotDefeq(c, x, d, ta, ty)

(* ty under the arguments acc not yet instantiated in it.                  *)
InferSpineIo(c, x, d, ty, acc, args) ==
  IF args = <<>> THEN Ok(c, Instantiate(ty, acc))
  ELSE IF Is("pi", ty) THEN InferSpineIo(c, x, d, ty[3], Append(acc, Head(args)), Tail(args))
  ELSE Then(KnotWhnf(c, x, d, Instantiate(ty, acc)), LAMBDA c1, w :
         IF Is("pi", w) THEN InferSpineIo(c1, x, d, w[3], <<Head(args)>>, Tail(args))
         ELSE Fail(c1, "invalid"))

InferSpine(c, x, d, ty, acc, args) ==
  LET a == Head(args)
      argument(c1, dom, body, acc1) ==
        Then(KnotInfer(c1, x, d, a), LAMBDA c2, ta :
          Then(DefeqArg(c2, x, d, a, ta, dom), LAMBDA c3, eq :
            IF eq THEN InferSpine(c3, x, d, body, Append(acc1, a), Tail(args))
            ELSE Fail(c3, "invalid")))
  IN  IF args = <<>> THEN Ok(c, Instantiate(ty, acc))
      ELSE IF Is("pi", ty) THEN argument(c, Instantiate(ty[2], acc), ty[3], acc)
      ELSE Then(KnotWhnf(c, x, d, Instantiate(ty, acc)), LAMBDA c1, w :
             IF Is("pi", w) THEN argument(c1, w[2], w[3], <<>>) ELSE Fail(c1, "invalid"))

InferApp(c, x, d, e) ==
  Then(KnotInfer(c, x, d, GetAppFn(e)), LAMBDA c1, tf : InferSpine(c1, x, d, tf, <<>>, GetAppArgs(e)))
InferAppIo(c, x, d, e) ==
  Then(KnotInferIo(c, x, d, GetAppFn(e)), LAMBDA c1, tf : InferSpineIo(c1, x, d, tf, <<>>, GetAppArgs(e)))

(* A projection out of a Prop must itself be a proof.                      *)
ProjMissError(env, te, sn, i) ==
  IF \E j \in DOMAIN env.projs : j[1] = HeadName(te) THEN "invalid"
  ELSE IF ProjIndexedStructLike(env, HeadName(te), sn, i, Len(GetAppArgs(te))) THEN "notimpl"
  ELSE "invalid"
InferProjAt(c, te, e, entry) ==
  LET us == HeadLevels(te)
      type == Instantiate(InstLp(entry.lps, us, entry.body), Append(GetAppArgs(te), e[4]))
  IN  IF HeadName(te) # e[2] \/ Len(GetAppArgs(te)) # entry.num_params THEN Fail(c, "invalid")
      ELSE IF Len(us) # Len(entry.lps) THEN Fail(c, "notimpl")
      ELSE Then(ProjEntryFireOk(c, entry, us), LAMBDA c1, fok :
             IF fok THEN Ok(c1, type) ELSE Fail(c1, "invalid"))
InferProj(c, x, io, d, e) ==
  Then(KnotInferAt(c, x, io, d, e[4]), LAMBDA c1, tp :
    Then(KnotWhnf(c1, x, d, tp), LAMBDA c2, te :
      IF ~HeadConst(te) THEN Fail(c2, "invalid")
      ELSE LET entry == FindProj(x.env, HeadName(te), e[3])
           IN  IF entry = <<>> THEN Fail(c2, ProjMissError(x.env, te, e[2], e[3]))
               ELSE InferProjAt(c2, te, e, entry[1])))

InferLet(c, x, d, e) ==
  Then(InferSortOf(c, x, d, e[2]), LAMBDA c1, u :
    Then(KnotInfer(c1, x, d, e[3]), LAMBDA c2, tv :
      Then(KnotDefeq(c2, x, d, tv, e[2]), LAMBDA c3, eq :
        IF eq THEN KnotInfer(c3, x, d, Inst1(e[4], e[3])) ELSE Fail(c3, "invalid"))))

InferForallIo(c, x, d, e) ==
  LET sortOf(c1, d1, t, F(_, _)) ==
        Then(Then(KnotInferIo(c1, x, d1, t), LAMBDA c2, tt : EnsureSort(c2, x, d1, tt)), F)
  IN  sortOf(c, d, e[2], LAMBDA c1, u :
        sortOf(c1, d + 1, Inst1(e[3], FVar(d, e[2])), LAMBDA c2, v : Ok(c2, Srt(LIMax(u, v)))))
InferLamIo(c, x, d, e) ==
  Then(KnotInferIo(c, x, d + 1, Inst1(e[3], FVar(d, e[2]))), LAMBDA c1, bt :
    Ok(c1, Pi(e[2], AbstractRange(bt, d, 1))))

InferBody(c, x, d, e) ==
  CASE Is("sort", e)  -> Ok(c, Srt(LSucc(e[2])))
    [] Is("fvar", e)  -> InferFVar(c, d, e)
    [] Is("const", e) -> InferConst(c, x, e)
    [] e[1] \in {"lit", "str"} -> InferLit(c, x, e)
    [] Is("pi", e)    -> InferPis(c, x, d, e, <<>>, <<>>)
    [] Is("lam", e)   -> InferLams(c, x, d, e, <<>>, <<>>)
    [] Is("app", e)   -> InferApp(c, x, d, e)
    [] Is("proj", e)  -> InferProj(c, x, FALSE, d, e)
    [] Is("let", e)   -> InferLet(c, x, d, e)
    [] Is("bvar", e)  -> Fail(c, "notimpl")
InferBodyIo(c, x, d, e) ==
  CASE Is("sort", e)  -> Ok(c, Srt(LSucc(e[2])))
    [] Is("fvar", e)  -> InferFVar(c, d, e)
    [] Is("const", e) -> InferConst(c, x, e)
    [] e[1] \in {"lit", "str"} -> InferLit(c, x, e)
    [] Is("pi", e)    -> InferForallIo(c, x, d, e)
    [] Is("lam", e)   -> InferLamIo(c, x, d, e)
    [] Is("app", e)   -> InferAppIo(c, x, d, e)
    [] Is("proj", e)  -> InferProj(c, x, TRUE, d, e)
    [] Is("let", e)   -> KnotInferIo(c, x, d, Inst1(e[4], e[3]))
    [] Is("bvar", e)  -> Fail(c, "notimpl")
-----------------------------------------------------------------------------
(* Definitional equality.  Terms of the same shape first: Some of the      *)
(* answer when the shape settles it.  Binders are compared with their      *)
(* domains, then under free variables typed by the right-hand domain.      *)
DefeqPeel(c, x, d, fvs, a, b) ==
  LET k  == Len(fvs)
      t1 == Instantiate(a[2], fvs)
      t2 == Instantiate(b[2], fvs)
  IN  IF a = b THEN Ok(c, TRUE)
      ELSE IF Is("pi", a) /\ Is("pi", b)
      THEN AndThen(IF a[2] = b[2] THEN Ok(c, TRUE) ELSE KnotDefeq(c, x, d + k, t1, t2), LAMBDA c1 :
             DefeqPeel(c1, x, d, Append(fvs, FVar(d + k, t2)), a[3], b[3]))
      ELSE KnotDefeq(c, x, d + k, Instantiate(a, fvs), Instantiate(b, fvs))
DefeqBinders(c, x, d, a, b) ==
  AndThen(KnotDefeq(c, x, d, a[2], b[2]), LAMBDA c1 :
    DefeqPeel(c1, x, d, <<FVar(d, b[2])>>, a[3], b[3]))

DefeqLamsInner(c, x, d, b1, b2) ==
  AndThen(KnotDefeq(c, x, d, b1, b2), LAMBDA c1 :
    IF ~x.verified THEN Ok(c1, TRUE)
    ELSE Then(KnotInfer(c1, x, d, b1), LAMBDA c2, t1 :
           Then(KnotInfer(c2, x, d, b2), LAMBDA c3, t2 : KnotDefeq(c3, x, d, t1, t2))))
DefeqLams(c, x, d, a, b) ==
  LET fv == FVar(d, b[2])
      b1 == Inst1(a[3], fv)
      b2 == Inst1(b[3], fv)
  IN  AndThen(KnotDefeq(c, x, d, a[2], b[2]), LAMBDA c1 :
        IF ~(Is("lam", b1) /\ Is("lam", b2)) THEN DefeqLamsInner(c1, x, d + 1, b1, b2)
        ELSE IF b1 = b2 THEN Ok(c1, TRUE)
        ELSE DefeqLams(c1, x, d + 1, b1, b2))

SomeOf(m) == Then(m, LAMBDA c, p : Ok(c, <<p>>))
QuickDefeq(c, x, d, a, b) ==
  CASE a = b -> Ok(c, <<TRUE>>)
    [] a # b /\ Is("sort", a) /\ Is("sort", b) -> SomeOf(LiftFueled(LvlEq(c, a[2], b[2])))
    [] a # b /\ {a[1], b[1]} \subseteq {"lit", "str"} -> Ok(c, <<FALSE>>)
    [] a # b /\ Is("pi", a) /\ Is("pi", b)     -> SomeOf(DefeqBinders(c, x, d, a, b))
    [] a # b /\ Is("lam", a) /\ Is("lam", b)   -> SomeOf(DefeqLams(c, x, d, a, b))
    [] OTHER -> Ok(c, <<>>)

(* n + 1 against m + 1, by their predecessors.                             *)
NatPred(e) ==
  CASE Is("lit", e) /\ e[2] > 0 -> <<Lit(e[2] - 1)>>
    [] Is("app", e) /\ e[2] = Const0("Nat.succ") -> <<e[3]>>
    [] OTHER -> <<>>
DefeqOffset(c, x, d, a, b) ==
  LET isZero(e) == e \in {Lit(0), Const0("Nat.zero")}
  IN  IF isZero(a) /\ isZero(b) THEN Ok(c, <<TRUE>>)
      ELSE IF {a[1], b[1]} \subseteq {"lit", "str"} \/ NatPred(a) = <<>> \/ NatPred(b) = <<>>
      THEN Ok(c, <<>>)
      ELSE SomeOf(KnotDefeq(c, x, d, NatPred(a)[1], NatPred(b)[1]))

LazyDeltaNat(c, x, d, a, b) ==
  IF ~(x.eager \/ (~HasFVar(a) /\ ~HasFVar(b))) THEN Ok(c, <<>>)
  ELSE Then(ReduceNat(c, x, d, a), LAMBDA c1, ra :
         IF ra # <<>> THEN SomeOf(KnotDefeq(c1, x, d, ra[1], b))
         ELSE Then(ReduceNat(c1, x, d, b), LAMBDA c2, rb :
                IF rb # <<>> THEN SomeOf(KnotDefeq(c2, x, d, a, rb[1])) ELSE Ok(c2, <<>>)))

(* One step of lazy delta: unfold the definition of greater height, or     *)
(* compare the arguments when both heads are the same regular definition.  *)
DeltaQuick(c, x, d, a, b) ==
  Then(QuickDefeq(c, x, d, a, b), LAMBDA c1, o :
    Ok(c1, CASE o = <<TRUE>> -> <<"eq">> [] o = <<FALSE>> -> <<"diff">> [] OTHER -> <<"cont", a, b>>))
UnfoldCheap(c, x, d, e, F(_, _)) ==
  Then(UnfoldDefinition(c, x, e), LAMBDA c1, o :
    IF o = <<>> THEN Ok(c1, <<"unknown">>) ELSE Then(KnotWhnfCore(c1, x, TRUE, d, o[1]), F))
LazyDeltaLeft(c, x, d, a, b)  == UnfoldCheap(c, x, d, a, LAMBDA c1, a1 : DeltaQuick(c1, x, d, a1, b))
LazyDeltaRight(c, x, d, a, b) == UnfoldCheap(c, x, d, b, LAMBDA c1, b1 : DeltaQuick(c1, x, d, a, b1))

HeadIsProj(e) == Is("proj", GetAppFn(e))
TryUnfoldProjApp(c, x, d, e) ==
  IF ~HeadIsProj(e) THEN Ok(c, <<>>)
  ELSE Then(KnotWhnfCore(c, x, FALSE, d, e), LAMBDA c1, e1 : Ok(c1, IF e1 = e THEN <<>> ELSE <<e1>>))

DefeqSpine(c, x, d, a, b) ==
  Unless(HeadName(a) = HeadName(b) /\ Len(GetAppArgs(a)) = Len(GetAppArgs(b)), c,
    Then(LvlsEq(c, HeadLevels(a), HeadLevels(b)), LAMBDA c1, o :
      Unless(o = <<TRUE>>, c1, DefEqList(c1, x, d, Reverse(GetAppArgs(a)), Reverse(GetAppArgs(b))))))

LazyDeltaUnfoldBoth(c, x, d, a, b) ==
  Then(UnfoldDefinition(c, x, a), LAMBDA c1, ua :
    Then(UnfoldDefinition(c1, x, b), LAMBDA c2, ub :
      Then(KnotWhnfCore(c2, x, TRUE, d, ua[1]), LAMBDA c3, a1 :
        Then(KnotWhnfCore(c3, x, TRUE, d, ub[1]), LAMBDA c4, b1 : DeltaQuick(c4, x, d, a1, b1)))))
LazyDeltaBoth(c, x, d, a, b) ==
  LET ha == HeadHint(x.env, a)
      hb == HeadHint(x.env, b)
  IN  IF HintLt(hb, ha) THEN LazyDeltaLeft(c, x, d, a, b)
      ELSE IF HintLt(ha, hb) THEN LazyDeltaRight(c, x, d, a, b)
      ELSE Then(Unless(SameRegular(ha, hb) /\ SameConstHeads(a, b), c, DefeqSpine(c, x, d, a, b)),
             LAMBDA c1, same : IF same THEN Ok(c1, <<"eq">>) ELSE LazyDeltaUnfoldBoth(c1, x, d, a, b))

LazyDeltaStep(c, x, d, a, b) ==
  LET ua == UnfoldableHead(x.env, a)
      ub == UnfoldableHead(x.env, b)
  IN  CASE ~ua /\ ~ub -> Ok(c, <<"unknown">>)
        [] ua /\ ~ub  -> Then(TryUnfoldProjApp(c, x, d, b), LAMBDA c1, o :
                           IF o # <<>> THEN DeltaQuick(c1, x, d, a, o[1]) ELSE LazyDeltaLeft(c1, x, d, a, b))
        [] ~ua /\ ub  -> Then(TryUnfoldProjApp(c, x, d, a), LAMBDA c1, o :
                           IF o # <<>> THEN DeltaQuick(c1, x, d, o[1], b) ELSE LazyDeltaRight(c1, x, d, a, b))
        [] ua /\ ub   -> LazyDeltaBoth(c, x, d, a, b)

(* <<"verdict", answer>>, or <<"unknown", a, b>>: nothing left to unfold.  *)
LazyDelta(c, x, d, a, b) ==
  Then(DefeqOffset(c, x, d, a, b), LAMBDA c1, off :
    IF off # <<>> THEN Ok(c1, <<"verdict", off[1]>>)
    ELSE Then(LazyDeltaNat(c1, x, d, a, b), LAMBDA c2, nat :
      IF nat # <<>> THEN Ok(c2, <<"verdict", nat[1]>>)
      ELSE Then(LazyDeltaStep(c2, x, d, a, b), LAMBDA c3, s :
        CASE s[1] = "cont"    -> LazyDelta(c3, x, d, s[2], s[3])
          [] s[1] = "eq"      -> Ok(c3, <<"verdict", TRUE>>)
          [] s[1] = "diff"    -> Ok(c3, <<"verdict", FALSE>>)
          [] s[1] = "unknown" -> Ok(c3, <<"unknown", a, b>>))))

(* e.i against e'.i: the structures are unfolded in step, then the fields  *)
(* are compared if both show, the structures otherwise.                    *)
LazyDeltaProjFields(c, x, d, p, a, b) ==
  Then(ReduceProjCore(c, x, d, p[1], p[2], a), LAMBDA c1, oa :
    IF oa = <<>> THEN KnotDefeq(c1, x, d, a, b)
    ELSE Then(ReduceProjCore(c1, x, d, p[1], p[2], b), LAMBDA c2, ob :
           IF ob = <<>> THEN KnotDefeq(c2, x, d, a, b) ELSE KnotDefeq(c2, x, d, oa[1], ob[1])))
LazyDeltaProj(c, x, d, p, ab) ==
  Then(LazyDeltaStep(c, x, d, ab[1], ab[2]), LAMBDA c1, s :
    CASE s[1] = "cont" -> LazyDeltaProj(c1, x, d, p, <<s[2], s[3]>>)
      [] s[1] = "eq"   -> Ok(c1, TRUE)
      [] OTHER         -> LazyDeltaProjFields(c1, x, d, p, ab[1], ab[2]))
DefeqProjPair(c, x, d, a, b) ==
  Unless(Is("proj", a) /\ Is("proj", b) /\ a[2] = b[2] /\ a[3] = b[3], c,
    LazyDeltaProj(c, x, d, <<a[2], a[3]>>, <<a[4], b[4]>>))

DefeqStrApp(c, x, d, s, fo, a, b, Against(_, _)) ==
  IF Is("str", s) /\ fo = Const0("String.ofList") /\ StrLitSupported(x.env)
  THEN Against(c, StrLitToConstructor(s[2])) ELSE StuckIrrel(c, x, d, a, b)
DefeqApps(c, x, d, a, b) ==
  OrElse(Unless(Len(GetAppArgs(a)) = Len(GetAppArgs(b)), c,
           AndThen(KnotDefeq(c, x, d, GetAppFn(a), GetAppFn(b)), LAMBDA c1 :
             DefEqList(c1, x, d, GetAppArgs(a), GetAppArgs(b)))),
         LAMBDA c1 : StuckIrrel(c1, x, d, a, b))
DefeqStuck(c, x, d, a, b) ==
  LET irrel(m) == OrElse(m, LAMBDA c1 : StuckIrrel(c1, x, d, a, b))
  IN  CASE a[1] \in {"lit", "str"} /\ Is("app", b) ->
             DefeqStrApp(c, x, d, a, b[2], a, b, LAMBDA c1, e : KnotDefeq(c1, x, d, e, b))
        [] Is("app", a) /\ b[1] \in {"lit", "str"} ->
             DefeqStrApp(c, x, d, b, a[2], a, b, LAMBDA c1, e : KnotDefeq(c1, x, d, a, e))
        [] Is("fvar", a) /\ Is("fvar", b)   -> irrel(Ok(c, a[2] = b[2]))
        [] Is("const", a) /\ Is("const", b) ->
             irrel(Unless(a[2] = b[2], c, LiftFueled(LvlsEq(c, a[3], b[3]))))
        [] Is("app", a) /\ Is("app", b)     -> DefeqApps(c, x, d, a, b)
        [] Is("lam", a)                     -> irrel(EtaCert(c, x, d, a[2], a[3], b))
        [] ~Is("lam", a) /\ Is("lam", b)    -> irrel(EtaCert(c, x, d, b[2], b[3], a))
        [] OTHER                            -> StuckIrrel(c, x, d, a, b)

DefeqAfterLazy(c, x, d, a, b) ==
  OrElse(DefeqProjPair(c, x, d, a, b), LAMBDA c1 :
    IF ~HeadIsProj(a) /\ ~HeadIsProj(b) THEN DefeqStuck(c1, x, d, a, b)
    ELSE Then(KnotWhnfCore(c1, x, FALSE, d, a), LAMBDA c2, a1 :
           Then(KnotWhnfCore(c2, x, FALSE, d, b), LAMBDA c3, b1 :
             IF a1 = a /\ b1 = b THEN DefeqStuck(c3, x, d, a, b) ELSE KnotDefeq(c3, x, d, a1, b1))))

DefeqAfterWhnf(c, x, d, a, b) ==
  Then(QuickDefeq(c, x, d, a, b), LAMBDA c1, o :
    IF o # <<>> THEN Ok(c1, o[1])
    ELSE Then(LazyDelta(c1, x, d, a, b), LAMBDA c2, r :
           IF r[1] = "verdict" THEN Ok(c2, r[2]) ELSE DefeqAfterLazy(c2, x, d, r[2], r[3])))
DefeqUnreduced(c, x, d, a, b) ==
  Then(QuickDefeq(c, x, d, a, b), LAMBDA c1, o :
    IF o # <<>> THEN Ok(c1, o[1])
    ELSE OrElse(PropIrrel(c1, x, d, a, b), LAMBDA c2 :
           Then(KnotWhnfCore(c2, x, TRUE, d, a), LAMBDA c3, a1 :
             Then(KnotWhnfCore(c3, x, TRUE, d, b), LAMBDA c4, b1 : DefeqAfterWhnf(c4, x, d, a1, b1)))))

IsBoolTrue(e) == e = Const0("Bool.true")
BoolTrueShortcut(c, x, d, a) ==
  Then(KnotWhnf(c, x, d, a), LAMBDA c1, w : Ok(c1, IsBoolTrue(w)))
DefeqBody(c, x, d, a, b) ==
  IF a = b THEN Ok(c, TRUE)
  ELSE OrElse(Unless(IsBoolTrue(b) /\ (x.eager \/ ~HasFVar(a)), c, BoolTrueShortcut(c, x, d, a)),
              LAMBDA c1 : DefeqUnreduced(c1, x, d, a, b))
=============================================================================
