------------------------------ MODULE CoreEnv ------------------------------
(***************************************************************************)
(* What the typing core reads off the environment without reducing         *)
(* anything: whether a term is a proof, from the declared type of its head *)
(* alone (arena/prop_read.rs); which literals and number operations the    *)
(* environment supports, and the shape of a head constant (arena/core.rs,  *)
(* up to the reducers).                                                    *)
(*                                                                         *)
(* An environment is a record of two functions: infos, from the installed  *)
(* names to the constant's information, and projs, from <<structure,       *)
(* field>> to the entry of the projection table.                           *)
(*                                                                         *)
(* A constant's information is a record with kind, lps and ty, and         *)
(*   "defn"  val, hint                                                     *)
(*   "ind"   caps = [eta, eta_ctor, eta_params, eta_fields, unitlike,      *)
(*                   unit_params, rule_k, sort_z, all, nparams, ctors]     *)
(*   "ctor"  np, nf                                                        *)
(*   "rec"   mi, rp, rules = sequence of [ctor, nfields, ctor_params,      *)
(*                                        fire, rhs, k, eta]               *)
(* A projection entry is [lps, num_params, ctor, num_fields, body,         *)
(* field_sort, struct_sort].  A string literal is <<"str", code points>>.  *)
(***************************************************************************)
EXTENDS Term, SequencesExt, Bitwise

-----------------------------------------------------------------------------
(* Is a term a proof?  Read off the type of its head when that is a Prop,  *)
(* as an Option of a PropWhen: <<>> when the head says nothing.            *)

FindProj(env, s, i) == IF <<s, i>> \in DOMAIN env.projs THEN <<env.projs[<<s, i>>]>> ELSE <<>>
IsKind(env, n, kind) == n \in DOMAIN env.infos /\ env.infos[n].kind = kind

ResidualPw(o) ==
  IF o # <<>> /\ Is("sort", o[1]) THEN <<ZeronessOf(o[1][2])>> ELSE <<>>

(* A body that is k lambdas over one of their variables: <<k, j>>.         *)
RECURSIVE LamProj(_, _)
LamProj(k, e) ==
  CASE Is("lam", e)                -> LamProj(k + 1, e[3])
    [] Is("bvar", e) /\ e[2] < k   -> <<k, e[2]>>
    [] OTHER                       -> <<>>

(* outParam, optParam and their like: a saturated definition that returns  *)
(* one of its arguments is read as that argument, n deep.                  *)
UnwrapFuel == 4
RECURSIVE UnwrapIdDefs(_, _, _)
UnwrapIdDefs(env, n, e) ==
  LET hd   == GetAppFn(e)
      kj   == LamProj(0, env.infos[hd[2]].val)
      args == GetAppArgs(e)
  IN  IF n > 0 /\ Is("const", hd) /\ IsKind(env, hd[2], "defn") /\ kj # <<>> /\ Len(args) = kj[1]
      THEN UnwrapIdDefs(env, n - 1, args[kj[1] - kj[2]])
      ELSE e

(* The type left when n binders of a head's type are applied, unwrapping   *)
(* identity definitions on the way: None when there are too few.           *)
RECURSIVE PeelPisW(_, _, _)
PeelPisW(env, k, e) ==
  IF k = 0 THEN <<UnwrapIdDefs(env, UnwrapFuel, e)>>
  ELSE IF Is("pi", e) THEN PeelPisW(env, k - 1, e[3])
  ELSE LET w == UnwrapIdDefs(env, UnwrapFuel, e)
       IN  IF Is("pi", w) THEN PeelPisW(env, k - 1, w[3]) ELSE <<>>

(* Read at the levels a constant is used at; a wrong count says nothing.   *)
AtLevels(ci, us, o) ==
  IF Len(us) # Len(ci.lps) \/ o = <<>> THEN <<>> ELSE <<SubstPw(ci.lps, us, o[1])>>

(* Whether the type h a1 .. an, met under d binders of root, is a Prop.    *)
HeadTypePw(env, root, d, h, n) ==
  LET read(ty) == ResidualPw(PeelPisW(env, n, ty))
      dom == BinderDom(d - 1 - h[2], root)
  IN  CASE Is("const", h) /\ h[2] \in DOMAIN env.infos ->
             AtLevels(env.infos[h[2]], h[3], read(env.infos[h[2]].ty))
        [] Is("fvar", h) -> read(h[3])
        [] Is("bvar", h) /\ h[2] < d -> IF dom = <<>> THEN <<>> ELSE read(dom[1])
        [] OTHER -> <<>>

RECURSIVE TypeSortPwGo(_, _, _, _)
TypeSortPwGo(env, root, t, d) ==
  CASE Is("pi", t)   -> TypeSortPwGo(env, root, t[3], d + 1)
    [] Is("sort", t) -> <<Never>>
    [] OTHER         -> HeadTypePw(env, root, d, GetAppFn(t), Len(GetAppArgs(t)))
TypeSortPw(env, t) == TypeSortPwGo(env, t, t, 0)

(* A projection's body is the field's type over its parameters: only       *)
(* "never" survives the missing substitution.                              *)
HeadProofPw(env, h) ==
  LET entry == FindProj(env, h[2], h[3])
      field == TypeSortPw(env, entry[1].body)
  IN  CASE Is("const", h) /\ h[2] \in DOMAIN env.infos ->
             AtLevels(env.infos[h[2]], h[3], TypeSortPw(env, env.infos[h[2]].ty))
        [] Is("fvar", h) -> TypeSortPw(env, h[3])
        [] h[1] \in {"sort", "pi", "lit"} -> <<Never>>
        [] Is("proj", h) /\ entry # <<>> -> IF field = <<Never>> THEN field ELSE <<>>
        [] OTHER -> <<>>

RECURSIVE ProofPw(_, _)
ProofPw(env, a) ==
  CASE Is("lam", a) -> ProofPw(env, a[3])
    [] Is("let", a) -> ProofPw(env, a[4])
    [] Is("app", a) -> ProofPw(env, a[2])
    [] OTHER        -> HeadProofPw(env, a)

IsPropPw(pw) == pw = IfAllZero(<<>>)
NotProofFast(env, a) == ProofPw(env, a) # <<>> /\ ~IsPropPw(ProofPw(env, a)[1])
IsProofFast(env, a)  == ProofPw(env, a) # <<>> /\ IsPropPw(ProofPw(env, a)[1])

-----------------------------------------------------------------------------
(* The constants the core knows, and heads.                                *)
Const0(n) == Cnst(n, <<>>)
SortOne   == Srt(LSucc(LZero))
Ap1(n, a)    == App(Const0(n), a)
Ap2(n, a, b) == App(Ap1(n, a), b)

(* The reserved names the core knows (arena/pins.rs).                      *)
NatBasis     == {"Nat", "Nat.zero", "Nat.succ"}
StrBasis     == {"String", "String.ofList", "List", "List.nil", "List.cons", "Char", "Char.ofNat"}
NatOpNames   == {"Nat.pred", "Nat.add", "Nat.sub", "Nat.mul", "Nat.pow", "Nat.beq", "Nat.ble"}
NatOpWfNames == {"Nat.div", "Nat.mod", "Nat.gcd", "Nat.land", "Nat.lor", "Nat.xor",
                 "Nat.shiftLeft", "Nat.shiftRight"}
NatBinOps    == (NatOpNames \ {"Nat.pred"}) \cup NatOpWfNames
ReservedBasis == {"Eq", "Eq.refl", "Eq.rec", "Nat", "Nat.zero", "Nat.succ", "Nat.rec",
                  "Empty", "Empty.rec", "False", "False.rec",
                  "Quot", "Quot.mk", "Quot.lift", "Quot.ind", "Quot.sound"}
ReservedRecName(n) == n \in ReservedBasis \cup NatBasis \cup StrBasis \cup NatOpNames \cup NatOpWfNames

(* Literals.  A pinned constant must be stored with the type the literal's *)
(* expansion needs, over the universe parameter it happens to be named by. *)
Stored(env, n) == n \in DOMAIN env.infos
Pinned(env, n, nlps, TyAt(_)) ==
  /\ Stored(env, n)
  /\ Len(env.infos[n].lps) = nlps
  /\ env.infos[n].ty = TyAt(IF nlps = 0 THEN LZero ELSE LParam(env.infos[n].lps[1]))

NatIndOk(env)        == IsKind(env, "Nat", "ind") /\ Pinned(env, "Nat", 0, LAMBDA u : SortOne)
NatLitSupported(env) ==
  /\ NatIndOk(env)
  /\ IsKind(env, "Nat.zero", "ctor") /\ Pinned(env, "Nat.zero", 0, LAMBDA u : Const0("Nat"))
  /\ IsKind(env, "Nat.succ", "ctor") /\ Pinned(env, "Nat.succ", 0, LAMBDA u : Pi(Const0("Nat"), Const0("Nat")))

ListAt(u, a) == App(Cnst("List", <<u>>), a)
TypeOver(u)  == Srt(LSucc(u))
SortOneOk(env, n)       == Pinned(env, n, 0, LAMBDA u : SortOne)
ListTyOk(env)           == Pinned(env, "List", 1, LAMBDA u : Pi(TypeOver(u), TypeOver(u)))
ListNilTyOk(env)        == Pinned(env, "List.nil", 1, LAMBDA u : Pi(TypeOver(u), ListAt(u, BVar(0))))
ListConsTyOk(env)       ==
  Pinned(env, "List.cons", 1,
         LAMBDA u : Pi(TypeOver(u), Pi(BVar(0), Pi(ListAt(u, BVar(1)), ListAt(u, BVar(2))))))
CharOfNatTyOk(env)      == Pinned(env, "Char.ofNat", 0, LAMBDA u : Pi(Const0("Nat"), Const0("Char")))
StringOfListTyOk(env)   ==
  Pinned(env, "String.ofList", 0, LAMBDA u : Pi(ListAt(LZero, Const0("Char")), Const0("String")))
StrLitSupported(env) ==
  /\ NatLitSupported(env) /\ SortOneOk(env, "String") /\ SortOneOk(env, "Char")
  /\ ListTyOk(env) /\ ListNilTyOk(env) /\ ListConsTyOk(env)
  /\ CharOfNatTyOk(env) /\ StringOfListTyOk(env)

NatLitToConstructor(n) == IF n = 0 THEN Const0("Nat.zero") ELSE Ap1("Nat.succ", Lit(n - 1))
StrLitToConstructor(s) ==
  LET at(n) == App(Cnst(n, <<LZero>>), Const0("Char"))
      cons(c, rest) == App(App(at("List.cons"), Ap1("Char.ofNat", Lit(c))), rest)
  IN  Ap1("String.ofList", FoldRight(cons, s, at("List.nil")))

LitToCtorIfNat(env, e) ==
  IF Is("lit", e) /\ NatLitSupported(env) THEN NatLitToConstructor(e[2]) ELSE e
RawNatLit(e) ==
  CASE Is("lit", e)           -> <<e[2]>>
    [] e = Const0("Nat.zero") -> <<0>>
    [] OTHER                  -> <<>>

(* Every constant a term names is stored, a literal's own ones included.   *)
RECURSIVE ConstsResolve(_, _)
ConstsResolve(env, e) ==
  CASE Is("lit", e)   -> \A n \in NatBasis : Stored(env, n)
    [] Is("str", e)   -> \A n \in NatBasis \cup StrBasis : Stored(env, n)
    [] Is("const", e) -> Stored(env, e[2])
    [] Is("fvar", e)  -> ConstsResolve(env, e[3])
    [] OTHER -> /\ Is("proj", e) => Stored(env, e[2])
                /\ \A i \in DOMAIN Kids(e) : ConstsResolve(env, Kids(e)[i])

(* Number operations on literals (div and mod by zero as Lean defines      *)
(* them; a power's exponent is bounded), and what the environment must     *)
(* hold before the declaration of one is accepted.                         *)
MaxPowExponent == 16777216
RECURSIVE NatGcd(_, _), NatPow(_, _)
NatGcd(a, b) == IF a = 0 THEN b ELSE NatGcd(b % a, a)
NatPow(a, n) == IF n = 0 THEN 1 ELSE a * NatPow(a, n - 1)
NatOpResult(c, a, b) ==
  LET bool(p) == Const0(IF p THEN "Bool.true" ELSE "Bool.false")
  IN  CASE c = "Nat.pred"  -> <<Lit(IF a = 0 THEN 0 ELSE a - 1)>>
        [] c = "Nat.add"   -> <<Lit(a + b)>>
        [] c = "Nat.sub"   -> <<Lit(IF a < b THEN 0 ELSE a - b)>>
        [] c = "Nat.mul"   -> <<Lit(a * b)>>
        [] c = "Nat.pow"   -> IF b > MaxPowExponent THEN <<>> ELSE <<Lit(NatPow(a, b))>>
        [] c = "Nat.div"   -> <<Lit(IF b = 0 THEN 0 ELSE a \div b)>>
        [] c = "Nat.mod"   -> <<Lit(IF b = 0 THEN a ELSE a % b)>>
        [] c = "Nat.gcd"   -> <<Lit(NatGcd(a, b))>>
        [] c = "Nat.land"  -> <<Lit(a & b)>>
        [] c = "Nat.lor"   -> <<Lit(a | b)>>
        [] c = "Nat.xor"   -> <<Lit(a ^^ b)>>
        [] c = "Nat.shiftLeft"  -> <<Lit(a * NatPow(2, b))>>
        [] c = "Nat.shiftRight" -> <<Lit(a \div NatPow(2, b))>>
        [] c = "Nat.beq"   -> <<bool(a = b)>>
        [] c = "Nat.ble"   -> <<bool(a <= b)>>

NatOpDeps(c) ==
  LET on(names) == {"Nat." \o n : n \in names} \cup {c}
  IN  CASE c = "Nat.sub" -> on({"pred"})
        [] c = "Nat.mul" -> on({"add"})
        [] c = "Nat.pow" -> on({"add", "mul"})
        [] c \in {"Nat.div", "Nat.mod"} -> on({"pred", "sub", "ble"})
        [] c = "Nat.gcd" -> on({"ble", "mod"})
        [] c \in {"Nat.land", "Nat.xor"} -> on({"add", "mul", "ble", "div", "mod"})
        [] c = "Nat.lor" -> on({"add", "sub", "mul", "ble", "div", "mod"})
        [] c = "Nat.shiftLeft"  -> on({"sub", "mul", "ble"})
        [] c = "Nat.shiftRight" -> on({"sub", "ble", "div"})
        [] OTHER -> {c}
NatOpStored(env, c) == IsKind(env, c, "defn")
NatOpGuard(env, c) ==
  /\ NatLitSupported(env)
  /\ \A n \in NatOpDeps(c) : IsKind(env, n, "defn") /\ env.infos[n].lps = <<>>
  /\ c \in {"Nat.beq", "Nat.ble"} \cup NatOpWfNames =>
       \A b \in {"Bool.true", "Bool.false"} : Pinned(env, b, 0, LAMBDA u : Const0("Bool"))

NatOpCod(env, c, e) ==
  IF c \in {"Nat.beq", "Nat.ble"}
  THEN e = Const0("Bool") /\ Pinned(env, "Bool", 0, LAMBDA u : SortOne)
  ELSE e = Const0("Nat")
NatOpTyPinned(env, c, ty) ==
  LET nat == Const0("Nat")
  IN  IF c = "Nat.pred" THEN Is("pi", ty) /\ ty[2] = nat /\ NatOpCod(env, c, ty[3])
      ELSE /\ Is("pi", ty) /\ ty[2] = nat /\ Is("pi", ty[3]) /\ ty[3][2] = nat
           /\ NatOpCod(env, c, ty[3][3])
NatOpStoredOk(env, c) ==
  IsKind(env, c, "defn") /\ env.infos[c].lps = <<>> /\ NatOpTyPinned(env, c, env.infos[c].ty)

(* The equations an operation's definition must satisfy definitionally, at *)
(* two fresh variables x and y of type Nat.                                *)
NatEqCtx(d) ==
  LET x == FVar(d, Const0("Nat"))  y == FVar(d + 1, Const0("Nat"))
  IN  [x |-> x, y |-> y, z |-> Const0("Nat.zero"), sx |-> Ap1("Nat.succ", x), sy |-> Ap1("Nat.succ", y),
       t |-> Const0("Bool.true"), f |-> Const0("Bool.false")]
NatOpEquationsPow(k, c) == <<<<Ap2(c, k.x, k.z), Ap1("Nat.succ", k.z)>>,
                             <<Ap2(c, k.x, k.sy), Ap2("Nat.mul", Ap2(c, k.x, k.y), k.x)>>>>
NatOpEquationsBeq(k, c) == <<<<Ap2(c, k.z, k.z), k.t>>, <<Ap2(c, k.z, k.sy), k.f>>,
                             <<Ap2(c, k.sx, k.z), k.f>>, <<Ap2(c, k.sx, k.sy), Ap2(c, k.x, k.y)>>>>
NatOpEquationsBle(k, c) == <<<<Ap2(c, k.z, k.y), k.t>>, <<Ap2(c, k.sx, k.z), k.f>>,
                             <<Ap2(c, k.sx, k.sy), Ap2(c, k.x, k.y)>>>>
NatOpEquationsAt(k, c) ==
  CASE c = "Nat.pred" -> <<<<Ap1(c, k.z), k.z>>, <<Ap1(c, k.sx), k.x>>>>
    [] c = "Nat.add"  -> <<<<Ap2(c, k.x, k.z), k.x>>, <<Ap2(c, k.x, k.sy), Ap1("Nat.succ", Ap2(c, k.x, k.y))>>>>
    [] c = "Nat.sub"  -> <<<<Ap2(c, k.x, k.z), k.x>>, <<Ap2(c, k.x, k.sy), Ap1("Nat.pred", Ap2(c, k.x, k.y))>>>>
    [] c = "Nat.mul"  -> <<<<Ap2(c, k.x, k.z), k.z>>, <<Ap2(c, k.x, k.sy), Ap2("Nat.add", Ap2(c, k.x, k.y), k.x)>>>>
    [] c = "Nat.pow"  -> NatOpEquationsPow(k, c)
    [] c = "Nat.beq"  -> NatOpEquationsBeq(k, c)
    [] c = "Nat.ble"  -> NatOpEquationsBle(k, c)
    [] OTHER -> <<>>
NatOpEquations(d, c) == NatOpEquationsAt(NatEqCtx(d), c)

(* The name n at no levels replaced by r: along applications only, and     *)
(* everywhere.                                                             *)
RECURSIVE SubstConst0(_, _, _), SubstConstAll(_, _, _)
SubstConst0(n, r, e) ==
  IF e = Const0(n) THEN r
  ELSE IF Is("app", e) THEN App(SubstConst0(n, r, e[2]), SubstConst0(n, r, e[3])) ELSE e
SubstConstAll(n, r, e) ==
  IF e = Const0(n) THEN r
  ELSE IF Kids(e) = <<>> THEN e
  ELSE Rebuild(e, [i \in DOMAIN Kids(e) |-> SubstConstAll(n, r, Kids(e)[i])])

(* The head constant of a term.                                            *)
HeadConst(e)  == Is("const", GetAppFn(e))
HeadName(e)   == GetAppFn(e)[2]
HeadLevels(e) == GetAppFn(e)[3]
HeadIs(env, e, kind) == HeadConst(e) /\ IsKind(env, HeadName(e), kind)
IsCtorApp(env, e)    == HeadIs(env, e, "ctor")
IoNeutral(e) == GetAppFn(e)[1] \notin {"lam", "let", "bvar"}
UnfoldableHead(env, e) ==
  HeadIs(env, e, "defn") /\ Len(HeadLevels(e)) = Len(env.infos[HeadName(e)].lps)
SameConstHeads(a, b) ==
  /\ Is("app", a) /\ Is("app", b) /\ HeadConst(a) /\ HeadConst(b)
  /\ HeadName(a) = HeadName(b)

(* Reducibility hints: <<"opaque">>, <<"regular", height>>, <<"abbrev">>.  *)
HeadHint(env, e) == IF HeadIs(env, e, "defn") THEN env.infos[HeadName(e)].hint ELSE <<"opaque">>
HintLt(h1, h2) ==
  CASE h2[1] = "opaque"  -> FALSE
    [] h2[1] = "abbrev"  -> h1[1] # "abbrev"
    [] h2[1] = "regular" -> h1[1] = "opaque" \/ (h1[1] = "regular" /\ h1[2] < h2[2])
SameRegular(h1, h2) == h1[1] = "regular" /\ h1 = h2

(* The inductive type a constructor builds, when it is one.                *)
ResultHead(env, ci)  == GetAppFn(PiResult(ci.ty))
BuildsInd(env, ci)   == Is("const", ResultHead(env, ci)) /\ IsKind(env, ResultHead(env, ci)[2], "ind")
IndOf(env, ci)       == env.infos[ResultHead(env, ci)[2]]
CapsNeverZero(lps, us, caps) == SubstPw(lps, us, caps.sort_z) = Never
IotaCtorNeverProp(env, cj, us) ==
  /\ BuildsInd(env, cj) /\ Len(IndOf(env, cj).lps) = Len(us)
  /\ CapsNeverZero(IndOf(env, cj).lps, us, IndOf(env, cj).caps)
IotaCase3(env, rl, cj, us) == ~rl.k /\ ~IotaCtorNeverProp(env, cj, us)

(* The two capabilities of a recursor's rule, set when it is installed.    *)
RecRuleKOf(env, c) ==
  /\ IsKind(env, c, "ctor") /\ BuildsInd(env, env.infos[c])
  /\ IndOf(env, env.infos[c]).caps.rule_k /\ env.infos[c].nf = 0
RecRuleEtaOf(env, c) ==
  /\ IsKind(env, c, "ctor") /\ BuildsInd(env, env.infos[c])
  /\ LET ind == IndOf(env, env.infos[c])
     IN  ind.caps.eta /\ ind.caps.eta_ctor = c /\ env.infos[c].lps = ind.lps
RecRuleBits(env, rl) == [rl EXCEPT !.k = RecRuleKOf(env, rl.ctor), !.eta = RecRuleEtaOf(env, rl.ctor)]
RecRuleK(rules) == Len(rules) = 1 /\ rules[1].k
FindRule(rules, c) == SelectInSeq(rules, LAMBDA rl : rl.ctor = c)

(* The levels and the leading arguments a rule fires its constructor at.   *)
RecFireLevels(rl, lps, us, cj) ==
  IF rl.fire[1] = "nested" THEN [i \in DOMAIN rl.fire[2] |-> LSubst(lps, us, rl.fire[2][i])]
  ELSE [i \in DOMAIN cj.lps |-> LSubst(lps, us, LParam(cj.lps[i]))]
RecFireArgs(rl, lps, us, args, rp) ==
  IF rl.fire[1] = "nested"
  THEN [i \in DOMAIN rl.fire[3] |->
          InstSpine(TakeN(args, rp), IF rp = 0 THEN 0 ELSE rp - 1, InstLp(lps, us, rl.fire[3][i]))]
  ELSE TakeN(args, rl.ctor_params)

TowerSlotsAll(env, t, nf) == \A j \in 0 .. nf - 1 : FindProj(env, t, j) # <<>>
EtaProjsFromOne(t, b, nf) == [j \in 1 .. nf |-> Prj(t, j, b)]      \* mutant: off by one
EtaProjs(t, b, nf) == [j \in 1 .. nf |-> Prj(t, j - 1, b)]
FabScopeOk(depth, fab, major) ==
  WScoped(depth, fab) /\ LooseBounded(0, fab) /\ LeafGuard(fab, major)

(* Applying a telescope: None when it runs out of binders.                 *)
RECURSIVE PiResidual(_, _)
PiResidual(e, args) ==
  IF args = <<>> THEN <<e>>
  ELSE IF Is("pi", e) THEN PiResidual(Inst1(e[3], Head(args)), Tail(args)) ELSE <<>>

(* Whether an unknown projection is one out of an indexed structure.       *)
ProjIndexedStructLike(env, t, sn, i, nargs) ==
  /\ t = sn /\ IsKind(env, t, "ind")
  /\ LET caps == env.infos[t].caps
     IN  /\ Len(caps.ctors) = 1 /\ caps.nparams < nargs
         /\ IsKind(env, caps.ctors[1], "ctor") /\ i < env.infos[caps.ctors[1]].nf
=============================================================================
