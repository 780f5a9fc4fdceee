----------------------------- MODULE MCDeclCheck -----------------------------
(***************************************************************************)
(* Exports that declare number operations, right ones and wrong ones, with *)
(* the pins they are compared with; and exports that state axioms over     *)
(* families that are the standard ones or almost.                          *)
(***************************************************************************)
EXTENDS DeclCheck

OneParam == {"u"}
ByName(cs) == [n \in {cs[i].name : i \in DOMAIN cs} |-> cs[CHOOSE i \in DOMAIN cs : cs[i].name = n]]
Env(cs)    == [infos |-> ByName(cs), projs |-> <<>>]

(* Booleans, as their block is stored.                                     *)
BoolRecDoms == <<Pi(BoolT, Srt(U0)), App(V(0), Bf), App(V(1), Bt)>>
BoolRule(c, i) == [ParsedRule(c, 0, LamN(BoolRecDoms, V(i))) EXCEPT !.ctor_params = 0]
BoolBlock ==
  <<IndC("Bool", <<>>, SortOne, [CapsDefault EXCEPT !.sort_z = Never, !.all = <<"Bool">>,
                                   !.ctors = <<"Bool.false", "Bool.true">>]),
    CtorC("Bool.false", <<>>, BoolT, 0, 0), CtorC("Bool.true", <<>>, BoolT, 0, 0),
    RecC("Bool.rec", <<"u">>, PiN(Append(BoolRecDoms, BoolT), App(V(3), V(0))), 3, 3,
         <<BoolRule("Bool.false", 1), BoolRule("Bool.true", 0)>>)>>
Start == BasisDeclsNat \o BasisDeclsEq \o BoolBlock

-----------------------------------------------------------------------------
(* The operations.                                                         *)
NN(cod)         == PiN(<<NatT, NatT>>, cod)
NRec(m, z, s, n) == ApN("Nat.rec", <<OneLevel>>, <<Lam(NatT, m), z, LamN(<<NatT, m>>, s), n>>)
If(t, f, b)     == ApN("Bool.rec", <<OneLevel>>, <<Lam(BoolT, NatT), f, t, b>>)
OnSecond(z, s)  == LamN(<<NatT, NatT>>, NRec(NatT, z, s, V(0)))
ToZero(s)       == NRec(BoolT, Bf, s, V(0))
ValueOf ==
  ("Nat.pred" :> Lam(NatT, NRec(NatT, Z, V(1), V(0)))) @@
  ("Nat.add"  :> OnSecond(V(1), Ap1("Nat.succ", V(0)))) @@
  ("Nat.sub"  :> OnSecond(V(1), Ap1("Nat.pred", V(0)))) @@
  ("Nat.mul"  :> OnSecond(Z, Add(V(0), V(3)))) @@
  ("Nat.pow"  :> OnSecond(One, Mul(V(0), V(3)))) @@
  ("Nat.ble"  :> Lam(NatT, NRec(Pi(NatT, BoolT), Lam(NatT, Bt), Lam(NatT, ToZero(App(V(3), V(1)))), V(0)))) @@
  ("Nat.beq"  :> Lam(NatT, NRec(Pi(NatT, BoolT), Lam(NatT, NRec(BoolT, Bt, Bf, V(0))),
                                 Lam(NatT, ToZero(App(V(3), V(1)))), V(0)))) @@
  ("Nat.shiftLeft"  :> OnSecond(V(1), Mul(Lit(2), V(0)))) @@
  ("Nat.shiftRight" :> OnSecond(V(1), Div(V(0), Lit(2))))
(* By a descent from x: at each turn r or (a, b) is what is left.          *)
Descent1(z, s) == LamN(<<NatT, NatT>>, App(NRec(Pi(NatT, NatT), Lam(NatT, z), Lam(NatT, s), Ap1("Nat.succ", V(1))), V(1)))
Descent2(z, s) ==
  LamN(<<NatT, NatT>>, MkAppN(NRec(NN(NatT), LamN(<<NatT, NatT>>, z), LamN(<<NatT, NatT>>, s), Ap1("Nat.succ", V(1))),
                              <<V(1), V(0)>>))
Ble(a, b)     == Ap2("Nat.ble", a, b)
DivStep(t, f) == If(If(t, f, Ble(One, V(3))), f, Ble(V(3), V(0)))
Again1        == App(V(1), Sub(V(0), V(3)))
Half(a)       == Div(a, Lit(2))
BitsStep(low, f) == If(Add(Mul(Lit(2), MkAppN(V(2), <<Half(V(1)), Half(V(0))>>)), low), f, Ble(One, V(1)))
BitA          == Mod(V(1), Lit(2))
BitB          == Mod(V(0), Lit(2))
WfValueOf ==
  ("Nat.div"  :> Descent1(Z, DivStep(Ap1("Nat.succ", Again1), Z))) @@
  ("Nat.mod"  :> Descent1(V(0), DivStep(Again1, V(0)))) @@
  ("Nat.gcd"  :> Descent2(V(0), If(MkAppN(V(2), <<Mod(V(0), V(1)), V(1)>>), V(0), Ble(One, V(1))))) @@
  ("Nat.land" :> Descent2(Z, BitsStep(Mul(BitA, BitB), Z))) @@
  ("Nat.lor"  :> Descent2(V(0), BitsStep(Sub(Add(BitA, BitB), Mul(BitA, BitB)), V(0)))) @@
  ("Nat.xor"  :> Descent2(V(0), BitsStep(Add(Sub(BitA, BitB), Sub(BitB, BitA)), V(0)))) @@ ValueOf

TyOf(c) == IF c = "Nat.pred" THEN Pi(NatT, NatT) ELSE IF c \in {"Nat.ble", "Nat.beq"} THEN NN(BoolT) ELSE NN(NatT)
Cv(n, ty)      == [name |-> n, lps |-> <<>>, ty |-> ty]
DefnD(n, ty, v) == [kind |-> "defn", cv |-> Cv(n, ty), value |-> v, hint |-> <<"abbrev">>]
OpD(c, v)      == DefnD(c, TyOf(c), v)
Right(c)       == OpD(c, WfValueOf[c])
StoredOp(c)    == Constant("defn", Cv(c, TyOf(c))) @@ [val |-> WfValueOf[c], hint |-> <<"abbrev">>]
WithOps(cs)    == Start \o [i \in DOMAIN cs |-> StoredOp(cs[i])]
Structural     == <<"Nat.pred", "Nat.add", "Nat.sub", "Nat.mul", "Nat.ble">>

(* The theorems a value's statements are proved by: one for each, about    *)
(* the value itself.                                                       *)
CertName(c, i)  == c \o (IF i = 1 THEN ".proof1" ELSE IF i = 2 THEN ".proof2" ELSE ".proof3")
CertTy(c, v, i) ==
  LET s == DivModCertStmts(c)[i]
  IN  SubstConstAll(c, v, CloseTelescope(<<NatT, NatT>> \o s.hyps, 0, s.eq))
CertThm(c, v, i)  == Constant("thm", Cv(CertName(c, i), CertTy(c, v, i)))
CertThms(c, v)    == [i \in DOMAIN DivModCertStmts(c) |-> CertThm(c, v, i)]
Proofs(c)         == [i \in DOMAIN DivModCertStmts(c) |-> Const0(CertName(c, i))]
PinOf(c, v, ps, tps) == (c :> [pin |-> v, proofs |-> ps, type_pins |-> tps])
RightPin(c) == PinOf(c, WfValueOf[c], Proofs(c), <<<<CertName(c, 1), CertTy(c, WfValueOf[c], 1)>>>>)
Export(cs, pins, decls) == [env |-> Env(cs), pins |-> pins, decls |-> decls]
Certified(cs, c) == Export(WithOps(cs) \o CertThms(c, WfValueOf[c]), <<RightPin(c)>>, <<Right(c)>>)

(* The left shift: as it should be, spelled otherwise, and one that        *)
(* forgets its operand, of whose statements the first holds.  A pin is     *)
(* <<which value, proofs, [constant, the statement it is proved to be]>>.  *)
Shl      == "Nat.shiftLeft"
Nothing  == LamN(<<NatT, NatT>>, Z)
Spelled(v) == LamN(<<NatT, NatT>>, App(Lam(NatT, MkAppN(v, <<V(0), V(1)>>)), V(1)))
ShlValues == [right |-> WfValueOf[Shl], nothing |-> Nothing, spelled |-> Spelled(WfValueOf[Shl])]
ShlThms(w, vs) ==
  IF w = "nothing" THEN <<CertThm(Shl, vs[w], 1)>> ELSE [i \in 1 .. 2 |-> CertThm(Shl, vs.right, i)]
TypePin(w, tp, vs) == <<tp[1], IF tp[2] = 0 THEN NatT ELSE CertTy(Shl, vs[w], tp[2])>>
ShlPin(p, vs)      == PinOf(Shl, vs[p[1]], p[2], [i \in DOMAIN p[3] |-> TypePin(p[1], p[3][i], vs)])
ShlExport(w, ps, vs) ==
  Export(WithOps(Structural) \o ShlThms(w, vs), [i \in DOMAIN ps |-> ShlPin(ps[i], vs)], <<OpD(Shl, vs[w])>>)
P1 == Const0(CertName(Shl, 1))
P2 == Const0(CertName(Shl, 2))
Known == <<"right", <<P1, P2>>, <<<<CertName(Shl, 1), 1>>>>>>

ShlCases ==
  {<<"nothing", <<<<"nothing", ps, <<>>>>>>>> : ps \in {<<P1>>, <<P1, P1>>, <<P1, P2>>}}
  \cup {<<w, <<Known>>>> : w \in {"right", "spelled"}}
  \cup {<<"right", pins>> : pins \in
    {<<>>, <<<<"nothing", <<P1, P2>>, <<>>>>, Known>>, <<<<"right", <<P1, P2, Z>>, <<>>>>, Known>>,
     <<<<"right", <<Z, Z>>, <<>>>>, Known>>, <<<<"right", <<P1, P2>>, <<<<CertName(Shl, 1), 2>>>>>>>>,
     <<<<"right", <<P1, P2>>, <<<<"f", 0>>>>>>>>}}

(* Of one operation: another's definition, or something near its own.      *)
Miscast ==
  {<<"Nat.sub", "Nat.add">>, <<"Nat.ble", "Nat.beq">>, <<"Nat.beq", "Nat.ble">>, <<"Nat.add", "Nat.add">>,
   <<"Nat.beq", "Nat.add">>, <<"Nat.pow", "Nat.pow">>}
Near ==
  {<<"Nat.sub", OnSecond(Z, Ap1("Nat.pred", V(0)))>>,
   <<"Nat.sub", LamN(<<NatT, NatT>>, NRec(NatT, V(0), Ap1("Nat.pred", V(0)), V(1)))>>,
   <<"Nat.mul", OnSecond(V(1), Add(V(0), V(3)))>>, <<"Nat.mul", OnSecond(Z, Add(V(3), V(0)))>>,
   <<"Nat.mul", OnSecond(Z, Add(V(0), V(2)))>>, <<"Nat.ble", LamN(<<NatT, NatT>>, Bt)>>}
FromZero ==
  {<<"Nat.pred", Lam(NatT, V(0))>>, <<"Nat.add", OnSecond(Ap1("Nat.succ", V(1)), Ap1("Nat.succ", V(0)))>>,
   <<"Nat.add", OnSecond(V(1), V(0))>>}
MulD == Right("Nat.mul")

OpExports ==
  {Export(Start, <<>>, [i \in 1 .. 7 |-> Right((Structural \o <<"Nat.beq", "Nat.pow">>)[i])])}
  \cup {Export(WithOps(<<"Nat.pred", "Nat.add">>), <<>>, <<d>>) : d \in
    {OpD(x[1], WfValueOf[x[2]]) : x \in Miscast} \cup {OpD(x[1], x[2]) : x \in Near}
    \cup {DefnD("Nat.mul", Pi(NatT, NatT), Lam(NatT, V(0))), [MulD EXCEPT !.kind = "opaque"], [MulD EXCEPT !.cv.lps = <<"u">>]}}
  \cup {Export(Start, <<>>, <<d>>) : d \in
    {OpD(x[1], x[2]) : x \in FromZero} \cup {Right("Nat.sub"), DefnD("f", Pi(NatT, NatT), Lam(NatT, V(0)))}}
  \cup {Certified(x[1], x[2]) : x \in
    {<<Structural, "Nat.div">>, <<Structural, "Nat.mod">>, <<Structural \o <<"Nat.mod">>, "Nat.gcd">>,
     <<Structural \o <<"Nat.div">>, "Nat.shiftRight">>, <<<<"Nat.pred", "Nat.sub">>, "Nat.div">>}
    \cup {<<Structural \o <<"Nat.div", "Nat.mod">>, c>> : c \in {"Nat.land", "Nat.lor", "Nat.xor"}}}
  \cup {ShlExport(x[1], x[2], ShlValues) : x \in ShlCases}

-----------------------------------------------------------------------------
(* The axioms.                                                             *)
IndD(n_p, block)  == [kind |-> "ind", n_p |-> n_p, block |-> block, parts |-> block]
AxP(pin)          == [kind |-> "axiom", cv |-> [name |-> pin.name, lps |-> pin.lps, ty |-> pin.ty]]
OpaqueD(c, v)     == [kind |-> "opaque", cv |-> [name |-> c, lps |-> <<>>, ty |-> ReduceOpCvA(c).ty], value |-> v]
BasisD(k)         == [kind |-> "basis", which |-> k]
QuotRec(i)        == [kind |-> "quot", slot |-> i - 1,
                      cv |-> [name |-> QuotBasis[i].name, lps |-> QuotBasis[i].lps, ty |-> QuotBasis[i].ty]]
ThmD(n, ty, v)    == [kind |-> "thm", cv |-> Cv(n, ty), value |-> v]

(* Families as their blocks are stored: the standard ones, and ones with a *)
(* field less or with a constructor that asks for nothing.                 *)
Family(pin, np, cs)  == [pin EXCEPT !.caps = [@ EXCEPT !.all = <<pin.name>>, !.nparams = np, !.ctors = cs]]
WithRules(pin, np, rules) ==
  [pin EXCEPT !.rules = [i \in DOMAIN rules |-> [rules[i] EXCEPT !.ctor_params = np]]]
IffMotive   == Pi(IffAt(V(1), V(0)), Srt(U0))
IffDoms     == PiBinders(IffRecA.ty, <<>>).doms
IffRec      == WithRules(IffRecA, 2, <<ParsedRule("Iff.intro", 2,
                 LamN(TakeN(IffDoms, 4) \o <<Pi(V(3), V(3)), Pi(V(3), V(5))>>, MkAppN(V(2), <<V(1), V(0)>>)))>>)
IffBlock    == <<Family(IffA, 2, <<"Iff.intro">>), IffIntroA, IffRec>>
IffMp       == [IffIntroA EXCEPT !.nf = 1, !.ty = PiN(<<Prop, Prop, Pi(V(1), V(1))>>, IffAt(V(2), V(1)))]
IffMpDoms   == <<Prop, Prop, IffMotive, Pi(Pi(V(2), V(2)), App(V(1), ApN("Iff.intro", <<>>, <<V(3), V(2), V(0)>>)))>>
IffHalf     ==
  <<Family(IffA, 2, <<"Iff.intro">>), IffMp,
    RecC("Iff.rec", <<"u">>, PiN(Append(IffMpDoms, IffAt(V(3), V(2))), App(V(2), V(0))), 4, 4,
         <<[ParsedRule("Iff.intro", 1, LamN(Append(IffMpDoms, Pi(V(3), V(3))), App(V(1), V(0)))) EXCEPT !.ctor_params = 2]>>)>>
IffAny      == CtorC("Iff.any", <<>>, PiN(<<Prop, Prop>>, IffAt(V(1), V(0))), 2, 0)
IffAnyDoms  == Append(TakeN(IffDoms, 4), App(V(1), Ap2("Iff.any", V(3), V(2))))
IffLoose    ==
  <<Family(IffA, 2, <<"Iff.intro", "Iff.any">>), IffIntroA, IffAny,
    WithRules(RecC("Iff.rec", <<"u">>, PiN(Append(IffAnyDoms, IffAt(V(4), V(3))), App(V(3), V(0))), 5, 5, <<>>), 2,
      <<ParsedRule("Iff.intro", 2, LamN(IffAnyDoms \o <<Pi(V(4), V(4)), Pi(V(4), V(6))>>, MkAppN(V(3), <<V(1), V(0)>>))),
        ParsedRule("Iff.any", 0, LamN(IffAnyDoms, V(0)))>>)>>
NeDoms      == PiBinders(NonemptyRecA.ty, <<>>).doms
NeBlock     ==
  <<Family(NonemptyA, 1, <<"Nonempty.intro">>), NonemptyIntroA,
    WithRules(NonemptyRecA, 1, <<ParsedRule("Nonempty.intro", 1, LamN(Append(TakeN(NeDoms, 3), V(2)), App(V(1), V(0))))>>)>>
NeAny       == CtorC("Nonempty.any", <<"u">>, Pi(Srt(U0), NonemptyAt(V(0))), 1, 0)
NeAnyDoms   == Append(TakeN(NeDoms, 3), App(V(1), ApN("Nonempty.any", <<U0>>, <<V(2)>>)))
NeLoose     ==
  <<Family(NonemptyA, 1, <<"Nonempty.intro", "Nonempty.any">>), NonemptyIntroA, NeAny,
    WithRules(RecC("Nonempty.rec", <<"u">>, PiN(Append(NeAnyDoms, NonemptyAt(V(3))), App(V(3), V(0))), 4, 4, <<>>), 1,
      <<ParsedRule("Nonempty.intro", 1, LamN(Append(NeAnyDoms, V(3)), App(V(2), V(0)))),
        ParsedRule("Nonempty.any", 0, LamN(NeAnyDoms, V(0)))>>)>>
TrueBlock(cs) == <<Family(TrueCvA, 0, BlockNames(cs))>> \o cs
Renamed(block) == [i \in DOMAIN block |-> [block[i] EXCEPT !.lps = <<"w">>, !.ty = InstLp(<<"u">>, <<LParam("w")>>, @)]]
EqW == [i \in DOMAIN EqBasis |->
          IF EqBasis[i].kind = "rec"
          THEN [EqBasis[i] EXCEPT !.lps = <<"w", "u">>, !.ty = InstLp(<<"u_1">>, <<LParam("w")>>, @),
                  !.rules = [j \in DOMAIN @ |-> [@[j] EXCEPT !.rhs = InstLp(<<"u_1">>, <<LParam("w")>>, @)]]]
          ELSE Renamed(EqBasis)[i]]

Id(t)      == Lam(t, V(0))
NotId      == Lam(BoolT, Bt)
RedN       == OpaqueD("Lean.reduceNat", Id(NatT))
RedB       == OpaqueD("Lean.reduceBool", Id(BoolT))
OfN        == AxP(OfReducePinA("Lean.ofReduceNat"))
OfB        == AxP(OfReducePinA("Lean.ofReduceBool"))
From(decls) == Export(Start, <<>>, decls)
Iffs(block) == From(<<IndD(2, block), AxP(PropextA)>>)
Nes(block)  == From(<<IndD(1, block), AxP(ChoiceA)>>)

AxiomExports ==
  {Iffs(IffBlock), Iffs(IffHalf), Iffs(IffLoose), From(<<AxP(PropextA)>>),
   From(<<IndD(2, IffBlock), AxP([PropextA EXCEPT !.ty = PiN(<<Prop, Prop>>, EqAt(OneLevel, Prop, V(1), V(0)))])>>),
   Nes(NeBlock), Nes(NeLoose),
   From(<<IndD(0, TrueBlock(<<TrueIntroCvA>>)), AxP(TrustCompilerA)>>), From(<<IndD(0, TrueBlock(<<>>)), AxP(TrustCompilerA)>>),
   From(<<RedN, OfN>>), From(<<RedB, OfB, AxP([TrustCompilerA EXCEPT !.name = "sorryAx", !.ty = NatT])>>), From(<<OfN>>),
   From(<<OpaqueD("Lean.reduceBool", NotId), OfB>>), From(<<AxP(ReduceOpCvA("Lean.reduceBool")), OfB>>),
   From(<<OpaqueD("Lean.reduceNat", Lam(NatT, ApN("Nat.rec", <<OneLevel>>, <<Lam(NatT, NatT), Z, LamN(<<NatT, NatT>>, Ap1("Nat.succ", V(1))), V(0)>>))), OfN>>),
   From(<<OpaqueD("Lean.reduceNat", Lam(NatT, App(Id(NatT), V(0)))), OfN>>),
   Export(<<>>, <<>>, <<IndD(2, Renamed(<<EqRaw, EqReflRaw>>)), BasisD("quot"), BasisD("eq"), BasisD("nat")>>),
   Export(<<>>, <<>>, <<IndD(2, EqW), QuotRec(1), QuotRec(2), QuotRec(3), QuotRec(4), AxP(QuotSoundRaw), BasisD("false"), BasisD("eq")>>),
   Export(<<>>, <<>>, <<QuotRec(1)>>), From(<<[QuotRec(2) EXCEPT !.slot = 2]>>),
   From(<<AxP([QuotSoundRaw EXCEPT !.ty = Prop])>>), From(<<IndD(0, EmptyBasis), IndD(0, EmptyBasis)>>),
   From(<<IndD(2, AndPin), ThmD("t", EqAt(OneLevel, NatT, Z, Z), ApN("Eq.refl", <<OneLevel>>, <<NatT, Z>>)),
          ThmD("n", NatT, Z)>>),
   From(<<IndD(1, AndPin)>>), From(<<ThmD("And.intro", EqAt(OneLevel, NatT, Z, Z), ApN("Eq.refl", <<OneLevel>>, <<NatT, Z>>))>>),
   From(<<ThmD("t", EqAt(OneLevel, NatT, Z, One), ApN("Eq.refl", <<OneLevel>>, <<NatT, Z>>))>>)}

Exported == OpExports \cup AxiomExports

-----------------------------------------------------------------------------
(* What is asked of the declarations that are accepted.                    *)
Operands(c, a, b) == IF c = "Nat.pred" THEN <<Lit(a)>> ELSE <<Lit(a), Lit(b)>>
Defined(c, a, b)  == NF(env, 0, MkAppN(InfoOf(env, c).val, Operands(c, a, b)))

(* An operation the core computes on literals has the value its stored     *)
(* definition computes: what NatOpResult says is what unfolding would have *)
(* given, whichever gate the definition went through (nat_op_result of     *)
(* core.rs against check_structural_nat_pin and check_div_mod_pin of       *)
(* decl_check.rs).                                                         *)
FastPathSound ==
  asked # <<>> => NF(env, 0, NatOpResult(asked[1], asked[2], asked[3])[1]) = Defined(asked[1], asked[2], asked[3])

(* Arithmetic: what a statement says at two numbers.                       *)
RECURSIVE Ev(_, _, _)
Ev(t, a, b) ==
  CASE Is("fvar", t) -> Lit(IF t[2] = 0 THEN a ELSE b)
    [] t = Z         -> Lit(0)
    [] Is("const", t) /\ t # Z -> t
    [] Is("app", t) /\ Is("const", t[2]) -> Lit(Ev(t[3], a, b)[2] + 1)
    [] Is("app", t) /\ Is("app", t[2]) ->
         NatOpResult(t[2][2][2], Ev(t[2][3], a, b)[2], Ev(t[3], a, b)[2])[1]
SidesAgree(eq, a, b)  == LET s == GetAppArgs(eq) IN Ev(s[2], a, b) = Ev(s[3], a, b)
Applies(stmt, a, b)   == \A i \in DOMAIN stmt.hyps : SidesAgree(stmt.hyps[i], a, b)
RECURSIVE CallsOf(_, _)
CallsOf(c, t) ==
  (IF HeadConst(t) /\ HeadName(t) = c /\ Len(GetAppArgs(t)) = 2 THEN {GetAppArgs(t)} ELSE {})
  \cup UNION {CallsOf(c, Kids(t)[i]) : i \in DOMAIN Kids(t)}
Measured(c, x, y) == IF c \in {"Nat.shiftLeft", "Nat.shiftRight"} THEN y ELSE x
Decreases(c, stmt, a, b) ==
  \A args \in CallsOf(c, GetAppArgs(stmt.eq)[3]) :
    Measured(c, Ev(args[1], a, b)[2], Ev(args[2], a, b)[2]) < Measured(c, a, b)

(* The statements proved of a certified operation hold of the operation    *)
(* the core computes, one of them applies at any two numbers, and it calls *)
(* the operation at something smaller only: no other function satisfies    *)
(* them (div_mod_cert_stmts of decl_check.rs).                             *)
CertsDetermine ==
  asked # <<>> /\ asked[1] \in NatOpWfNames =>
    LET c == asked[1]  a == asked[2]  b == asked[3]
        applying == {DivModCertStmts(c)[i] : i \in {j \in DOMAIN DivModCertStmts(c) : Applies(DivModCertStmts(c)[j], a, b)}}
    IN  /\ applying # {}
        /\ \A stmt \in applying : SidesAgree(stmt.eq, a, b) /\ Decreases(c, stmt, a, b)

(* A reading of types as inhabited or not; vals are the bound variables',  *)
(* outermost first.  An inductive type is inhabited if the fields of one   *)
(* of its constructors are.                                                *)
RECURSIVE Holds(_, _), FieldsHold(_, _)
Holds(t, vals) ==
  LET all(args) == [i \in DOMAIN args |-> Holds(args[i], vals)]
  IN  CASE Is("sort", t) -> TRUE
        [] Is("bvar", t) -> vals[Len(vals) - t[2]]
        [] Is("pi", t) /\ Is("sort", t[2])  -> \A b \in BOOLEAN : Holds(t[3], Append(vals, b))
        [] Is("pi", t) /\ ~Is("sort", t[2]) -> Holds(t[2], vals) => Holds(t[3], Append(vals, TRUE))
        [] HeadConst(t) /\ HeadName(t) = "Eq" -> LET v == all(Tail(GetAppArgs(t))) IN v[1] = v[2]
        [] HeadConst(t) /\ HeadName(t) # "Eq" ->
             \E n \in DOMAIN env.infos :
               /\ IsKind(env, n, "ctor") /\ ResultHead(env, env.infos[n])[2] = HeadName(t)
               /\ FieldsHold(PeelPis(env.infos[n].np, env.infos[n].ty)[1], all(GetAppArgs(t)))
FieldsHold(ty, vals) == Is("pi", ty) => Holds(ty[2], vals) /\ FieldsHold(ty[3], Append(vals, TRUE))

Accepted(name) == {i \in 1 .. at : src.decls[i].kind = "opaque" /\ src.decls[i].cv.name = name}
Samples(c)     == IF c = "Lean.reduceNat" THEN {Lit(n) : n \in 0 .. AskedUpTo} ELSE {Bf, Bt}
IsIdentity(c, value) == \A x \in Samples(c) : NF(env, 0, App(value, x)) = NF(env, 0, x)

(* An axiom that is stored is true: propext, choice and trustCompiler of   *)
(* the families as they are stored beside them, and ofReduceNat and        *)
(* ofReduceBool because the opaque operation they speak of is the identity *)
(* (std_axiom_ok, trust_compiler_ok, of_reduce_ax_ok, check_reduce_pin of  *)
(* decl_check.rs).                                                         *)
AxiomsTrue ==
  /\ \A n \in {"propext", "Classical.choice", "Lean.trustCompiler"} \cap DOMAIN env.infos : Holds(env.infos[n].ty, <<>>)
  /\ \A n \in OfReduceNames \cap DOMAIN env.infos :
       /\ Accepted(OfReduceOp(n)) # {}
       /\ \A i \in Accepted(OfReduceOp(n)) : IsIdentity(OfReduceOp(n), src.decls[i].value)
=============================================================================
