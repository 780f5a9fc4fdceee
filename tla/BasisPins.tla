----------------------------- MODULE BasisPins -----------------------------
(***************************************************************************)
(* The constants the checker knows by heart (kernel/basis_raw.rs,          *)
(* kernel/basis_tables.rs, kernel/std_axioms.rs, kernel/trust_axioms.rs):  *)
(* five basis blocks as an export writes them and as they are stored, the  *)
(* block of And, and the families and types of the axioms it may accept;   *)
(* and how a record is compared with them (arena/canon.rs,                 *)
(* arena/basis.rs).                                                        *)
(*                                                                         *)
(* A constant's record has kind, name, lps and ty beside what CoreEnv      *)
(* lists for its kind; "axiom" and "thm" have nothing else.                *)
(***************************************************************************)
EXTENDS Positivity

(* Notation.  Bound variables are counted from the inside.                 *)
V(i) == BVar(i)
Prop == Srt(LZero)
U0   == LParam("u")
U1   == LParam("u_1")
VL   == LParam("v")
PiN(ds, body)  == FoldRight(Pi, ds, body)
LamN(ds, body) == FoldRight(Lam, ds, body)
ApN(n, us, args) == MkAppN(Cnst(n, us), args)
EqAt(u, a, x, y) == ApN("Eq", <<u>>, <<a, x, y>>)

CapsDefault ==
  [eta |-> FALSE, eta_ctor |-> "", eta_params |-> 0, eta_fields |-> 0, unitlike |-> FALSE,
   unit_params |-> 0, rule_k |-> FALSE, sort_z |-> IfAllZero(<<>>), all |-> <<>>, nparams |-> 0,
   ctors |-> <<>>]
IndC(n, lps, ty, caps)      == [kind |-> "ind", name |-> n, lps |-> lps, ty |-> ty, caps |-> caps]
CtorC(n, lps, ty, np, nf)   == [kind |-> "ctor", name |-> n, lps |-> lps, ty |-> ty, np |-> np, nf |-> nf]
RecC(n, lps, ty, mi, rp, rs) == [kind |-> "rec", name |-> n, lps |-> lps, ty |-> ty, mi |-> mi, rp |-> rp, rules |-> rs]
AxiomC(n, lps, ty)          == [kind |-> "axiom", name |-> n, lps |-> lps, ty |-> ty]
ParsedRule(c, nf, rhs) ==
  [ctor |-> c, nfields |-> nf, ctor_params |-> 0, fire |-> <<"plain">>, rhs |-> rhs, k |-> FALSE, eta |-> FALSE]

-----------------------------------------------------------------------------
(* The blocks as an export writes them.                                    *)
EqRaw == IndC("Eq", <<"u">>, PiN(<<Srt(U0), V(0), V(1)>>, Prop),
              [CapsDefault EXCEPT !.rule_k = TRUE, !.all = <<"Eq">>, !.nparams = 2, !.ctors = <<"Eq.refl">>])
EqReflRaw == CtorC("Eq.refl", <<"u">>, PiN(<<Srt(U0), V(0)>>, EqAt(U0, V(1), V(0), V(0))), 2, 0)
EqRecDoms ==
  <<Srt(U0), V(0), PiN(<<V(1), EqAt(U0, V(2), V(1), V(0))>>, Srt(U1)),
    MkAppN(V(0), <<V(1), ApN("Eq.refl", <<U0>>, <<V(2), V(1)>>)>>)>>
EqRecRaw ==
  RecC("Eq.rec", <<"u_1", "u">>,
       PiN(EqRecDoms \o <<V(3), EqAt(U0, V(4), V(3), V(0))>>, MkAppN(V(3), <<V(1), V(0)>>)),
       5, 4, <<ParsedRule("Eq.refl", 0, LamN(EqRecDoms, V(0)))>>)
EqBasis == <<EqRaw, EqReflRaw, EqRecRaw>>

NatT       == Const0("Nat")
NatRaw     == IndC("Nat", <<>>, SortOne,
                   [CapsDefault EXCEPT !.sort_z = ZeronessOf(LSucc(LZero)), !.all = <<"Nat">>,
                                       !.ctors = <<"Nat.zero", "Nat.succ">>])
NatZeroRaw == CtorC("Nat.zero", <<>>, NatT, 0, 0)
NatSuccRaw == CtorC("Nat.succ", <<>>, Pi(NatT, NatT), 0, 1)
NatRecDoms ==
  <<Pi(NatT, Srt(U0)), App(V(0), Const0("Nat.zero")),
    PiN(<<NatT, App(V(2), V(0))>>, App(V(3), Ap1("Nat.succ", V(1))))>>
NatRecRaw ==
  RecC("Nat.rec", <<"u">>, PiN(Append(NatRecDoms, NatT), App(V(3), V(0))), 3, 3,
       <<ParsedRule("Nat.zero", 0, LamN(NatRecDoms, V(1))),
         ParsedRule("Nat.succ", 1,
           LamN(Append(NatRecDoms, NatT),
                MkAppN(V(1), <<V(0), ApN("Nat.rec", <<U0>>, <<V(3), V(2), V(1), V(0)>>)>>)))>>)
NatBasisBlock == <<NatRaw, NatZeroRaw, NatSuccRaw, NatRecRaw>>

(* No constructors, in Type and in Prop.                                   *)
ElimFrom(n) == PiN(<<Pi(Const0(n), Srt(U0)), Const0(n)>>, App(V(1), V(0)))
EmptyRaw    == IndC("Empty", <<>>, SortOne,
                    [CapsDefault EXCEPT !.sort_z = ZeronessOf(LSucc(LZero)), !.all = <<"Empty">>])
EmptyRecRaw == RecC("Empty.rec", <<"u">>, ElimFrom("Empty"), 1, 1, <<>>)
EmptyBasis  == <<EmptyRaw, EmptyRecRaw>>
FalseRaw    == IndC("False", <<>>, Prop, [CapsDefault EXCEPT !.all = <<"False">>])
FalseRecRaw == RecC("False.rec", <<"u">>, ElimFrom("False"), 1, 1, <<>>)
FalseBasis  == <<FalseRaw, FalseRecRaw>>

QuotRel      == PiN(<<V(0), V(1)>>, Prop)
QuotAt(a, r) == ApN("Quot", <<U0>>, <<a, r>>)
MkAt(a, r, x) == ApN("Quot.mk", <<U0>>, <<a, r, x>>)
QuotRaw   == IndC("Quot", <<"u">>, PiN(<<Srt(U0), QuotRel>>, Srt(U0)),
                  [CapsDefault EXCEPT !.sort_z = ZeronessOf(U0)])
QuotMkRaw == CtorC("Quot.mk", <<"u">>, PiN(<<Srt(U0), QuotRel, V(1)>>, QuotAt(V(2), V(1))), 2, 1)
QuotLiftH == PiN(<<V(3), V(4), MkAppN(V(4), <<V(1), V(0)>>)>>,
                 EqAt(VL, V(4), App(V(3), V(2)), App(V(3), V(1))))
QuotLiftDoms == <<Srt(U0), QuotRel, Srt(VL), Pi(V(2), V(1)), QuotLiftH>>
QuotLiftRaw ==
  RecC("Quot.lift", <<"u", "v">>, PiN(Append(QuotLiftDoms, QuotAt(V(4), V(3))), V(3)), 5, 5,
       <<ParsedRule("Quot.mk", 1, LamN(Append(QuotLiftDoms, V(4)), App(V(2), V(0))))>>)
QuotIndDoms ==
  <<Srt(U0), QuotRel, Pi(QuotAt(V(1), V(0)), Prop), Pi(V(2), App(V(1), MkAt(V(3), V(2), V(0))))>>
QuotIndRaw ==
  RecC("Quot.ind", <<"u">>, PiN(Append(QuotIndDoms, QuotAt(V(3), V(2))), App(V(2), V(0))), 4, 4,
       <<ParsedRule("Quot.mk", 1, LamN(Append(QuotIndDoms, V(3)), App(V(1), V(0))))>>)
QuotSoundRaw ==
  AxiomC("Quot.sound", <<"u">>,
         PiN(<<Srt(U0), QuotRel, V(1), V(2), MkAppN(V(2), <<V(1), V(0)>>)>>,
             EqAt(U0, QuotAt(V(4), V(3)), MkAt(V(4), V(3), V(2)), MkAt(V(4), V(3), V(1)))))
QuotBasis == <<QuotRaw, QuotMkRaw, QuotLiftRaw, QuotIndRaw, QuotSoundRaw>>

AndAt(a, b) == Ap2("And", a, b)
AndRaw      == IndC("And", <<>>, PiN(<<Prop, Prop>>, Prop),
                    [CapsDefault EXCEPT !.all = <<"And">>, !.nparams = 2, !.ctors = <<"And.intro">>])
AndIntroRaw == CtorC("And.intro", <<>>, PiN(<<Prop, Prop, V(1), V(1)>>, AndAt(V(3), V(2))), 2, 2)
AndRecDoms  ==
  <<Prop, Prop, Pi(AndAt(V(1), V(0)), Srt(U0)),
    PiN(<<V(2), V(2)>>, App(V(2), ApN("And.intro", <<>>, <<V(4), V(3), V(1), V(0)>>)))>>
AndRecRaw ==
  RecC("And.rec", <<"u">>, PiN(Append(AndRecDoms, AndAt(V(3), V(2))), App(V(2), V(0))), 4, 4,
       <<ParsedRule("And.intro", 2, LamN(AndRecDoms \o <<V(3), V(3)>>, MkAppN(V(2), <<V(1), V(0)>>)))>>)
AndPin == <<AndRaw, AndIntroRaw, AndRecRaw>>

BasisKindDecls(k) ==
  CASE k = "eq" -> EqBasis [] k = "nat" -> NatBasisBlock [] k = "empty" -> EmptyBasis
    [] k = "false" -> FalseBasis [] k = "quot" -> QuotBasis
BlockPinKinds == <<"eq", "nat", "empty", "false">>

(* The blocks as they are stored: the rules know how many parameters their *)
(* constructor takes, and Eq's that a proof of it needs no looking at.     *)
Stores(block, np, k) ==
  [i \in DOMAIN block |->
     IF block[i].kind # "rec" THEN block[i]
     ELSE [block[i] EXCEPT !.rules = [j \in DOMAIN @ |-> [@[j] EXCEPT !.ctor_params = np, !.k = k]]]]
BasisDeclsEq    == Stores(EqBasis, 2, TRUE)
BasisDeclsNat   == Stores(NatBasisBlock, 0, FALSE)
BasisDeclsEmpty == EmptyBasis
BasisDeclsFalse == FalseBasis
BasisDeclsQuot  == Stores(QuotBasis, 2, FALSE)
BasisDeclsA(k) ==
  CASE k = "eq" -> BasisDeclsEq [] k = "nat" -> BasisDeclsNat [] k = "empty" -> BasisDeclsEmpty
    [] k = "false" -> BasisDeclsFalse [] k = "quot" -> BasisDeclsQuot

-----------------------------------------------------------------------------
(* The families and types of the axioms that may be stored.                *)
IffAt(a, b) == Ap2("Iff", a, b)
IffA        == IndC("Iff", <<>>, PiN(<<Prop, Prop>>, Prop), CapsDefault)
IffIntroA   == CtorC("Iff.intro", <<>>,
                     PiN(<<Prop, Prop, Pi(V(1), V(1)), Pi(V(1), V(3))>>, IffAt(V(3), V(2))), 2, 2)
IffRecA ==
  RecC("Iff.rec", <<"u">>,
       PiN(<<Prop, Prop, Pi(IffAt(V(1), V(0)), Srt(U0)),
             PiN(<<Pi(V(2), V(2)), Pi(V(2), V(4))>>, App(V(2), ApN("Iff.intro", <<>>, <<V(4), V(3), V(1), V(0)>>))),
             IffAt(V(3), V(2))>>, App(V(2), V(0))), 4, 4, <<>>)
OneLevel == LSucc(LZero)
PropextA == AxiomC("propext", <<>>, PiN(<<Prop, Prop, IffAt(V(1), V(0))>>, EqAt(OneLevel, Prop, V(2), V(1))))

NonemptyAt(a)  == ApN("Nonempty", <<U0>>, <<a>>)
NonemptyA      == IndC("Nonempty", <<"u">>, Pi(Srt(U0), Prop), CapsDefault)
NonemptyIntroA == CtorC("Nonempty.intro", <<"u">>, PiN(<<Srt(U0), V(0)>>, NonemptyAt(V(1))), 1, 1)
NonemptyRecA ==
  RecC("Nonempty.rec", <<"u">>,
       PiN(<<Srt(U0), Pi(NonemptyAt(V(0)), Prop),
             Pi(V(1), App(V(1), ApN("Nonempty.intro", <<U0>>, <<V(2), V(0)>>))), NonemptyAt(V(2))>>,
           App(V(2), V(0))), 3, 3, <<>>)
ChoiceA == AxiomC("Classical.choice", <<"u">>, PiN(<<Srt(U0), NonemptyAt(V(0))>>, V(1)))

TrueCvA        == IndC("True", <<>>, Prop, CapsDefault)
TrueIntroCvA   == CtorC("True.intro", <<>>, Const0("True"), 0, 0)
TrustCompilerA == AxiomC("Lean.trustCompiler", <<>>, Const0("True"))
BoolCvA        == IndC("Bool", <<>>, SortOne, CapsDefault)

ReduceNames    == {"Lean.reduceNat", "Lean.reduceBool"}
OfReduceNames  == {"Lean.ofReduceNat", "Lean.ofReduceBool"}
OfReduceOp(n)  == IF n = "Lean.ofReduceNat" THEN "Lean.reduceNat" ELSE "Lean.reduceBool"
ReduceElemName(c) == IF c = "Lean.reduceNat" THEN "Nat" ELSE "Bool"
ReduceElemTy(c)   == Const0(ReduceElemName(c))
ReduceOpCvA(c)    == [name |-> c, lps |-> <<>>, ty |-> Pi(ReduceElemTy(c), ReduceElemTy(c))]
OfReducePinA(n) ==
  LET c == OfReduceOp(n)
      eq(x, y) == EqAt(OneLevel, ReduceElemTy(c), x, y)
  IN  AxiomC(n, <<>>, PiN(<<ReduceElemTy(c), ReduceElemTy(c), eq(Ap1(c, V(1)), V(0))>>, eq(V(2), V(1))))
ReduceDeclPin(c) == Lam(ReduceElemTy(c), V(0))
ReduceCertVar(c) == FVar(0, ReduceElemTy(c))

-----------------------------------------------------------------------------
(* Equal up to the names of the level parameters: the i-th of one stands   *)
(* for the i-th of the other (arena/canon.rs).  What a parameter is        *)
(* renamed to is its position; a level outside the list stays itself.      *)
CanonNameMap(ps, n) == IF Listed(ps, n) THEN <<"canon", SelectInSeq(ps, LAMBDA p : p = n)>> ELSE <<"name", n>>
RECURSIVE CanonLevel(_, _)
CanonLevel(ps, u) ==
  CASE LIs("param", u) -> <<"param", CanonNameMap(ps, u[2])>>
    [] LIs("zero", u)  -> u
    [] LIs("succ", u)  -> <<"succ", CanonLevel(ps, u[2])>>
    [] OTHER -> <<u[1], CanonLevel(ps, u[2]), CanonLevel(ps, u[3])>>
CanonLevels(ps, us) == [i \in DOMAIN us |-> CanonLevel(ps, us[i])]
RECURSIVE CanonExpr(_, _)
CanonExpr(ps, e) ==
  CASE Is("fvar", e)  -> FVar(e[2], CanonExpr(ps, e[3]))
    [] Is("sort", e)  -> Srt(CanonLevel(ps, e[2]))
    [] Is("const", e) -> Cnst(e[2], CanonLevels(ps, e[3]))
    [] Kids(e) = <<>> /\ e[1] \notin {"fvar", "sort", "const"} -> e
    [] OTHER -> Rebuild(e, [i \in DOMAIN Kids(e) |-> CanonExpr(ps, Kids(e)[i])])
CanonExprEq(ps, ps2, a, b) == CanonExpr(ps, a) = CanonExpr(ps2, b)

ConstantValCanonEq(c, c2) ==
  /\ c.name = c2.name /\ Len(c.lps) = Len(c2.lps)
  /\ CanonExprEq(c.lps, c2.lps, c.ty, c2.ty)
RecRuleEqButRhs(r, r2) == [r EXCEPT !.rhs = ""] = [r2 EXCEPT !.rhs = ""]
CanonRulesEq(ps, ps2, rs, rs2) ==
  /\ Len(rs) = Len(rs2)
  /\ \A i \in DOMAIN rs : /\ RecRuleEqButRhs(rs[i], rs2[i])
                          /\ CanonExprEq(ps, ps2, rs[i].rhs, rs2[i].rhs)

(* A type's capabilities are the checker's own and are not compared.       *)
ConstantInfoCanonEq(c, c2) ==
  /\ c.kind = c2.kind
  /\ ConstantValCanonEq(c, c2)
  /\ c.kind = "defn" => c.hint = c2.hint /\ CanonExprEq(c.lps, c2.lps, c.val, c2.val)
  /\ c.kind = "ctor" => c.np = c2.np /\ c.nf = c2.nf
  /\ c.kind = "rec"  => c.mi = c2.mi /\ c.rp = c2.rp /\ CanonRulesEq(c.lps, c2.lps, c.rules, c2.rules)
CanonEqList(xs, ys) == Len(xs) = Len(ys) /\ \A i \in DOMAIN xs : ConstantInfoCanonEq(xs[i], ys[i])

(* Equal to the letter.                                                    *)
ConstantInfoBeq(c, c2) == c = c2
MatchesPin(c, pin) == c.name = pin.name /\ c.lps = pin.lps /\ c.ty = pin.ty

-----------------------------------------------------------------------------
(* Which block a record is: the first whose names it has, if it is that    *)
(* block; the quotient's constants come one by one (arena/basis.rs).       *)
BlockNames(block) == [i \in DOMAIN block |-> block[i].name]
BasisPinHit(block) ==
  LET k == SelectInSeq(BlockPinKinds, LAMBDA kind : BlockNames(BasisKindDecls(kind)) = BlockNames(block))
  IN  IF k # 0 /\ CanonEqList(block, BasisKindDecls(BlockPinKinds[k])) THEN <<BlockPinKinds[k]>> ELSE <<>>
QuotPinHit(slot, cv) == slot < Len(QuotBasis) /\ ConstantValCanonEq(cv, QuotBasis[slot + 1])

AndPinNames == {"And", "And.intro", "And.rec"}
AndPinNameFree(n) == n \notin AndPinNames
AndPinBlockOk(block, n_p) ==
  (\E i \in DOMAIN block : block[i].name \in AndPinNames) => n_p = 2 /\ CanonEqList(block, AndPin)

-----------------------------------------------------------------------------
(* The statements a number operation defined by well-founded recursion     *)
(* must be proved to satisfy before the core may compute it on literals    *)
(* (cert_ctx to div_mod_cert_eqs of arena/decl_check.rs).  A statement is  *)
(* an equation c x y = rhs under hypotheses on the free variables x and y; *)
(* the definition itself is never unfolded by the core.                    *)

EqAt1(ty, a, b) == EqAt(OneLevel, ty, a, b)
NatVar(i) == FVar(i, NatT)

(* The words the statements are written in.                                *)
X     == NatVar(0)
Y     == NatVar(1)
Z     == Const0("Nat.zero")
One   == Ap1("Nat.succ", Z)
Two   == Ap1("Nat.succ", One)
BoolT == Const0("Bool")
Bt    == Const0("Bool.true")
Bf    == Const0("Bool.false")
Add(a, b) == Ap2("Nat.add", a, b)
Sub(a, b) == Ap2("Nat.sub", a, b)
Mul(a, b) == Ap2("Nat.mul", a, b)
Div(a, b) == Ap2("Nat.div", a, b)
Mod(a, b) == Ap2("Nat.mod", a, b)

Stmt(hyps, eq)    == [hyps |-> hyps, eq |-> eq]
CertGuard(a, b, r) == EqAt1(BoolT, Ap2("Nat.ble", a, b), r)
CertEq(c, rhs)     == EqAt1(NatT, Ap2(c, X, Y), rhs)
CertHalves(c)      == Ap2(c, Div(X, Two), Div(Y, Two))
CertTwoEqs(c, h1, h2, r1, r2) == <<Stmt(<<h1>>, CertEq(c, r1)), Stmt(<<h2>>, CertEq(c, r2))>>

(* By whether 1 <= x, or 1 <= y: a step, and where it stops.               *)
OnX(c, r1, r2) == CertTwoEqs(c, CertGuard(One, X, Bt), CertGuard(One, X, Bf), r1, r2)
OnY(c, r1, r2) == CertTwoEqs(c, CertGuard(One, Y, Bt), CertGuard(One, Y, Bf), r1, r2)
Bits(c, low)   == Add(Mul(Two, CertHalves(c)), low)
LowX           == Mod(X, Two)
LowY           == Mod(Y, Two)

CertGcd(c)        == OnX(c, Ap2(c, Mod(Y, X), X), Y)
CertShiftLeft(c)  == OnY(c, Ap2(c, Mul(Two, X), Sub(Y, One)), X)
CertShiftRight(c) == OnY(c, Div(Ap2(c, X, Sub(Y, One)), Two), X)
CertLand(c)       == OnX(c, Bits(c, Mul(LowX, LowY)), Z)
CertLor(c)        == OnX(c, Bits(c, Sub(Add(LowX, LowY), Mul(LowX, LowY))), Y)
CertXor(c)        == OnX(c, Bits(c, Mod(Add(LowX, LowY), Two)), Y)
CertRecRhs(c) ==
  LET step == Ap2(c, Sub(X, Y), Y) IN IF c = "Nat.div" THEN Ap1("Nat.succ", step) ELSE step
CertDivModUnguarded(c) ==                          \* mutant: the step does not ask for 1 <= y
  LET base == IF c = "Nat.div" THEN Z ELSE X
  IN  <<Stmt(<<CertGuard(Y, X, Bt)>>, CertEq(c, CertRecRhs(c))), Stmt(<<CertGuard(Y, X, Bf)>>, CertEq(c, base)),
        Stmt(<<CertGuard(One, Y, Bf)>>, CertEq(c, base))>>
CertDivMod(c) ==
  LET base == IF c = "Nat.div" THEN Z ELSE X
  IN  <<Stmt(<<CertGuard(Y, X, Bt), CertGuard(One, Y, Bt)>>, CertEq(c, CertRecRhs(c))),
        Stmt(<<CertGuard(Y, X, Bf)>>, CertEq(c, base)),
        Stmt(<<CertGuard(One, Y, Bf)>>, CertEq(c, base))>>

DivModCertStmts(c) ==
  CASE c = "Nat.gcd"        -> CertGcd(c)
    [] c = "Nat.shiftLeft"  -> CertShiftLeft(c)
    [] c = "Nat.shiftRight" -> CertShiftRight(c)
    [] c = "Nat.land"       -> CertLand(c)
    [] c = "Nat.lor"        -> CertLor(c)
    [] c = "Nat.xor"        -> CertXor(c)
    [] OTHER                -> CertDivMod(c)

(* A proof, applied to the variables and to its hypotheses as variables.   *)
CertApplied(proof, hyps) ==
  MkAppN(proof, <<X, Y>> \o [i \in DOMAIN hyps |-> FVar(i + 1, hyps[i])])
=============================================================================
