----------------------------- MODULE DeclCheck -----------------------------
(***************************************************************************)
(* One declaration, checked and stored (check_decl of arena/check_decl.rs, *)
(* the gates of arena/decl_check.rs, the basis install and the And pin of  *)
(* arena/checker.rs), for an export fed record by record.  The core may    *)
(* later use what is stored without looking at it again: it computes the   *)
(* number operations on literals, and an axiom has no proof.  The gates    *)
(* here are what makes that right.                                         *)
(*                                                                         *)
(* A record is                                                             *)
(*   [kind |-> "defn", cv, value, hint]    "thm", "opaque": no hint        *)
(*   [kind |-> "axiom", cv]                [kind |-> "quot", slot, cv]     *)
(*   [kind |-> "basis", which]                                             *)
(*   [kind |-> "ind", n_p, block, parts]   parts: what module Blocks       *)
(*       stores for the block, <<>> if it rejects it or knows no such      *)
(*       shape                                                             *)
(* Its outcome is a new environment or how it failed: "rejected" for a     *)
(* bad declaration, "declined" for one the checker does not support,       *)
(* "internal" for what it takes to be impossible.                          *)
(***************************************************************************)
EXTENDS BasisPins

CONSTANTS Exports,     \* pairs [env, pins, decls]: where the export starts, the
                       \* certified definitions known, the records
          AskedUpTo,   \* bound: operands of the operations asked for afterwards
          AnsweredUpTo \* bound: what they come to

VARIABLES env,         \* what is stored
          src,         \* the export being read
          at,          \* how many of its records have been accepted
          outcome,     \* of the last record
          asked        \* the operation the core is asked for on two literals, or none

vars == <<env, src, at, outcome, asked>>

Good(e)       == [env |-> <<e>>, err |-> "ok"]
Fails(why)    == [env |-> <<>>, err |-> why]
Gate(cond, why, r) == IF cond THEN r ELSE Fails(why)
PushCi(e, ci) == [e EXCEPT !.infos = (ci.name :> ci) @@ @]
KindIs(e, n, kind) == IsKind(e, n, kind)

-----------------------------------------------------------------------------
(* What the families an axiom speaks of must look like.                    *)
InfoOf(e, n) == e.infos[n]
EqBasisPinned(e) == Stored(e, "Eq") /\ ConstantInfoBeq(InfoOf(e, "Eq"), BasisDeclsEq[1])
IndPinned(e, pin)  == KindIs(e, pin.name, "ind") /\ MatchesPin(InfoOf(e, pin.name), pin)
CtorPinned(e, pin) ==
  /\ KindIs(e, pin.name, "ctor") /\ MatchesPin(InfoOf(e, pin.name), pin)
  /\ InfoOf(e, pin.name).np = pin.np /\ InfoOf(e, pin.name).nf = pin.nf
RecPinned(e, pin) ==
  /\ KindIs(e, pin.name, "rec") /\ MatchesPin(InfoOf(e, pin.name), pin)
  /\ InfoOf(e, pin.name).mi = pin.mi /\ InfoOf(e, pin.name).rp = pin.rp
IffPinned(e)           == IndPinned(e, IffA)
IffIntroPinned(e)      == CtorPinned(e, IffIntroA)
IffRecUnpinned(e)      == TRUE                     \* mutant: any recursor, so any constructors beside
IffRecPinned(e)        == RecPinned(e, IffRecA)
NonemptyPinned(e)      == IndPinned(e, NonemptyA)
NonemptyIntroPinned(e) == CtorPinned(e, NonemptyIntroA)
NonemptyRecPinned(e)   == RecPinned(e, NonemptyRecA)
TruePinned(e)          == IndPinned(e, TrueCvA)
TrueIntroPinned(e)     == CtorPinned(e, TrueIntroCvA)

StdAxiomOkPropext(e, cv) ==
  EqBasisPinned(e) /\ IffPinned(e) /\ IffIntroPinned(e) /\ IffRecPinned(e) /\ MatchesPin(cv, PropextA)
StdAxiomOkChoice(e, cv) ==
  NonemptyPinned(e) /\ NonemptyIntroPinned(e) /\ NonemptyRecPinned(e) /\ MatchesPin(cv, ChoiceA)
StdAxiomOk(e, cv) ==
  \/ cv.name = "propext" /\ StdAxiomOkPropext(e, cv)
  \/ cv.name = "Classical.choice" /\ StdAxiomOkChoice(e, cv)
TrustCompilerOk(e, cv) == TruePinned(e) /\ TrueIntroPinned(e) /\ MatchesPin(cv, TrustCompilerA)

(* The compiled identities: reduceNat and reduceBool.                      *)
ReduceStoredOk(e, c) == KindIs(e, c, "axiom") /\ MatchesPin(InfoOf(e, c), ReduceOpCvA(c))
ReduceElemOk(e, c) ==
  IF c = "Lean.reduceNat" THEN Stored(e, "Nat") /\ ConstantInfoBeq(InfoOf(e, "Nat"), BasisDeclsNat[1])
  ELSE IndPinned(e, BoolCvA)
OfReduceAxOk(e, cv) ==
  LET c == OfReduceOp(cv.name)
  IN  EqBasisPinned(e) /\ ReduceElemOk(e, c) /\ ReduceStoredOk(e, c) /\ MatchesPin(cv, OfReducePinA(cv.name))

-----------------------------------------------------------------------------
(* The gate of a number operation.  It reads two environments: the one     *)
(* with the operation, for what is stored, and the one before it, in which *)
(* everything is proved, with the operation's value in place of its name.  *)
GroundGuards(e, p) ==
  LooseBounded(0, p) /\ ~HasFVar(p) /\ AllLevelParamsDefined(<<>>, p) /\ ConstsResolve(e, p)
NatOpStoredOkAll(e, ns) == \A n \in ns : NatOpStoredOk(e, n)

(* Structural: the defining equations hold by computation.                 *)
CertifyNatEqs(e, eqs, c, value) ==
  \A i \in DOMAIN eqs :
    DefEq(e, 2, SubstConst0(c, value, eqs[i][1]), SubstConst0(c, value, eqs[i][2]))
CheckStructuralNatPin(pre, e2, c) ==
  Gate(NatOpGuard(e2, c) /\ NatOpStoredOkAll(e2, NatOpDeps(c)), "declined",
    Gate(KindIs(e2, c, "defn"), "internal",
      Gate(CertifyNatEqs(pre, NatOpEquations(0, c), c, InfoOf(e2, c).val), "declined", Good(e2))))

(* Well-founded: pins[i][c] = [pin, proofs, type_pins], a definition known *)
(* to be right, the proofs of its statements and the types of the          *)
(* constants they rest on.  A check answers "ok", "no" or "error"; only    *)
(* "no" goes on to the next set of pins.                                   *)
BoolCtorTyped(e, n) == Stored(e, n) /\ InfoOf(e, n).ty = BoolT
DivModEnvGuard(e2, c) ==
  /\ NatOpGuard(e2, c) /\ NatOpStoredOkAll(e2, NatOpDeps(c))
  /\ EqBasisPinned(e2) /\ BoolCtorTyped(e2, "Bool.true") /\ BoolCtorTyped(e2, "Bool.false")

TypePinGuard(e, tp) ==
  /\ Stored(e, tp[1]) /\ ~HasFVar(InfoOf(e, tp[1]).ty)
  /\ LooseBounded(0, tp[2]) /\ ~HasFVar(tp[2]) /\ ConstsResolve(e, tp[2])
TypePinsGuard(e, tps) == \A i \in DOMAIN tps : TypePinGuard(e, tps[i])
DivModPinGuard(e, ps) == GroundGuards(e, ps.pin) /\ TypePinsGuard(e, ps.type_pins)

SubstConst0List(c, value, hs) == [i \in DOMAIN hs |-> SubstConst0(c, value, hs[i])]
ConstsResolveAll(e, hs) == \A i \in DOMAIN hs : ConstsResolve(e, hs[i])
DivModCertGuard(e, c, value, stmt, proof) ==
  /\ GroundGuards(e, SubstConstAll(c, value, proof))
  /\ ConstsResolveAll(e, SubstConst0List(c, value, stmt.hyps))
  /\ ConstsResolve(e, SubstConst0(c, value, stmt.eq))
Shorter(a, b) == IF Len(a) < Len(b) THEN Len(a) ELSE Len(b)
DivModCertsGuard(e, c, value, stmts, proofs) ==
  \A i \in 1 .. Shorter(stmts, proofs) : DivModCertGuard(e, c, value, stmts[i], proofs[i])

ProvedAt(e, applied, eq) ==
  IF ~WellTyped(e, 4, applied) THEN "error"
  ELSE IF DefEq(e, 4, TType(e, 4, applied), eq) THEN "ok" ELSE "no"
CheckDivModCert(e, c, value, stmt, proof) ==
  IF ~DivModCertGuard(e, c, value, stmt, proof) THEN "no"
  ELSE ProvedAt(e, CertApplied(SubstConstAll(c, value, proof), SubstConst0List(c, value, stmt.hyps)),
                SubstConst0(c, value, stmt.eq))
FirstNotOk(rs) ==
  LET bad == {i \in DOMAIN rs : rs[i] # "ok"}
  IN  IF bad = {} THEN "ok" ELSE rs[CHOOSE i \in bad : \A j \in bad : i <= j]
CheckDivModCertsZip(e, c, value, stmts, proofs) ==        \* mutant: as many as there are proofs
  FirstNotOk([i \in 1 .. Shorter(stmts, proofs) |-> CheckDivModCert(e, c, value, stmts[i], proofs[i])])
CheckDivModCerts(e, c, value, stmts, proofs) ==
  LET rs == [i \in 1 .. Shorter(stmts, proofs) |-> CheckDivModCert(e, c, value, stmts[i], proofs[i])]
  IN  FirstNotOk(IF Len(stmts) = Len(proofs) THEN rs ELSE Append(rs, "no"))
CheckTypePins(e, tps) == \A i \in DOMAIN tps : DefEq(e, 0, InfoOf(e, tps[i][1]).ty, tps[i][2])
CheckDivModPinAt(e, c, value, ps, stmts) ==
  IF ~(CheckTypePins(e, ps.type_pins) /\ DefEq(e, 0, value, ps.pin)) THEN "no"
  ELSE CheckDivModCerts(e, c, value, stmts, ps.proofs)
CheckDivModPinTry(e, c, value, ps, stmts) ==
  IF DivModPinGuard(e, ps) /\ DivModCertsGuard(e, c, value, stmts, ps.proofs)
  THEN CheckDivModPinAt(e, c, value, ps, stmts) ELSE "no"
CheckDivModPinLoop(e, c, value, pins) ==
  LET rs == [i \in DOMAIN pins |-> CheckDivModPinTry(e, c, value, pins[i][c], DivModCertStmts(c))]
      i  == SelectInSeq(rs, LAMBDA r : r # "no")
  IN  IF i = 0 THEN "no" ELSE rs[i]
PinLoopDone(r, e2) ==
  CASE r = "ok" -> Good(e2) [] r = "no" -> Fails("declined") [] r = "error" -> Fails("rejected")
CheckDivModPin(pins, pre, e2, c) ==
  Gate(DivModEnvGuard(e2, c), "declined",
    Gate(KindIs(e2, c, "defn"), "internal",
      PinLoopDone(CheckDivModPinLoop(pre, c, InfoOf(e2, c).val, pins), e2)))

CheckDefnPins(pins, pre, e2, n) ==
  CASE n \in NatOpNames   -> CheckStructuralNatPin(pre, e2, n)
    [] n \in NatOpWfNames -> CheckDivModPin(pins, pre, e2, n)
    [] OTHER              -> Good(e2)

(* An opaque constant the compiler is trusted with must be the identity.   *)
ReducePinGuard(e, c) == GroundGuards(e, ReduceDeclPin(c))
CheckReduceIdentity(e, c, value) ==
  DefEq(e, 1, App(value, ReduceCertVar(c)), ReduceCertVar(c))
CheckReducePin(pre, e2, c, value) ==
  Gate(ReduceStoredOk(e2, c) /\ ReduceElemOk(pre, c) /\ ReducePinGuard(pre, c), "declined",
    Gate(DefEq(pre, 0, value, ReduceDeclPin(c)), "declined",
      Gate(CheckReduceIdentity(pre, c, value), "internal", Good(e2))))
CheckOpaqueReducePin(pre, e2, c, value) ==
  IF c \in ReduceNames THEN CheckReducePin(pre, e2, c, value) ELSE Good(e2)

-----------------------------------------------------------------------------
(* The kinds of record.                                                    *)
InstallValueGuards(e, cv, value) ==
  /\ LooseBounded(0, value) /\ ~HasFVar(value)
  /\ AllLevelParamsDefined(cv.lps, value) /\ ConstsResolve(e, value)
ValueTyped(e, cv, value) == WellTyped(e, 0, value) /\ DefEq(e, 0, TType(e, 0, value), cv.ty)
CheckValue(e, cv, value) == InstallValueGuards(e, cv, value) /\ ValueTyped(e, cv, value)
Constant(kind, cv) == [kind |-> kind, name |-> cv.name, lps |-> cv.lps, ty |-> cv.ty]

CheckDefnVal(e, d) == PushCi(e, Constant("defn", d.cv) @@ [val |-> d.value, hint |-> d.hint])
CheckDefnDecl(pins, e, d) ==
  Gate(CheckConstantVal(e, d.cv) /\ CheckValue(e, d.cv, d.value), "rejected",
       CheckDefnPins(pins, e, CheckDefnVal(e, d), d.cv.name))
CheckThmVal(e, d) == LvlEq(InferSort(e, 0, d.cv.ty)[1], LZero) /\ CheckValue(e, d.cv, d.value)
CheckThmDecl(e, d) ==
  Gate(CheckConstantVal(e, d.cv) /\ CheckThmVal(e, d), "rejected", Good(PushCi(e, Constant("thm", d.cv))))
CheckOpaqueVal(e, d) == PushCi(e, Constant("axiom", d.cv))
CheckOpaqueDecl(e, d) ==
  Gate(CheckConstantVal(e, d.cv) /\ CheckValue(e, d.cv, d.value), "rejected",
       CheckOpaqueReducePin(e, CheckOpaqueVal(e, d), d.cv.name, d.value))

(* An axiom is stored if it is one of six; two names are answered for      *)
(* without storing anything.                                               *)
CheckQuotSoundRecord(e, cv) ==
  Gate(ConstantInfoCanonEq(Constant("axiom", cv), QuotBasis[5]), "declined", Good(e))
CheckAxiomDeclTrust(e, cv) ==
  CASE cv.name = "Lean.trustCompiler" -> Gate(TrustCompilerOk(e, cv), "declined", Good(PushCi(e, Constant("axiom", cv))))
    [] cv.name \in OfReduceNames      -> Gate(OfReduceAxOk(e, cv), "declined", Good(PushCi(e, Constant("axiom", cv))))
    [] cv.name = "sorryAx"            -> Good(e)
    [] OTHER                          -> Fails("declined")
CheckAxiomDeclStd(e, cv) ==
  Gate(CheckConstantVal(e, cv), "rejected",
       IF StdAxiomOk(e, cv) THEN Good(PushCi(e, Constant("axiom", cv))) ELSE CheckAxiomDeclTrust(e, cv))
CheckAxiomDecl(e, cv) ==
  IF cv.name = "Quot.sound" THEN CheckQuotSoundRecord(e, cv) ELSE CheckAxiomDeclStd(e, cv)

(* A basis block is stored from the checker's own table.                   *)
InstallBasisDecls(e, decls) ==
  Gate(\A i \in DOMAIN decls : ~Stored(e, decls[i].name), "rejected",
       Good([e EXCEPT !.infos = [n \in {decls[i].name : i \in DOMAIN decls} |->
               decls[CHOOSE i \in DOMAIN decls : decls[i].name = n]] @@ @]))
CheckBasisDecl(e, kind) ==
  Gate(kind = "quot" => EqBasisPinned(e), "declined", InstallBasisDecls(e, BasisDeclsA(kind)))
CheckIndDecl(e, d) ==
  LET hit == BasisPinHit(d.block)
  IN  IF hit # <<>> THEN CheckBasisDecl(e, hit[1])
      ELSE Gate(d.parts # <<>> /\ \A i \in DOMAIN d.parts : ~Stored(e, d.parts[i].name), "rejected",
                Good([e EXCEPT !.infos = [n \in {d.parts[i].name : i \in DOMAIN d.parts} |->
                        d.parts[CHOOSE i \in DOMAIN d.parts : d.parts[i].name = n]] @@ @]))
CheckQuotDecl(e, d) ==
  Gate(QuotPinHit(d.slot, d.cv), "declined",
       IF d.slot = 0 THEN CheckBasisDecl(e, "quot") ELSE Good(e))

AndPinOk(d) ==
  CASE d.kind = "basis" -> TRUE
    [] d.kind = "ind"   -> AndPinBlockOk(d.block, d.n_p)
    [] OTHER            -> AndPinNameFree(d.cv.name)
InstallDeclStep(d, checked) == Gate(AndPinOk(d), "rejected", checked)

-----------------------------------------------------------------------------
Decl == src.decls[at + 1]
Init ==
  /\ src \in Exports /\ env = src.env
  /\ at = 0 /\ outcome = "ok" /\ asked = <<>>

(* The next record is read; the fold ends at the first that fails.         *)
Step(kind, checked) ==
  /\ outcome = "ok" /\ at < Len(src.decls) /\ asked = <<>> /\ Decl.kind = kind
  /\ \E r \in {InstallDeclStep(Decl, checked)} :
       /\ outcome' = r.err
       /\ env' = IF r.env = <<>> THEN env ELSE r.env[1]
       /\ at' = IF r.env = <<>> THEN at ELSE at + 1
  /\ UNCHANGED <<src, asked>>
Defn   == Step("defn", CheckDefnDecl(src.pins, env, Decl))
Thm    == Step("thm", CheckThmDecl(env, Decl))
Opaque == Step("opaque", CheckOpaqueDecl(env, Decl))
Axiom  == Step("axiom", CheckAxiomDecl(env, Decl.cv))
Basis  == Step("basis", CheckBasisDecl(env, Decl.which))
Ind    == Step("ind", CheckIndDecl(env, Decl))
QuotD  == Step("quot", CheckQuotDecl(env, Decl))

(* The core reduces an operation it takes to be the known one.             *)
OpsDeclared ==
  {src.decls[i].cv.name : i \in {j \in DOMAIN src.decls : src.decls[j].kind \in {"defn", "opaque"}}}
  \cap (NatOpNames \cup NatOpWfNames)
Ask ==
  /\ outcome # "ok" \/ at = Len(src.decls)
  /\ asked = <<>>
  /\ \E c \in OpsDeclared, a, b \in 0 .. AskedUpTo :
       /\ NatOpGuard(env, c)
       /\ LET r == NatOpResult(c, a, b)[1] IN Is("lit", r) => r[2] <= AnsweredUpTo
       /\ asked' = <<c, a, b>>
  /\ UNCHANGED <<env, src, at, outcome>>

Next == Defn \/ Thm \/ Opaque \/ Axiom \/ Basis \/ Ind \/ QuotD \/ Ask
Spec == Init /\ [][Next]_vars
=============================================================================
