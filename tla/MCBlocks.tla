------------------------------ MODULE MCBlocks ------------------------------
(***************************************************************************)
(* Exports of up to three inductive blocks: numbers, lists and trees over  *)
(* them, a mutual and a reflexive type, equality, connectives, a dependent *)
(* pair, and blocks each wrong in one way.                                 *)
(***************************************************************************)
EXTENDS Blocks

-----------------------------------------------------------------------------
(* Notation.  Bound variables are counted from the inside.                 *)
V(i) == BVar(i)
C(n) == Const0(n)
U    == Srt(LSucc(LZero))
Prop == Srt(LZero)
Sv   == Srt(LParam("v"))
PiN(ds, body) == FoldRight(Pi, ds, body)
Ap(n, args)   == MkAppN(C(n), args)
M(i, a)       == App(V(i), a)                \* a motive, or a parameter, applied

Ind(n, ty)          == [kind |-> "ind", name |-> n, lps |-> <<>>, ty |-> ty]
Ctor(n, np, nf, ty) == [kind |-> "ctor", name |-> n, lps |-> <<>>, ty |-> ty, np |-> np, nf |-> nf]
Rec(n, rp, mi, ty)  == [kind |-> "rec", name |-> n, lps |-> <<"v">>, ty |-> ty, rp |-> rp, mi |-> mi, rules |-> <<>>]
Small(r)            == [r EXCEPT !.lps = <<>>]
Poly(ci)            == [ci EXCEPT !.lps = IF ci.kind = "rec" THEN <<"v", "u">> ELSE <<"u">>]
B(n_p, infos)       == [n_p |-> n_p, infos |-> infos]

(* N, and its recursor with the minor premises in the order given, the     *)
(* hypothesis of the second about ih.                                      *)
N  == C("N")
Nz == C("N.z")
NTypes == <<Ind("N", U), Ctor("N.z", 0, 0, N), Ctor("N.s", 0, 1, Pi(N, N))>>
NStep(m, ih) == PiN(<<N, M(m + 1, ih)>>, M(m + 2, Ap("N.s", <<V(1)>>)))
NRec(z, s)   == Rec("N.rec", 3, 3, PiN(<<Pi(N, Sv), z, s, N>>, M(3, V(0))))
NBlock  == B(0, NTypes \o <<NRec(M(0, Nz), NStep(1, V(0)))>>)
NSwap   == B(0, NTypes \o <<NRec(NStep(0, V(0)), M(1, Nz))>>)
NNoIh   == B(0, NTypes \o <<NRec(M(0, Nz), Pi(N, M(2, Ap("N.s", <<V(0)>>))))>>)
NIhOfZ  == B(0, NTypes \o <<NRec(M(0, Nz), NStep(1, Nz))>>)
NTwice  == B(0, NTypes \o <<Rec("N.rec", 4, 4, PiN(<<Pi(N, Sv), M(0, Nz), M(1, Nz), NStep(2, V(0)), N>>, M(4, V(0))))>>)
NWrong  == B(0, NTypes \o <<NRec(M(0, Nz), PiN(<<N, M(2, V(0))>>, M(3, Ap("N.s", <<Ap("N.s", <<V(1)>>)>>))))>>)
NParam  == [NBlock EXCEPT !.n_p = 1]
NStray  == B(0, NTypes \o <<Rec("N.rec", 4, 4,
             PiN(<<Pi(N, Sv), Pi(U, Sv), M(1, Nz), NStep(2, V(0)), N>>, M(4, V(0))))>>)

(* L A, lists, at every level.                                             *)
SuccU  == Srt(LSucc(LParam("u")))
Lu(a)  == App(Cnst("L", <<LParam("u")>>), a)
Lt(n, args) == MkAppN(Cnst(n, <<LParam("u")>>), args)
LCons(t) == PiN(<<V(2), Lu(t), M(3, V(0))>>, M(4, Lt("L.cons", <<V(5), V(2), V(1)>>)))
LBlockOf(t) ==
  B(1, <<Poly(Ind("L", Pi(SuccU, SuccU))), Poly(Ctor("L.nil", 1, 0, Pi(SuccU, Lu(V(0))))),
         Poly(Ctor("L.cons", 1, 2, PiN(<<SuccU, V(0), Lu(V(1))>>, Lu(V(2))))),
         Poly(Rec("L.rec", 4, 4,
           PiN(<<SuccU, Pi(Lu(V(0)), Sv), M(0, Lt("L.nil", <<V(1)>>)), LCons(t), Lu(V(3))>>, M(3, V(0)))))>>)
LBlock == LBlockOf(V(3))
LOf(t) == App(Cnst("L", <<LZero>>), t)
L0(n, args) == MkAppN(Cnst(n, <<LZero>>), args)

(* T, a tree with a list of subtrees, and its two recursors.               *)
T == C("T")
TTypes  == <<Ind("T", U), Ctor("T.node", 0, 1, Pi(LOf(T), T))>>
TNode   == PiN(<<LOf(T), M(1, V(0))>>, M(3, Ap("T.node", <<V(1)>>)))
TNoIh   == Pi(LOf(T), M(2, Ap("T.node", <<V(0)>>)))
TCons   == PiN(<<T, LOf(T), M(5, V(1)), M(5, V(1))>>, M(6, L0("L.cons", <<T, V(3), V(2)>>)))
TRecTy(m2, node, major, c) ==
  PiN(<<Pi(T, Sv), Pi(m2, Sv), node, M(1, L0("L.nil", <<T>>)), TCons, major>>, M(c, V(0)))
TRecs(node) == <<Rec("T.rec", 5, 5, TRecTy(LOf(T), node, T, 5)), Rec("T.rec_1", 5, 5, TRecTy(LOf(T), node, LOf(T), 4))>>
TBlock  == B(0, TTypes \o TRecs(TNode))
TBadIh  == B(0, TTypes \o TRecs(TNoIh))
TOneRec == B(0, TTypes \o <<TRecs(TNode)[1]>>)
TOfN    == B(0, TTypes \o <<Rec("T.rec", 5, 5, TRecTy(LOf(N), TNode, T, 5))>>)

(* A tree with a list of lists of subtrees.                                *)
LL == LOf(LOf(T))
T2Cons(m, a) == PiN(<<a, LOf(a), M(IF a = T THEN 8 ELSE 4, V(1)), M(m, V(1))>>, M(m + 1, L0("L.cons", <<a, V(3), V(2)>>)))
T2RecTy(major, c) ==
  PiN(<<Pi(T, Sv), Pi(LL, Sv), Pi(LOf(T), Sv), PiN(<<LL, M(2, V(0))>>, M(4, Ap("T.node", <<V(1)>>))),
        M(2, L0("L.nil", <<LOf(T)>>)), T2Cons(6, LOf(T)), M(3, L0("L.nil", <<T>>)), T2Cons(7, T), major>>, M(c, V(0)))
T2Block == B(0, <<Ind("T", U), Ctor("T.node", 0, 1, Pi(LL, T)), Rec("T.rec", 8, 8, T2RecTy(T, 8)),
                  Rec("T.rec_1", 8, 8, T2RecTy(LL, 7)), Rec("T.rec_2", 8, 8, T2RecTy(LOf(T), 6))>>)

(* Ro A, a container nested in itself: its walk at the members of another  *)
(* block meets the lists at the hole it stands for itself; and TRo, a tree *)
(* with such a field.                                                      *)
Ro(a) == Ap("Ro", <<a>>)
RoRecTy(c, major(_)) ==
  PiN(<<U, Pi(Ro(V(0)), Sv), Pi(LOf(Ro(V(1))), Sv),
        PiN(<<V(2), LOf(Ro(V(3))), M(2, V(0))>>, M(4, Ap("Ro.mk", <<V(5), V(2), V(1)>>))),
        M(1, L0("L.nil", <<Ro(V(3))>>)),
        PiN(<<Ro(V(4)), LOf(Ro(V(5))), M(5, V(1)), M(5, V(1))>>, M(6, L0("L.cons", <<Ro(V(8)), V(3), V(2)>>))),
        major(Ro(V(5)))>>, M(c, V(0)))
RoBlock == B(1, <<Ind("Ro", Pi(U, U)), Ctor("Ro.mk", 1, 2, PiN(<<U, V(0), LOf(Ro(V(1)))>>, Ro(V(2)))),
                  Rec("Ro.rec", 6, 6, RoRecTy(5, LAMBDA r : r)), Rec("Ro.rec_1", 6, 6, RoRecTy(4, LOf))>>)
TRoRecTy(major, c) ==
  PiN(<<Pi(T, Sv), Pi(Ro(T), Sv), Pi(LOf(Ro(T)), Sv), PiN(<<Ro(T), M(2, V(0))>>, M(4, Ap("T.node", <<V(1)>>))),
        PiN(<<T, LOf(Ro(T)), M(5, V(1)), M(4, V(1))>>, M(6, Ap("Ro.mk", <<T, V(3), V(2)>>))),
        M(2, L0("L.nil", <<Ro(T)>>)),
        PiN(<<Ro(T), LOf(Ro(T)), M(6, V(1)), M(6, V(1))>>, M(7, L0("L.cons", <<Ro(T), V(3), V(2)>>))),
        major>>, M(c, V(0)))
TRo == B(0, <<Ind("T", U), Ctor("T.node", 0, 1, Pi(Ro(T), T)), Rec("T.rec", 7, 7, TRoRecTy(T, 7)),
              Rec("T.rec_1", 7, 7, TRoRecTy(Ro(T), 6)), Rec("T.rec_2", 7, 7, TRoRecTy(LOf(Ro(T)), 5))>>)

(* Lists of a length.                                                      *)
Vc(a, n) == Ap("Vc", <<a, n>>)
VcBlock == B(1, <<Ind("Vc", PiN(<<U, N>>, U)), Ctor("Vc.nil", 1, 0, Pi(U, Vc(V(0), Nz))),
                  Ctor("Vc.cons", 1, 3, PiN(<<U, N, V(1), Vc(V(2), V(1))>>, Vc(V(3), Ap("N.s", <<V(2)>>)))),
                  Rec("Vc.rec", 4, 5, PiN(<<U, PiN(<<N, Vc(V(1), V(0))>>, Sv), App(M(0, Nz), Ap("Vc.nil", <<V(1)>>)),
                        PiN(<<N, V(3), Vc(V(4), V(1)), App(M(4, V(2)), V(0))>>,
                            App(M(5, Ap("N.s", <<V(3)>>)), Ap("Vc.cons", <<V(6), V(3), V(2), V(1)>>))),
                        N, Vc(V(4), V(0))>>, App(M(4, V(1)), V(0))))>>)

(* Two types defined together, and one recursor forgotten.                 *)
Ev == C("Ev")
Od == C("Od")
EvTypes == <<Ind("Ev", U), Ind("Od", U), Ctor("Ev.z", 0, 0, Ev), Ctor("Ev.s", 0, 1, Pi(Od, Ev)), Ctor("Od.s", 0, 1, Pi(Ev, Od))>>
EvRecTy(major, c) ==
  PiN(<<Pi(Ev, Sv), Pi(Od, Sv), M(1, C("Ev.z")), PiN(<<Od, M(2, V(0))>>, M(4, Ap("Ev.s", <<V(1)>>))),
        PiN(<<Ev, M(4, V(0))>>, M(4, Ap("Od.s", <<V(1)>>))), major>>, M(c, V(0)))
EvBlock == B(0, EvTypes \o <<Rec("Ev.rec", 5, 5, EvRecTy(Ev, 5)), Rec("Od.rec", 5, 5, EvRecTy(Od, 4))>>)
EvOne   == B(0, EvTypes \o <<Rec("Ev.rec", 5, 5, EvRecTy(Ev, 5))>>)

(* W, with a function into itself as a field; D, with one out of itself;   *)
(* a field in too large a universe.                                        *)
OneField(n, mk, ty, r, s) ==
  <<Ind(n, s), Ctor(mk, 0, 1, Pi(ty, C(n))), Rec(r, 2, 2, PiN(<<Pi(C(n), Sv), Pi(ty, M(1, Ap(mk, <<V(0)>>))), C(n)>>, M(2, V(0))))>>
W == C("W")
WBlock == B(0, <<Ind("W", U), Ctor("W.sup", 0, 1, Pi(Pi(N, W), W)),
                 Rec("W.rec", 2, 2, PiN(<<Pi(W, Sv),
                       PiN(<<Pi(N, W), Pi(N, M(2, M(1, V(0))))>>, M(2, Ap("W.sup", <<V(1)>>))), W>>, M(2, V(0))))>>)
D == C("D")
DBlock == B(0, OneField("D", "D.mk", Pi(D, D), "D.rec", U))
BigBlock == B(0, OneField("Big", "Big.mk", U, "Big.rec", U))

(* Containers: F A, functions out of A, is not positive in A; P A lives in *)
(* Prop; a list of functions out of G, met after a list of G; and R        *)
(* applies itself to something else than its parameter.                    *)
FBlock == B(1, <<Ind("F", Pi(U, U)), Ctor("F.mk", 1, 1, PiN(<<U, Pi(V(0), N)>>, Ap("F", <<V(1)>>))),
                 Rec("F.rec", 3, 3, PiN(<<U, Pi(Ap("F", <<V(0)>>), Sv),
                       Pi(Pi(V(1), N), M(1, Ap("F.mk", <<V(2), V(0)>>))), Ap("F", <<V(2)>>)>>, M(2, V(0))))>>)
PBlock == B(1, <<Ind("P", Pi(U, Prop)), Ctor("P.mk", 1, 1, PiN(<<U, V(0)>>, Ap("P", <<V(1)>>))),
                 Small(Rec("P.rec", 3, 3, PiN(<<U, Pi(Ap("P", <<V(0)>>), Prop),
                       Pi(V(1), M(1, Ap("P.mk", <<V(2), V(0)>>))), Ap("P", <<V(2)>>)>>, M(2, V(0)))))>>)
OfF == B(0, OneField("G", "G.mk", Ap("F", <<C("G")>>), "G.rec", U))
OfP == B(0, OneField("G", "G.mk", Ap("P", <<C("G")>>), "G.rec", U))
OfLs == B(0, <<Ind("G", U), Ctor("G.mk", 0, 2, PiN(<<LOf(C("G")), LOf(Pi(C("G"), N))>>, C("G"))),
               Rec("G.rec", 2, 2, PiN(<<Pi(C("G"), Sv),
                     PiN(<<LOf(C("G")), LOf(Pi(C("G"), N))>>, M(2, Ap("G.mk", <<V(1), V(0)>>))), C("G")>>, M(2, V(0))))>>)
RBlock == B(1, <<Ind("R", Pi(U, U)), Ctor("R.mk", 1, 1, PiN(<<U, Ap("R", <<LOf(V(0))>>)>>, Ap("R", <<V(1)>>))),
                 Rec("R.rec", 3, 3, PiN(<<U, Pi(Ap("R", <<V(0)>>), Sv),
                       Pi(Ap("R", <<LOf(V(1))>>), M(1, Ap("R.mk", <<V(2), V(0)>>))), Ap("R", <<V(2)>>)>>, M(2, V(0))))>>)

(* Propositions: equality; a proof that is a number; the conjunction, the  *)
(* disjunction and an existential, with small and with large elimination.  *)
Q(a, x, y)  == Ap("Q", <<a, x, y>>)
QBlock == B(2, <<Ind("Q", PiN(<<U, V(0), V(1)>>, Prop)), Ctor("Q.refl", 2, 0, PiN(<<U, V(0)>>, Q(V(1), V(0), V(0)))),
                 Rec("Q.rec", 4, 5, PiN(<<U, V(0), PiN(<<V(1), Q(V(2), V(1), V(0))>>, Sv),
                       App(M(0, V(1)), Ap("Q.refl", <<V(2), V(1)>>)), V(3), Q(V(4), V(3), V(0))>>, App(M(3, V(1)), V(0))))>>)
IsBlock == B(0, <<Ind("Is", Pi(N, Prop)), Ctor("Is.mk", 0, 1, Pi(N, Ap("Is", <<V(0)>>))),
                  Rec("Is.rec", 2, 3, PiN(<<PiN(<<N, Ap("Is", <<V(0)>>)>>, Sv),
                        Pi(N, App(M(1, V(0)), Ap("Is.mk", <<V(0)>>))), N, Ap("Is", <<V(0)>>)>>, App(M(3, V(1)), V(0))))>>)
A2(n, a, b) == Ap(n, <<a, b>>)
AndBlock == B(2, <<Ind("And", PiN(<<Prop, Prop>>, Prop)),
                   Ctor("And.mk", 2, 2, PiN(<<Prop, Prop, V(1), V(1)>>, A2("And", V(3), V(2)))),
                   Rec("And.rec", 4, 4, PiN(<<Prop, Prop, Pi(A2("And", V(1), V(0)), Sv),
                         PiN(<<V(2), V(2)>>, M(2, Ap("And.mk", <<V(4), V(3), V(1), V(0)>>))), A2("And", V(3), V(2))>>, M(2, V(0))))>>)
OrRec(s) == Rec("Or.rec", 5, 5, PiN(<<Prop, Prop, Pi(A2("Or", V(1), V(0)), s),
                  Pi(V(2), M(1, Ap("Or.l", <<V(3), V(2), V(0)>>))), Pi(V(2), M(2, Ap("Or.r", <<V(4), V(3), V(0)>>))),
                  A2("Or", V(4), V(3))>>, M(3, V(0))))
OrTypes  == <<Ind("Or", PiN(<<Prop, Prop>>, Prop)), Ctor("Or.l", 2, 1, PiN(<<Prop, Prop, V(1)>>, A2("Or", V(2), V(1)))),
              Ctor("Or.r", 2, 1, PiN(<<Prop, Prop, V(0)>>, A2("Or", V(2), V(1))))>>
OrBlock  == B(2, OrTypes \o <<Small(OrRec(Prop))>>)
OrLarge  == B(2, OrTypes \o <<OrRec(Sv)>>)
ExTypes  == <<Ind("Ex", Prop), Ctor("Ex.mk", 0, 1, Pi(N, C("Ex")))>>
ExRec(s) == Rec("Ex.rec", 2, 2, PiN(<<Pi(C("Ex"), s), Pi(N, M(1, Ap("Ex.mk", <<V(0)>>))), C("Ex")>>, M(2, V(0))))
ExBlock  == B(0, ExTypes \o <<Small(ExRec(Prop))>>)
ExLarge  == B(0, ExTypes \o <<ExRec(Sv)>>)

(* A dependent pair, with projections.                                     *)
Sg(a, b) == A2("Sg", a, b)
SgBlock == B(2, <<Ind("Sg", PiN(<<U, Pi(V(0), U)>>, U)),
                  Ctor("Sg.mk", 2, 2, PiN(<<U, Pi(V(0), U), V(1), M(1, V(0))>>, Sg(V(3), V(2)))),
                  Rec("Sg.rec", 4, 4, PiN(<<U, Pi(V(0), U), Pi(Sg(V(1), V(0)), Sv),
                        PiN(<<V(2), M(2, V(0))>>, M(2, Ap("Sg.mk", <<V(4), V(3), V(1), V(0)>>))), Sg(V(3), V(2))>>, M(2, V(0))))>>)

EmptyEnv   == [infos |-> <<>>, projs |-> <<>>]
AllExports ==
  {<<b>> : b \in {NBlock, NSwap, NNoIh, NIhOfZ, NTwice, NWrong, NParam, NStray, LBlockOf(V(4)), EvBlock, EvOne, DBlock, BigBlock,
                  QBlock, AndBlock, OrBlock, OrLarge, SgBlock}}
  \cup {<<NBlock, b>> : b \in {NBlock, WBlock, IsBlock, VcBlock, ExBlock, ExLarge}}
  \cup {<<LBlock, b>> : b \in {TBlock, T2Block, TBadIh, TOneRec, RBlock}}
  \cup {<<NBlock, LBlock, TOfN>>, <<NBlock, LBlock, OfLs>>, <<LBlock, RoBlock, TRo>>, <<NBlock, FBlock, OfF>>, <<PBlock, OfP>>}
-----------------------------------------------------------------------------
(* What positivity means, stated without holes, frames, keys or fuel: the  *)
(* members occur in a field only as results of functions, at exactly the   *)
(* parameters, or in the arguments of a container of the block's universe  *)
(* whose own fields at these arguments are again positive.  No later field *)
(* may depend on one with an occurrence.                                   *)
Mentions(x, e) == NestOcc(x.names, 0, 0, e)
MentionsOne(x, es) == NestOccAny(x.names, 0, 0, es)
RECURSIVE PosType(_, _, _, _), PosFields(_, _, _, _, _)
PosMember(x, args, us) == us = x.lvls /\ TakeN(args, x.n_p) = x.params /\ ~MentionsOne(x, DropN(args, x.n_p))
FamilyOf(env1, c) == IF env1.infos[c].caps.all = <<>> THEN {c} ELSE Range(env1.infos[c].caps.all)
PosFamily(x, seen, key) ==
  \A c \in FamilyOf(x.env, key.c) : \A k \in Range(x.env.infos[c].caps.ctors) :
    PosFields(x, seen \cup {key}, x.n_p, x.env.infos[k].nf,
              InstPisWith(key.ds, InstLp(x.env.infos[k].lps, key.us, x.env.infos[k].ty))[1])
PosContainer(x, seen, us, args, info, key) ==
  LET tele == PiBinders(InstPisWith(key.ds, InstLp(info.lps, us, info.ty))[1], <<>>)
  IN  /\ Len(args) = info.caps.nparams + Len(tele.doms)
      /\ ~MentionsOne(x, DropN(args, info.caps.nparams) \o tele.doms)
      /\ ParamsClosed(x.n_p, key.ds)
      /\ Is("sort", tele.rest) /\ LvlEq(tele.rest[2], x.sort)
      /\ key \in seen \/ PosFamily(x, seen, key)
PosWhole(x, seen, d, w) ==
  LET args == GetAppArgs(w)
  IN  CASE Is("pi", w) -> ~Mentions(x, w[2]) /\ PosType(x, seen, d + 1, Inst1(w[3], FVar(d, w[2])))
        [] HeadConst(w) /\ Listed(x.names, HeadName(w)) -> PosMember(x, args, HeadLevels(w))
        [] HeadConst(w) /\ ~Listed(x.names, HeadName(w)) /\ IsKind(x.env, HeadName(w), "ind") ->
             PosContainer(x, seen, HeadLevels(w), args, x.env.infos[HeadName(w)],
               [c |-> HeadName(w), us |-> HeadLevels(w), ds |-> TakeN(args, x.env.infos[HeadName(w)].caps.nparams)])
        [] OTHER -> FALSE
PosReduced(x, seen, d, w) == Mentions(x, w) => PosWhole(x, seen, d, w)
PosType(x, seen, d, e) == PosReduced(x, seen, d, TWhnf(x.env, d, e))
PosFields(x, seen, d, n, e) ==
  n > 0 => /\ PosType(x, seen, d, e[2])
           /\ Mentions(x, e[2]) => ~LooseAt(0, e[3])
           /\ PosFields(x, seen, d + 1, n - 1, Inst1(e[3], FVar(d, e[2])))
Positive(x, cs) ==
  \A c \in Range(cs) : PosFields(x, {}, x.n_p, c.nf, InstPisWith(x.params, c.cv.ty)[1])

(* The walk of the code (holes for members and for containers being        *)
(* walked, frames, accepted keys, fuel) lets a block past exactly when it  *)
(* is strictly positive in that sense.                                     *)
PositivityExact ==
  /\ at = "rejected: positivity" => ~Positive(work.x, AllCtors(p))
  /\ at = "seeds" => Positive(work.x, AllCtors(p))
-----------------------------------------------------------------------------
(* What a stored recursor must satisfy: a rule for every constructor of    *)
(* its family, and both sides of a rule, the recursor applied to the       *)
(* constructor and the rule applied to its fields, of one type.  The       *)
(* constructor is taken where the core fires the rule.                     *)
SameType(e, d, a, b) == WellTyped(e, d, a) /\ WellTyped(e, d, b) /\ TEqual(e, d, <<TType(e, d, a), TType(e, d, b)>>)
RuleSides(e, n, info, rl, pre, us, cargs, q) ==
  SameType(e, info.rp + rl.nfields,
           MkAppN(Cnst(n, ParamLevels(info.lps)),
                  pre \o Append(DropN(GetAppArgs(q.rest), rl.ctor_params), MkAppN(Cnst(rl.ctor, us), cargs \o q.fvs))),
           MkAppN(rl.rhs, pre \o q.fvs))
RuleAt(e, n, info, rl, cj, pre, us, cargs) ==
  RuleSides(e, n, info, rl, pre, us, cargs,
            OpenPis(rl.nfields, InstPisWith(cargs, InstLp(cj.lps, us, cj.ty))[1], info.rp)[1])
RuleTyped(e, n, info, rl, pre) ==
  LET lvls == ParamLevels(info.lps)
  IN  RuleAt(e, n, info, rl, e.infos[rl.ctor], pre, RecFireLevels(rl, info.lps, lvls, e.infos[rl.ctor]),
             RecFireArgs(rl, info.lps, lvls, pre, info.rp))
RecTyped(e, n) ==
  LET info  == e.infos[n]
      major == HeadName(BinderDom(info.mi, info.ty)[1])
  IN  /\ {rl.ctor : rl \in Range(info.rules)} = Range(e.infos[major].caps.ctors)
      /\ \A rl \in Range(info.rules) : RuleTyped(e, n, info, rl, OpenPis(info.rp, info.ty, 0)[1].fvs)

(* A projection of the constructor has the type of its field.              *)
ProjectionTyped(e, k, at_k) ==
  LET us == ParamLevels(at_k.lps)
      ps == OpenPis(at_k.num_params, e.infos[k[1]].ty, 0)[1].fvs
      q  == OpenPis(at_k.num_fields, InstPisWith(ps, e.infos[at_k.ctor].ty)[1], at_k.num_params)[1]
  IN  SameType(e, at_k.num_params + at_k.num_fields,
               Prj(k[1], k[2], MkAppN(Cnst(at_k.ctor, us), ps \o q.fvs)), q.fvs[k[2] + 1])

(* Everything a block stores computes within its type.                     *)
Settled == at \in {"read", "done"}
EliminatorsTyped ==
  Settled => /\ \A n \in DOMAIN env.infos : IsKind(env, n, "rec") => RecTyped(env, n)
             /\ \A k \in DOMAIN env.projs : ProjectionTyped(env, k, env.projs[k])

(* Two proofs of one proposition are equal, so a recursor out of it must   *)
(* not tell them apart: its rules agree on any two constructor             *)
(* applications of one type, the indices determining the fields they name. *)
RECURSIVE Copies(_, _, _, _, _)
Copies(e, d, fvs, idx, out) ==
  IF fvs = <<>> THEN out
  ELSE LET f == IF Listed(idx, Head(fvs)) THEN Head(fvs) ELSE FVar(d, e[2])
       IN  Copies(Inst1(e[3], f), d + 1, Tail(fvs), idx, Append(out, f))
RulesAlike(e, info, r1, r2, pre) ==
  LET ty(rl) == InstPisWith(TakeN(pre, rl.ctor_params), e.infos[rl.ctor].ty)[1]
      q  == OpenPis(r1.nfields, ty(r1), info.rp)[1]
      q2 == OpenPis(r2.nfields, ty(r2), info.rp + r1.nfields)[1]
      gs == IF r1 = r2 THEN Copies(ty(r1), info.rp + r1.nfields, q.fvs, GetAppArgs(q.rest), <<>>) ELSE q2.fvs
  IN  TEqual(e, info.rp + r1.nfields + r2.nfields, <<MkAppN(r1.rhs, pre \o q.fvs), MkAppN(r2.rhs, pre \o gs)>>)
IsProposition(e, info) ==
  ZeroLevel(PiResult(e.infos[HeadName(BinderDom(info.mi, info.ty)[1])].ty)[2])
ProofsEliminateAlike ==
  Settled => \A n \in {m \in DOMAIN env.infos : IsKind(env, m, "rec")} :
    IsProposition(env, env.infos[n]) =>
      \A r1, r2 \in Range(env.infos[n].rules) :
        RulesAlike(env, env.infos[n], r1, r2, OpenPis(env.infos[n].rp, env.infos[n].ty, 0)[1].fvs)
=============================================================================
