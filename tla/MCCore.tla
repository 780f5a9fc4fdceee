-------------------------------- MODULE MCCore --------------------------------
(***************************************************************************)
(* The typing core under a record's worth of questions.  The environment   *)
(* has what each rule of the core needs: numerals with an operation that   *)
(* literals shortcut, a definition over it, a structure with a dependent   *)
(* field (Box), a unit, a proposition with rule K (Tr), the conjunction    *)
(* with its rescue, and eagerReduce.                                       *)
(***************************************************************************)
EXTENDS Core, TypingRules, FiniteSets

CONSTANTS Fuel,        \* of the knots
          MaxQueries   \* questions asked within one record

ASSUME RunAssumption == {Fuel, MaxQueries} \subseteq Nat

-----------------------------------------------------------------------------
(* Notation.  Bound variables are counted from the inside.                 *)
V(i)   == BVar(i)
N      == Const0("Nat")
Tr     == Const0("Tr")
Box    == Const0("Box")
SortU  == Srt(LParam("u"))
LOne   == LSucc(LZero)
Prop   == Srt(LZero)
Ap3(f, a, b, c)    == App(App(App(f, a), b), c)
Ap4(f, a, b, c, e) == App(Ap3(f, a, b, c), e)
Succ(e)    == Ap1("Nat.succ", e)
Add(a, b)  == Ap2("Nat.add", a, b)
ToNat(t)   == Lam(t, N)                      \* the constant motive Nat over t
NatRec(m, z, s, n) == Ap4(Cnst("Nat.rec", <<LOne>>), m, z, s, n)
Conj(a, b) == Ap2("And", a, b)

Plain == [fire |-> <<"plain">>, k |-> FALSE, eta |-> FALSE, ctor_params |-> 0]
NoCaps == [eta |-> FALSE, eta_ctor |-> "", eta_params |-> 0, eta_fields |-> 0, unitlike |-> FALSE,
           unit_params |-> 0, rule_k |-> FALSE, sort_z |-> Never, all |-> <<>>, nparams |-> 0, ctors |-> <<>>]
Type0(ty)      == [kind |-> "axiom", lps |-> <<>>, ty |-> ty]
Ctor(ty, np, nf) == [kind |-> "ctor", lps |-> <<>>, ty |-> ty, np |-> np, nf |-> nf]
Ind(ty, caps)  == [kind |-> "ind", lps |-> <<>>, ty |-> ty, caps |-> caps]
Defn(lps, ty, val, hint) == [kind |-> "defn", lps |-> lps, ty |-> ty, val |-> val, hint |-> hint]
Rec(ty, n, rules) == [kind |-> "rec", lps |-> <<"u">>, ty |-> ty, mi |-> n, rp |-> n, rules |-> rules]

Rhs(m, z, s, b)  == Lam(m, Lam(z, Lam(s, b)))
NatRecMotive == Pi(N, SortU)
NatRecStep   == Pi(N, Pi(App(V(2), V(0)), App(V(3), Succ(V(1)))))
NatRecU      == Cnst("Nat.rec", <<LParam("u")>>)
NatInfos ==
  [Nat |-> Ind(SortOne, [NoCaps EXCEPT !.ctors = <<"Nat.zero", "Nat.succ">>])]
  @@ ("Nat.zero" :> Ctor(N, 0, 0)) @@ ("Nat.succ" :> Ctor(Pi(N, N), 0, 1))
  @@ ("Nat.rec" :>
      Rec(Pi(NatRecMotive, Pi(App(V(0), Const0("Nat.zero")), Pi(NatRecStep, Pi(N, App(V(3), V(0)))))), 3,
          LET rule(ctor, nf, body) == [ctor |-> ctor, nfields |-> nf, rhs |->
                Rhs(NatRecMotive, App(V(0), Const0("Nat.zero")), NatRecStep, body)] @@ Plain
          IN  <<rule("Nat.zero", 0, V(1)),
                rule("Nat.succ", 1, Lam(N, App(App(V(1), V(0)), Ap4(NatRecU, V(3), V(2), V(1), V(0)))))>>))
  @@ ("Nat.add" :> Defn(<<>>, Pi(N, Pi(N, N)),
        Lam(N, Lam(N, NatRec(ToNat(N), V(1), Lam(N, Lam(N, Succ(V(0)))), V(0)))), <<"regular", 1>>))
  @@ [fix |-> Type0(Pi(N, Pi(N, N)))]      \* well-founded recursion, which does not reduce
  @@ ("Nat.gcd" :> Defn(<<>>, Pi(N, Pi(N, N)), Lam(N, Lam(N, Ap2("fix", V(1), V(0)))), <<"regular", 1>>))
  @@ ("isz" :> Defn(<<>>, Pi(N, Const0("Bool")),
        Lam(N, Ap4(Cnst("Nat.rec", <<LOne>>), Lam(N, Const0("Bool")), Const0("Bool.true"),
                   Lam(N, Lam(Const0("Bool"), Const0("Bool.false"))), V(0))), <<"regular", 1>>))
  @@ [Bool |-> Ind(SortOne, [NoCaps EXCEPT !.ctors = <<"Bool.false", "Bool.true">>]), g |-> Type0(Pi(N, N))]
  @@ ("Bool.true" :> Ctor(Const0("Bool"), 0, 0)) @@ ("Bool.false" :> Ctor(Const0("Bool"), 0, 0))
  @@ ("double" :> Defn(<<>>, Pi(N, N), Lam(N, Add(V(0), V(0))), <<"regular", 2>>))
  @@ ("twice"  :> Defn(<<>>, Pi(N, N), Lam(N, Add(V(0), V(0))), <<"regular", 2>>))

(* Tr : Prop, with one constructor without fields: rule K.                 *)
TrMotive == Pi(Tr, SortU)
TrInfos ==
  [Tr |-> Ind(Srt(LZero), [NoCaps EXCEPT !.rule_k = TRUE, !.sort_z = IfAllZero(<<>>), !.ctors = <<"Tr.intro">>]),
   h  |-> Type0(Tr),
   k1 |-> Type0(App(Lam(Prop, Pi(N, V(1))), Tr)), k2 |-> Type0(App(Lam(Prop, Pi(N, V(1))), Tr)),
   id |-> Defn(<<>>, Pi(Prop, Prop), Lam(Prop, V(0)), <<"abbrev">>),
   k3 |-> Type0(Ap1("id", Tr)), k4 |-> Type0(Ap1("id", Tr))]
  @@ ("Tr.intro" :> Ctor(Tr, 0, 0))
  @@ ("Tr.rec" :> Rec(Pi(TrMotive, Pi(App(V(0), Const0("Tr.intro")), Pi(Tr, App(V(2), V(0))))), 2,
        <<[Plain EXCEPT !.k = TRUE] @@
          [ctor |-> "Tr.intro", nfields |-> 0,
           rhs |-> Lam(TrMotive, Lam(App(V(0), Const0("Tr.intro")), V(0)))]>>))

(* And, whose recursor eliminates into every sort.                         *)
AndMotive == Pi(Conj(V(1), V(0)), SortU)
AndMinor  == Pi(V(2), Pi(V(2), App(V(2), Ap4(Const0("And.intro"), V(4), V(3), V(1), V(0)))))
AndInfos ==
  [And |-> Ind(Pi(Prop, Pi(Prop, Prop)),
               [NoCaps EXCEPT !.sort_z = IfAllZero(<<>>), !.nparams = 2, !.ctors = <<"And.intro">>]),
   hh  |-> Type0(Conj(Tr, Tr))]
  @@ ("And.intro" :> Ctor(Pi(Prop, Pi(Prop, Pi(V(1), Pi(V(1), Conj(V(3), V(2)))))), 2, 2))
  @@ ("And.rec" :> Rec(Pi(Prop, Pi(Prop, Pi(AndMotive, Pi(AndMinor, Pi(Conj(V(3), V(2)), App(V(2), V(0))))))), 4,
        <<[Plain EXCEPT !.ctor_params = 2] @@
          [ctor |-> "And.intro", nfields |-> 2,
           rhs |-> Lam(Prop, Lam(Prop, Lam(AndMotive, Lam(AndMinor,
                     Lam(V(3), Lam(V(3), App(App(V(2), V(1)), V(0))))))))]>>))

(* Box = a number with a proof about it; One = a unit.                     *)
Holds(e)  == Ap1("Q", e)
BoxMotive == Pi(Box, SortU)
BoxMinor  == Pi(N, Pi(Holds(V(0)), App(V(2), Ap2("Box.mk", V(1), V(0)))))
BoxInfos ==
  [Box |-> Ind(SortOne, [NoCaps EXCEPT !.eta = TRUE, !.eta_ctor = "Box.mk", !.eta_fields = 2, !.ctors = <<"Box.mk">>]),
   Q   |-> Type0(Pi(N, Prop)),
   b   |-> Type0(Box),
   q3  |-> Type0(Holds(Lit(3))),
   q   |-> Type0(Pi(N, Holds(V(0)))),
   use |-> Type0(Pi(N, Pi(Holds(Ap2("Nat.gcd", App(Lam(N, Lit(3)), V(0)), Lit(6))), N))),
   One |-> Ind(SortOne, [NoCaps EXCEPT !.unitlike = TRUE, !.ctors = <<"One.star">>]),
   o1  |-> Type0(Const0("One")), o2 |-> Type0(Const0("One"))]
  @@ ("One.star" :> Ctor(Const0("One"), 0, 0))
  @@ ("Box.mk" :> Ctor(Pi(N, Pi(Holds(V(0)), Box)), 0, 2))
  @@ ("Box.rec" :> Rec(Pi(BoxMotive, Pi(BoxMinor, Pi(Box, App(V(2), V(0))))), 2,
        <<[Plain EXCEPT !.eta = TRUE] @@
          [ctor |-> "Box.mk", nfields |-> 2,
           rhs |-> Lam(BoxMotive, Lam(BoxMinor, Lam(N, Lam(Holds(V(0)), App(App(V(2), V(1)), V(0))))))]>>))
  @@ [boxA |-> Defn(<<>>, Box, Ap2("Box.mk", Lit(3), Const0("q3")), <<"regular", 1>>),
      boxB |-> Defn(<<>>, Box, Ap2("Box.mk", Add(Lit(1), Lit(2)), Ap1("q", Lit(3))), <<"regular", 2>>)]
  @@ ("eagerReduce" :> Defn(<<"u">>, Pi(SortU, Pi(V(0), V(1))), Lam(SortU, Lam(V(0), V(0))), <<"abbrev">>))

(* Ex n = "n is the index of a proof": an indexed family in Prop with one  *)
(* constructor.                                                            *)
Ex(e)    == Ap1("Ex", e)
ExMotive == Pi(N, Pi(Ex(V(0)), SortU))
ExMinor  == Pi(N, Pi(Holds(V(0)), App(App(V(2), V(1)), Ap2("Ex.mk", V(1), V(0)))))
ExInfos ==
  [Ex  |-> Ind(Pi(N, Prop), [NoCaps EXCEPT !.sort_z = IfAllZero(<<>>), !.ctors = <<"Ex.mk">>]),
   ex  |-> Type0(Ex(Lit(3)))]
  @@ ("Ex.mk" :> Ctor(Pi(N, Pi(Holds(V(0)), Ex(V(1)))), 0, 2))
  @@ ("Ex.rec" :> [Rec(Pi(ExMotive, Pi(ExMinor, Pi(N, Pi(Ex(V(0)), App(App(V(3), V(1)), V(0)))))), 3,
        <<Plain @@ [ctor |-> "Ex.mk", nfields |-> 2,
           rhs |-> Lam(ExMotive, Lam(ExMinor, Lam(N, Lam(Holds(V(0)), App(App(V(2), V(1)), V(0))))))]>>)
      EXCEPT !.rp = 2])

(* Strings: what the expansion of a literal needs.                         *)
Char == Const0("Char")
ListOf(a) == App(Cnst("List", <<LParam("u")>>), a)
TypeU == Srt(LSucc(LParam("u")))
StrInfos ==
  [Char |-> Ind(SortOne, NoCaps), String |-> Ind(SortOne, NoCaps),
   List |-> [Ind(Pi(TypeU, TypeU), [NoCaps EXCEPT !.nparams = 1]) EXCEPT !.lps = <<"u">>]]
  @@ ("Char.ofNat" :> Type0(Pi(N, Char)))
  @@ ("String.ofList" :> Ctor(Pi(App(Cnst("List", <<LZero>>), Char), Const0("String")), 0, 1))
  @@ ("List.nil"  :> [Ctor(Pi(TypeU, ListOf(V(0))), 1, 0) EXCEPT !.lps = <<"u">>])
  @@ ("List.cons" :> [Ctor(Pi(TypeU, Pi(V(0), Pi(ListOf(V(1)), ListOf(V(2))))), 1, 2) EXCEPT !.lps = <<"u">>])

Entry(ctor, np, nf, body, fs, ss) ==
  [lps |-> <<>>, num_params |-> np, ctor |-> ctor, num_fields |-> nf, body |-> body,
   field_sort |-> fs, struct_sort |-> ss]
Env == [infos |-> NatInfos @@ TrInfos @@ AndInfos @@ BoxInfos @@ ExInfos @@ StrInfos,
        projs |-> (<<"Box", 0>> :> Entry("Box.mk", 0, 2, N, LOne, LOne))
               @@ (<<"Box", 1>> :> Entry("Box.mk", 0, 2, Holds(Prj("Box", 0, V(0))), LZero, LOne))
               @@ (<<"And", 0>> :> Entry("And.intro", 2, 2, V(2), LZero, LZero))
               @@ (<<"And", 1>> :> Entry("And.intro", 2, 2, V(1), LZero, LZero))]
-----------------------------------------------------------------------------
(* The questions.  The two uses of q3 differ in eagerReduce only: only     *)
(* there is a number operation on an open term computed by a comparison.   *)
Infer(e)    == <<"infer", e>>
Whnf(e)     == <<"whnf", e>>
Equal(a, b) == <<"defeq", a, b>>

Use(p)      == Lam(N, Ap2("use", V(0), p))
Eager(ty, e) == App(App(Cnst("eagerReduce", <<LZero>>), ty), e)
AndRec(p)   == App(Ap4(Cnst("And.rec", <<LOne>>), Tr, Tr, ToNat(Conj(Tr, Tr)), Lam(Tr, Lam(Tr, Lit(2)))), p)
PlainUse == Infer(Use(Const0("q3")))
Queries == {
  Infer(Succ(Const0("h"))),                                        \* ill-typed
  PlainUse,
  Infer(Use(Eager(Holds(Lit(3)), Const0("q3")))),
  Infer(Lam(SortU, Lam(V(0), V(0)))),
  Equal(Lam(N, Add(V(0), Lit(2))), Lam(N, Succ(Succ(V(0))))),
  Equal(Ap1("double", Lit(2)), Ap1("twice", Succ(Succ(Lit(0))))),
  Equal(Ap1("double", Lit(2)), Lit(3)),
  Equal(Lam(Box, Ap2("Box.mk", Prj("Box", 0, V(0)), Prj("Box", 1, V(0)))), Lam(Box, V(0))),
  Equal(Ap2("Box.mk", Lit(3), Const0("q3")), Ap2("Box.mk", Lit(3), Ap1("q", Lit(3)))),
  Whnf(Ap3(Cnst("Box.rec", <<LOne>>), ToNat(Box), Lam(N, Lam(Holds(V(0)), V(1))), Const0("b"))),
  Whnf(Ap3(Cnst("Tr.rec", <<LOne>>), ToNat(Tr), Lit(3), Const0("h"))),
  Equal(AndRec(Const0("hh")), AndRec(Ap4(Const0("And.intro"), Tr, Tr, Const0("h"), Const0("Tr.intro")))),
  Equal(Const0("o1"), Const0("o2")),
  Infer(LetE(N, Lit(2), Ap1("q", Add(V(0), V(0))))),
  Infer(Pi(SortU, Pi(V(0), Pi(V(1), Srt(LParam("u")))))),
  Infer(Prj("One", 0, Const0("o1"))),                              \* ill-typed
  Equal(Pi(N, Pi(N, Holds(Ap1("double", V(0))))), Pi(N, Pi(N, Holds(Ap1("twice", V(0)))))),
  Equal(Ap1("double", App(Const0("g"), Lit(2))), Ap1("double", App(Const0("g"), Succ(Lit(1))))),
  Equal(Prj("Box", 0, Const0("boxA")), Prj("Box", 0, Const0("boxB"))),
  Equal(Lam(N, App(Const0("g"), V(0))), Const0("g")),
  Equal(Ap1("isz", Ap1("double", Lit(0))), Const0("Bool.true")),
  Equal(Const0("k1"), Const0("k2")),
  Equal(Const0("k3"), Const0("k4")),
  Whnf(Ap3(Cnst("Tr.rec", <<LOne>>), ToNat(Tr), Lit(3), App(Lam(N, Const0("h")), Lit(0)))),
  Whnf(Ap4(Cnst("Ex.rec", <<LOne>>), Lam(N, ToNat(Ex(V(0)))), Lam(N, Lam(Holds(V(0)), V(1))),
           Add(Lit(1), Lit(2)), Ap2("Ex.mk", Lit(3), Const0("q3")))),
  Equal(<<"str", <<97>>>>, Ap1("String.ofList", App(App(App(Cnst("List.cons", <<LZero>>), Char),
           Ap1("Char.ofNat", Lit(97))), App(Cnst("List.nil", <<LZero>>), Char)))) }

VARIABLES caches, asked, answer, mode
vars == <<caches, asked, answer, mode>>

None == <<"none">>
Ctx(m) == [env |-> Env, verified |-> m, eager |-> FALSE, fuel |-> Fuel]
Ask(qu, c, m) ==
  Knot(c, Ctx(m), qu[1] \o "_c", 0, IF qu[1] = "defeq" THEN <<qu[2], qu[3]>> ELSE qu[2])

Init == caches = EmptyCaches /\ asked = {} /\ answer = None /\ mode \in BOOLEAN

(* An error ends the record.                                               *)
Query(qu) ==
  /\ qu \notin asked /\ Cardinality(asked) < MaxQueries
  /\ answer # None => answer[2]
  /\ \E r \in {Ask(qu, caches, mode)} : caches' = r.c /\ answer' = <<qu, r.ok, r.v>>
  /\ asked' = asked \cup {qu}
  /\ UNCHANGED mode
LeaveRecord ==
  /\ asked # {}
  /\ caches' = EmptyCaches /\ asked' = {} /\ answer' = None
  /\ UNCHANGED mode
Next == (\E qu \in Queries : Query(qu)) \/ LeaveRecord
Spec == Init /\ [][Next]_vars
-----------------------------------------------------------------------------
(* What every question of the set must answer: by the rules, but for the   *)
(* use that needs eagerReduce.                                             *)
Expected(qu) ==
  CASE qu[1] = "infer" -> IF qu # PlainUse /\ WellTyped(Env, 0, qu[2]) THEN <<TRUE, NF(Env, 0, TType(Env, 0, qu[2]))>> ELSE <<FALSE>>
    [] qu[1] = "whnf"  -> <<TRUE, NF(Env, 0, qu[2])>>
    [] qu[1] = "defeq" -> <<TRUE, TEqual(Env, 0, <<qu[2], qu[3]>>)>>
Verdicts == [qu \in Queries |-> Expected(qu)]

(* The core answers as the typing rules say, whatever it was asked before  *)
(* in the record and in either mode: it rejects exactly the ill-typed      *)
(* terms and decides conversion both ways; what only eagerReduce may       *)
(* prove is never accepted without it, the eager use asked first or not.   *)
AnswersByTheRules ==
  answer # None =>
    LET v == Verdicts[answer[1]]
    IN  /\ answer[2] = v[1]
        /\ answer[2] => v[2] = IF answer[1][1] = "defeq" THEN answer[3] ELSE NF(Env, 0, answer[3])

(* Every entry a question adds to a memo is what its own grade answers     *)
(* with no memo at all, at a depth the key alone determines: the checked   *)
(* and the unchecked inference, the cheap and the full reduction and the   *)
(* eager lane never answer for each other, and the depth at which an open  *)
(* term was first met does not show.                                       *)
ScopeOf(e) == LET ls == {f[2] + 1 : f \in FVarLeaves(e)} IN IF ls = {} THEN 0 ELSE Max(ls)
ScopeIn(f, k) == IF f = "defeq_c" THEN Max({ScopeOf(k[1]), ScopeOf(k[2])}) ELSE ScopeOf(k)
Agrees(r, v)  == r.ok /\ r.v = v
ColdAgrees(f, x, k, v) == Agrees(Knot(EmptyCaches, x, f, ScopeIn(f, k), k), v)
Lane(c, eager)   == IF eager THEN c.eager_memos ELSE c
NewKeys(f, eager) == DOMAIN Lane(caches', eager)[f] \ DOMAIN Lane(caches, eager)[f]
MemosTransparent ==
  [][\A f \in ModeFields, eager \in BOOLEAN : \A k \in NewKeys(f, eager) :
       ColdAgrees(f, [Ctx(mode) EXCEPT !.eager = eager], k, Lane(caches', eager)[f][k])]_vars

(* Every entry a question adds, on the open terms met inside it as on the  *)
(* question itself, is right by the rules: reduction keeps the normal      *)
(* form, inference in either grade gives the term's type, and what is      *)
(* recorded as equal, in whatever lane, is.                                *)
RightByRules(f, k, v) ==
  LET same == CASE f = "defeq_c" -> k
                [] f \in {"infer_c", "infer_io_c"} -> <<v, TType(Env, ScopeOf(k), k)>>
                [] OTHER -> <<k, v>>
  IN  (f = "defeq_c" => v) => TEqual(Env, ScopeIn(f, k), same)
EntriesByTheRules ==
  [][\A f \in ModeFields, eager \in BOOLEAN : \A k \in NewKeys(f, eager) :
       RightByRules(f, k, Lane(caches', eager)[f][k])]_vars
==============================================================================
