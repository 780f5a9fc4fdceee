---------------------------- MODULE Positivity ----------------------------
(***************************************************************************)
(* What every declaration's header must satisfy before it is stored, and   *)
(* the telescopes the installers open (arena/checker_base.rs); and strict  *)
(* positivity of a block of inductive types, nested occurrences included   *)
(* (arena/inductives/positivity.rs).  The core's judgements are taken from *)
(* TypingRules, by which module Core answers (run "core").  A rejected     *)
(* declaration ends its record whatever the error, so errors are not told  *)
(* apart here.                                                             *)
(*                                                                         *)
(* The block's parameters are the free variables 0 .. n_p - 1.  While a    *)
(* constructor is walked, an occurrence of a member applied to exactly     *)
(* these parameters is a hole: the free variable n_p + m.  A container     *)
(* (an inductive type applied to arguments with holes in them) is walked   *)
(* in a frame of its own, with one more hole per member of the container's *)
(* block.  Memo tables of the walks are transparent and left out.          *)
(*                                                                         *)
(* x is the context [env, names, n_p, params, sort, lvls]; a hole is       *)
(* [c, lvls, ds, base]; ns is the walk's state [keys, active, nfs]: the    *)
(* containers accepted, those being walked, the constructors in normal     *)
(* form.  A field's kind is <<"ordinary">>, <<"recursive", m>>,            *)
(* <<"reflexive", m>>, <<"nested", under a binder>> or <<"inprogress">>.   *)
(***************************************************************************)
EXTENDS TypingRules

-----------------------------------------------------------------------------
(* Headers and telescopes.                                                 *)
Listed(xs, x) == \E i \in DOMAIN xs : xs[i] = x
NameNodup(ns) == \A i, j \in DOMAIN ns : ns[i] = ns[j] => i = j

(* The core, asked: the sort a term is, at depth d (None when it is none); *)
(* do two well-typed terms convert; are two levels equal.                  *)
ResultSort(env, d, s) == IF Is("sort", s) THEN <<s[2]>> ELSE <<>>
InferSort(env, d, t)  == IF WellTyped(env, d, t) THEN ResultSort(env, d, TSort(env, d, t)) ELSE <<>>
DefEq(env, d, a, b)   == TEqual(env, d, <<a, b>>)
LvlEq(u, v) == Meaning(u) = Meaning(v)

RECURSIVE AllLevelParamsDefined(_, _)
AllLevelParamsDefined(lps, e) ==
  CASE Is("sort", e)  -> AllParamsDefined(lps, e[2])
    [] Is("const", e) -> \A i \in DOMAIN e[3] : AllParamsDefined(lps, e[3][i])
    [] Is("fvar", e)  -> AllLevelParamsDefined(lps, e[3])
    [] OTHER -> \A i \in DOMAIN Kids(e) : AllLevelParamsDefined(lps, Kids(e)[i])

(* cv is a record with name, lps and ty.                                   *)
ConstantValGuards(env, cv) ==
  /\ ~Stored(env, cv.name) /\ cv.name \notin ReservedBasis
  /\ NameNodup(cv.lps)
  /\ LooseBounded(0, cv.ty) /\ ~HasFVar(cv.ty)
InstallHeaderTail(env, cv) == AllLevelParamsDefined(cv.lps, cv.ty) /\ ConstsResolve(env, cv.ty)
CheckConstantVal(env, cv) ==
  /\ ConstantValGuards(env, cv)
  /\ InstallHeaderTail(env, cv)
  /\ InferSort(env, 0, cv.ty) # <<>>

(* n binders opened at the free variables i, i + 1, ...: the variables and *)
(* the rest, or None.                                                      *)
RECURSIVE OpenPisAt(_, _, _, _)
OpenPisAt(n, e, i, fvs) ==
  IF n = 0 THEN <<[fvs |-> fvs, rest |-> e]>>
  ELSE IF ~Is("pi", e) THEN <<>>
  ELSE OpenPisAt(n - 1, Inst1(e[3], FVar(i, e[2])), i + 1, Append(fvs, FVar(i, e[2])))
OpenPis(n, e, i) == OpenPisAt(n, e, i, <<>>)
FVarTypeDs(fvs) == [i \in DOMAIN fvs |-> fvs[i][3]]

(* n binders stripped, left loose: their domains and the rest.             *)
RECURSIVE StripPisAt(_, _, _)
StripPisAt(n, e, doms) ==
  IF n = 0 THEN <<[doms |-> doms, rest |-> e]>>
  ELSE IF Is("pi", e) THEN StripPisAt(n - 1, e[3], Append(doms, e[2])) ELSE <<>>
StripPis(n, e) == StripPisAt(n, e, <<>>)

(* Every binder stripped.                                                  *)
RECURSIVE PiBinders(_, _)
PiBinders(e, doms) ==
  IF Is("pi", e) THEN PiBinders(e[3], Append(doms, e[2])) ELSE [doms |-> doms, rest |-> e]

(* The other direction: a telescope of domains over variables i .. closed  *)
(* over a body, outermost first.                                           *)
RECURSIVE CloseTelescope(_, _, _)
CloseTelescope(bs, i, body) ==
  IF bs = <<>> THEN body
  ELSE Pi(Head(bs), AbstractRange(CloseTelescope(Tail(bs), i + 1, body), i, 1))

(* The leading binders instantiated.                                       *)
InstPisWith(args, e) == PiResidual(e, args)

(* A name used anywhere, as a structure of a projection or in a variable's *)
(* type as well.                                                           *)
RECURSIVE MentionsAny(_, _)
MentionsAny(names, e) ==
  CASE Is("const", e) -> Listed(names, e[2])
    [] Is("fvar", e)  -> MentionsAny(names, e[3])
    [] OTHER -> \/ Is("proj", e) /\ Listed(names, e[2])
                \/ \E i \in DOMAIN Kids(e) : MentionsAny(names, Kids(e)[i])

-----------------------------------------------------------------------------
(* Strict positivity.                                                      *)
RECURSIVE NestOcc(_, _, _, _)
NestOcc(names, lo, hi, e) ==
  CASE Is("fvar", e)  -> lo <= e[2] /\ e[2] < hi
    [] Is("const", e) -> Listed(names, e[2])
    [] OTHER -> \E i \in DOMAIN Kids(e) : NestOcc(names, lo, hi, Kids(e)[i])
NestOccAny(names, lo, hi, xs) == \E i \in DOMAIN xs : NestOcc(names, lo, hi, xs[i])

HiAt(x, nf) == x.n_p + Len(x.names) + nf
Occurs(x, hi, e)     == NestOcc(x.names, x.n_p, hi, e)
OccursAny(x, hi, es) == NestOccAny(x.names, x.n_p, hi, es)

(* The fuel of a walk is above the depth of the term it starts at.         *)
FuelSlack == 1024
RECURSIVE ExprDepth(_)
ExprDepth(e) ==
  IF Kids(e) = <<>> THEN 1 ELSE 1 + Max({ExprDepth(Kids(e)[i]) : i \in DOMAIN Kids(e)})
WhnfWalkFuel(e) == ExprDepth(e) + FuelSlack

(* What a container offers: its number of parameters and the constructors  *)
(* that build it, with their numbers of fields.                            *)
NestCtorEntry(env, c, n) ==
  LET ci == env.infos[n]
      q  == StripPis(ci.np + ci.nf, ci.ty)
  IN  IsKind(env, n, "ctor") /\ q # <<>> /\ IsConstNamed(c, GetAppFn(q[1].rest))
NestContainer(env, c) ==
  IF ~IsKind(env, c, "ind") THEN <<>>
  ELSE LET caps == env.infos[c].caps
           cs   == SelectSeq(caps.ctors, LAMBDA n : NestCtorEntry(env, c, n))
       IN  <<[n_pc |-> IF cs = <<>> THEN caps.nparams ELSE env.infos[cs[1]].np,
              ctors |-> [i \in DOMAIN cs |-> [cv |-> env.infos[cs[i]] @@ [name |-> cs[i]],
                                              nf |-> env.infos[cs[i]].nf]]]>>

RootHole(x, j) == [c |-> x.names[j + 1], lvls |-> x.lvls, ds |-> x.params, base |-> x.n_p]
NestHoleAt(x, prog, i) ==
  LET j == i - x.n_p
      k == Len(x.names)
  IN  CASE 0 <= j /\ j < k              -> <<RootHole(x, j)>>
        [] k <= j /\ j - k < Len(prog)  -> <<prog[j - k + 1]>>
        [] OTHER                        -> <<>>

(* Free variables replaced by f, a sequence of Options counted from        *)
(* variable 0; the replacement is not entered again.                       *)
RECURSIVE ReplaceFVars(_, _)
ReplaceFVars(f, e) ==
  IF Is("fvar", e) THEN IF e[2] < Len(f) /\ f[e[2] + 1] # <<>> THEN f[e[2] + 1][1] ELSE e
  ELSE IF Kids(e) = <<>> THEN e
  ELSE Rebuild(e, [i \in DOMAIN Kids(e) |-> ReplaceFVars(f, Kids(e)[i])])
ReplaceFVarsList(f, es) == [i \in DOMAIN es |-> ReplaceFVars(f, es[i])]
Somes(xs)         == [i \in DOMAIN xs |-> <<xs[i]>>]
KeyMap(ds, holes) == Somes(ds) \o Somes(holes)

(* Holes back to the types they stand for: a member at the parameters, a   *)
(* container at its arguments, in which earlier holes are replaced first.  *)
RECURSIVE HoleImg(_, _, _)
HoleImg(x, prog, n) ==
  IF n = 0
  THEN [i \in 1 .. HiAt(x, 0) |->
          IF i <= x.n_p THEN <<>> ELSE <<MkAppN(Cnst(x.names[i - x.n_p], x.lvls), x.params)>>]
  ELSE LET below == HoleImg(x, prog, n - 1)
           h     == prog[n]
       IN  Append(below, <<MkAppN(Cnst(h.c, h.lvls), ReplaceFVarsList(below, h.ds))>>)

(* Exactly c us v_0 .. v_{n-1}, each v_i the variable i, becomes the hole  *)
(* n + m when c is names[m].                                               *)
IsPhApp(e, n) ==
  LET args == GetAppArgs(e)
  IN  /\ Is("const", GetAppFn(e)) /\ Len(args) = n
      /\ \A i \in DOMAIN args : Is("fvar", args[i]) /\ args[i][2] = i - 1
Erased(i) == FVar(i, Srt(LZero))
AppHole(names, us, n, e) ==
  IF IsPhApp(e, n) /\ HeadLevels(e) = us /\ Listed(names, HeadName(e))
  THEN <<Erased(n + SelectInSeq(names, LAMBDA c : c = HeadName(e)) - 1)>> ELSE <<>>
RECURSIVE ReplaceApps(_, _, _, _)
ReplaceApps(names, us, n, e) ==
  LET hole == AppHole(names, us, n, e)
  IN  IF e[1] \in {"app", "const"} /\ hole # <<>> THEN hole[1]
      ELSE IF Kids(e) = <<>> THEN e
      ELSE Rebuild(e, [i \in DOMAIN Kids(e) |-> ReplaceApps(names, us, n, Kids(e)[i])])

NestCanonCrest(names, us, n, cty) ==
  LET t == InstPisWith([i \in 1 .. n |-> Erased(i - 1)], cty)
  IN  IF t = <<>> THEN <<>> ELSE <<ReplaceApps(names, us, n, t[1])>>
NestCrest(names, us, ds, holes, cty) ==
  LET c == NestCanonCrest(names, us, Len(ds), cty)
  IN  IF c = <<>> THEN <<>> ELSE <<ReplaceFVars(KeyMap(ds, holes), c[1])>>

(* A container's type at its arguments: over indices that do not mention   *)
(* the block, a sort equal to the block's.                                 *)
InstTypeSort(x, hi, ty, tele) ==
  IF /\ Is("sort", tele.rest)
     /\ ~OccursAny(x, hi, tele.doms)
     /\ LvlEq(tele.rest[2], x.sort)
  THEN <<[n_i |-> Len(tele.doms), ty |-> ty]>> ELSE <<>>
InstTypeAt(x, hi, key, cv) ==
  LET ty == InstPisWith(key.ds, InstLp(cv.lps, key.lvls, cv.ty))
  IN  IF \/ Len(key.lvls) # Len(cv.lps)
         \/ StripPis(Len(key.ds), cv.ty) = <<>>
         \/ ty = <<>>
      THEN <<>> ELSE InstTypeSort(x, hi, ty[1], PiBinders(ty[1], <<>>))
NestInstType(x, hi, key) ==
  IF IsKind(x.env, key.c, "ind") THEN InstTypeAt(x, hi, key, x.env.infos[key.c]) ELSE <<>>
NestArity(env, c) == IF IsKind(env, c, "ind") THEN Len(PiBinders(env.infos[c].ty, <<>>).doms) ELSE 0

(* Is variable i of a telescope, counted from outside, used after it.      *)
RECURSIVE LooseAt(_, _)
LooseAt(k, e) ==
  IF Is("bvar", e) THEN e[2] = k
  ELSE \E i \in DOMAIN Kids(e) : LooseAt(k + Opened(e, i), Kids(e)[i])
StructUsedLater(cty, n_p, j) ==
  LET q == StripPis(n_p + j + 1, cty) IN q # <<>> /\ LooseAt(0, q[1].rest)
NestU4(kinds, closed) ==
  \E i \in DOMAIN kinds : kinds[i] # <<"ordinary">> /\ StructUsedLater(closed, 0, i - 1)

NestResOk(x, hi, cur) == Is("fvar", GetAppFn(cur)) /\ ~OccursAny(x, hi, GetAppArgs(cur))

(* The members of a container's block, the container itself first.         *)
RECURSIVE Distinct(_, _)
Distinct(ns, out) ==
  IF ns = <<>> THEN out
  ELSE Distinct(Tail(ns), IF Listed(out, Head(ns)) THEN out ELSE Append(out, Head(ns)))
FrameNames(env, c) == Distinct(env.infos[c].caps.all, <<c>>)
AddKeys(keys, new) == keys \o SelectSeq(new, LAMBDA k : ~Listed(keys, k))

FVarsBelow(hi, e) == \A f \in FVarLeaves(e) : f[2] < hi
ClosedKey(x, ds)  == \A i \in DOMAIN ds : FVarsBelow(HiAt(x, 0), ds[i])
ParamsClosed(hi, ds) == \A i \in DOMAIN ds : LooseBounded(0, ds[i]) /\ FVarsBelow(hi, ds[i])
-----------------------------------------------------------------------------
(* The walk.  A step that rejects answers None.                            *)
RECURSIVE NestPos(_, _, _, _, _, _, _), NestFields(_, _, _, _, _, _), NestCtors(_, _, _, _, _)

FieldIs(kind, term, ns) == <<[kind |-> kind, term |-> term, ns |-> ns]>>

(* The fields of a constructor, each opened at the next variable.          *)
FieldsNext(x, fuel, fr, n, cur, acc, r) ==
  IF r = <<>> THEN <<>>
  ELSE NestFields(x, fuel, fr, n - 1, Inst1(cur[3], FVar(fr.hi + Len(acc.kinds), cur[2])),
                  [ns |-> r[1].ns, kinds |-> Append(acc.kinds, r[1].kind), nds |-> Append(acc.nds, r[1].term)])
NestFields(x, fuel, fr, n, cur, acc) ==
  IF n = 0 THEN <<acc @@ [cur |-> cur]>>
  ELSE IF ~Is("pi", cur) THEN <<>>
  ELSE FieldsNext(x, fuel, fr, n, cur, acc,
                  NestPos(x, fuel, fr.prog, fr.hi + Len(acc.kinds), 0, cur[2], acc.ns))

(* A constructor of the frame fr = [root, prog, hi, us, ds, names, holes]: *)
(* its fields positive, none with a hole used later, its result a hole at  *)
(* arguments without one.                                                  *)
CtorNf(x, fr, cv, closed) ==
  LET f == HoleImg(x, fr.prog, Len(fr.prog))
  IN  [ctor |-> cv.name, lvls |-> fr.us, ds |-> ReplaceFVarsList(f, fr.ds), ty |-> ReplaceFVars(f, closed)]
CtorDone(x, fr, cv, r, closed) ==
  IF NestU4(r.kinds, closed) \/ ~NestResOk(x, fr.hi, r.cur) THEN <<>>
  ELSE <<[out |-> [kinds |-> r.kinds, closed |-> closed],
          ns  |-> [r.ns EXCEPT !.nfs = Append(@, CtorNf(x, fr, cv, closed))]]>>
CtorWalked(x, fr, cv, r) ==
  IF r = <<>> THEN <<>> ELSE CtorDone(x, fr, cv, r[1], CloseTelescope(r[1].nds, fr.hi, r[1].cur))
CtorWalk(x, fuel, fr, c, crest, ns) ==
  IF ~NameNodup(c.cv.lps) \/ crest = <<>> THEN <<>>
  ELSE IF InferSort(x.env, fr.hi, crest[1]) = <<>> THEN <<>>
  ELSE CtorWalked(x, fr, c.cv,
         NestFields(x, IF fr.root THEN WhnfWalkFuel(crest[1]) ELSE fuel, fr, c.nf, crest[1],
                    [ns |-> ns, kinds |-> <<>>, nds |-> <<>>]))
CtorsNext(x, fuel, fr, cs, outs, r) ==
  IF r = <<>> THEN <<>> ELSE NestCtors(x, fuel, fr, Tail(cs), [outs |-> Append(outs, r[1].out), ns |-> r[1].ns])
NestCtors(x, fuel, fr, cs, acc) ==
  IF cs = <<>> THEN <<acc>>
  ELSE CtorsNext(x, fuel, fr, cs, acc.outs,
         CtorWalk(x, fuel, fr, cs[1],
                  NestCrest(fr.names, fr.us, fr.ds, fr.holes, InstLp(cs[1].cv.lps, fr.us, cs[1].cv.ty)), acc.ns))

(* A frame: the container's block, with a hole for each member.            *)
GroupCtors(env, names) == FlattenSeq([i \in DOMAIN names |-> NestContainer(env, names[i])[1].ctors])
GroupParamsOk(env, n_pc, names) ==
  \A i \in DOMAIN names :
    LET con == NestContainer(env, names[i])
    IN  con # <<>> /\ (con[1].n_pc = n_pc \/ con[1].ctors = <<>>)
NestFrame(x, fuel, wp, us, ds, n_pc, names, tys, ns) ==
  LET hw == HiAt(x, Len(wp))
      key(n) == [c |-> n, lvls |-> us, ds |-> ds, base |-> hw]
  IN  IF ~WellTyped(x.env, hw, MkAppN(Cnst(names[1], us), ds)) \/ ~GroupParamsOk(x.env, n_pc, names) THEN <<>>
      ELSE NestCtors(x, fuel,
             [root |-> FALSE, prog |-> wp \o [i \in DOMAIN names |-> key(names[i])], hi |-> hw + Len(names),
              us |-> us, ds |-> ds, names |-> names,
              holes |-> [i \in DOMAIN names |-> FVar(hw + i - 1, tys[i])]],
             GroupCtors(x.env, names), [outs |-> <<>>, ns |-> ns])

(* A container met for the first time.  One whose arguments have no hole   *)
(* of a container in them is walked from the block's own holes and kept.   *)
ContAccepted(x, kb, ds, keys, act, r) ==
  IF r = <<>> THEN <<>>
  ELSE FieldIs(<<"nested", kb # 0>>, <<>>,
         [r[1].ns EXCEPT !.keys = IF ClosedKey(x, ds) THEN AddKeys(@, keys) ELSE @, !.active = act])
ContGroup(x, fuel, wp, kb, us, ds, n_pc, names, tys, ns) ==
  LET keys == [i \in DOMAIN names |-> [c |-> names[i], lvls |-> us, ds |-> ds]]
  IN  IF \E i \in DOMAIN tys : tys[i] = <<>> THEN <<>>
      ELSE ContAccepted(x, kb, ds, keys, ns.active,
             NestFrame(x, fuel, wp, us, ds, n_pc, names, [i \in DOMAIN tys |-> tys[i][1].ty],
                       [ns EXCEPT !.active = keys \o @]))
ContNew(x, fuel, prog, kb, c, us, ds, n_pc, names, ns) ==
  LET wp == IF ClosedKey(x, ds) THEN <<>> ELSE prog
  IN  ContGroup(x, fuel, wp, kb, us, ds, n_pc, names,
        [i \in DOMAIN names |-> NestInstType(x, HiAt(x, Len(wp)), [c |-> names[i], lvls |-> us, ds |-> ds])], ns)
KeyKnownByName(x, key, ns) ==             \* mutant: at whatever arguments
  ClosedKey(x, key.ds) /\ \E i \in DOMAIN ns.keys : ns.keys[i].c = key.c
KeyKnown(x, key, ns) == ClosedKey(x, key.ds) /\ Listed(ns.keys, key)
NestContKey(x, fuel, prog, kb, key, n_pc, ns) ==
  CASE Listed(ns.active, key) -> <<>>
    [] ~Listed(ns.active, key) /\ KeyKnown(x, key, ns) -> FieldIs(<<"nested", kb # 0>>, <<>>, ns)
    [] OTHER -> ContNew(x, fuel, prog, kb, key.c, key.lvls, key.ds, n_pc, FrameNames(x.env, key.c), ns)

NestContTyped(x, fuel, prog, kb, key, n_pc, nargs, at, ns) ==
  IF at = <<>> \/ nargs # n_pc + at[1].n_i THEN <<>> ELSE NestContKey(x, fuel, prog, kb, key, n_pc, ns)
NestCont(x, fuel, prog, kb, c, us, args, con, ns) ==
  LET hp == HiAt(x, Len(prog))
      n_pc == con[1].n_pc
      ds == TakeN(args, n_pc)
  IN  IF \/ con = <<>> \/ Len(args) < n_pc
         \/ OccursAny(x, hp, DropN(args, n_pc))
         \/ c = "Quot" \/ ~ParamsClosed(hp, ds)
      THEN <<>>
      ELSE NestContTyped(x, fuel, prog, kb, [c |-> c, lvls |-> us, ds |-> ds], n_pc, Len(args),
                         NestInstType(x, hp, [c |-> c, lvls |-> us, ds |-> ds]), ns)

(* One field's type, reduced: no hole in it, a function whose domains have *)
(* none, a hole at arguments with none, or a container.                    *)
HoleKind(x, kb, i) ==
  IF i >= HiAt(x, 0) THEN <<"inprogress">>
  ELSE <<IF kb = 0 THEN "recursive" ELSE "reflexive", i - x.n_p>>
NestPosHole(x, prog, kb, i, args, w, h, ns) ==
  IF h = <<>> \/ OccursAny(x, HiAt(x, Len(prog)), args) THEN <<>>
  ELSE IF Len(args) + Len(h[1].ds) # NestArity(x.env, h[1].c) THEN <<>>
  ELSE FieldIs(HoleKind(x, kb, i), w, ns)
NegativeOk(x, prog, dom) == FALSE          \* mutant: domains not looked at
Negative(x, prog, dom) == Occurs(x, HiAt(x, Len(prog)), dom)
Under(w, dep, r) ==
  IF r = <<>> THEN <<>> ELSE FieldIs(r[1].kind, Pi(w[2], AbstractRange(r[1].term, dep, 1)), r[1].ns)
WithTerm(w, r) == IF r = <<>> THEN <<>> ELSE FieldIs(r[1].kind, w, r[1].ns)
PosAtom(x, fuel, prog, kb, w, hd, args, ns) ==
  CASE Is("fvar", hd) -> NestPosHole(x, prog, kb, hd[2], args, w, NestHoleAt(x, prog, hd[2]), ns)
    [] Is("const", hd) /\ ~Listed(x.names, hd[2]) ->
         WithTerm(w, NestCont(x, fuel, prog, kb, hd[2], hd[3], args, NestContainer(x.env, hd[2]), ns))
    [] OTHER -> <<>>
PosWhnf(x, fuel, prog, dep, kb, e, w, ns) ==
  CASE ~Occurs(x, HiAt(x, Len(prog)), w) ->
         FieldIs(<<"ordinary">>, IF Occurs(x, HiAt(x, Len(prog)), e) THEN w ELSE e, ns)
    [] Occurs(x, HiAt(x, Len(prog)), w) /\ Is("pi", w) ->
         IF Negative(x, prog, w[2]) THEN <<>>
         ELSE Under(w, dep, NestPos(x, fuel, prog, dep + 1, kb + 1, Inst1(w[3], FVar(dep, w[2])), ns))
    [] OTHER -> PosAtom(x, fuel, prog, kb, w, GetAppFn(w), GetAppArgs(w), ns)
NestPos(x, fuel, prog, dep, kb, e, ns) ==
  IF fuel = 0 THEN <<>> ELSE PosWhnf(x, fuel - 1, prog, dep, kb, e, TWhnf(x.env, dep, e), ns)
-----------------------------------------------------------------------------
(* The block: members' types at the parameters, as holes; every member's   *)
(* occurrence at exactly the parameters; each member's constructors.       *)
NestHoles(x) ==
  LET ty(n) == InstPisWith(x.params, x.env.infos[n].ty)
  IN  IF \E i \in DOMAIN x.names : ~IsKind(x.env, x.names[i], "ind") \/ ty(x.names[i]) = <<>> THEN <<>>
      ELSE <<[i \in DOMAIN x.names |-> FVar(x.n_p + i - 1, ty(x.names[i])[1])]>>

PiDomsOcc(x, e) ==
  \E i \in 1 .. x.n_p : LET d == BinderDom(i - 1, e) IN d # <<>> /\ Occurs(x, HiAt(x, 0), d[1])
NestUniformOk(x, cv) ==
  LET crest == NestCanonCrest(x.names, x.lvls, x.n_p, InstLp(cv.lps, x.lvls, cv.ty))
  IN  ~PiDomsOcc(x, cv.ty) /\ crest # <<>> /\ ~NestOcc(x.names, 0, 0, crest[1])
NestUniform(x, ctorss) == \A i \in DOMAIN ctorss : \A j \in DOMAIN ctorss[i] : NestUniformOk(x, ctorss[i][j].cv)

NsEmpty == [keys |-> <<>>, active |-> <<>>, nfs |-> <<>>]
RECURSIVE NestRoot(_, _, _, _, _)
RootNext(x, holes, ctorss, outss, r) ==
  IF r = <<>> THEN <<>> ELSE NestRoot(x, holes, Tail(ctorss), Append(outss, r[1].outs), r[1].ns)
NestRoot(x, holes, ctorss, outss, ns) ==
  IF ctorss = <<>> THEN <<[outss |-> outss, ns |-> ns]>>
  ELSE RootNext(x, holes, ctorss, outss,
         NestCtors(x, 0, [root |-> TRUE, prog |-> <<>>, hi |-> HiAt(x, 0), us |-> x.lvls, ds |-> x.params,
                          names |-> x.names, holes |-> holes], ctorss[1], [outs |-> <<>>, ns |-> ns]))

(* The containers a recursor of the block names are walked too: a key of   *)
(* theirs is written with the members, here put back as holes.             *)
NestSeedParam(x, holes, d) == ReplaceFVars(KeyMap(x.params, holes), ReplaceApps(x.names, x.lvls, x.n_p, d))
NestSeedOf(x, holes, c, us, ds, n_pc) ==
  [key |-> [c |-> c, lvls |-> us, ds |-> [i \in DOMAIN ds |-> NestSeedParam(x, holes, ds[i])]], n_pc |-> n_pc]
SeedFuel(ds) == Max({FuelSlack} \cup {WhnfWalkFuel(ds[i]) : i \in DOMAIN ds})
SeedKey(x, s, ns, at) ==
  IF at = <<>> THEN <<>> ELSE NestContKey(x, SeedFuel(s.key.ds), <<>>, 0, s.key, s.n_pc, ns)
RECURSIVE NestSeeds(_, _, _)
SeedsNext(x, seeds, r) == IF r = <<>> THEN <<>> ELSE NestSeeds(x, Tail(seeds), r[1].ns)
NestSeeds(x, seeds, ns) ==
  IF seeds = <<>> THEN <<ns>>
  ELSE SeedsNext(x, seeds, SeedKey(x, seeds[1], ns, NestInstType(x, HiAt(x, 0), seeds[1].key)))
=============================================================================
