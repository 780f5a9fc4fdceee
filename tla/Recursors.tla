----------------------------- MODULE Recursors -----------------------------
(***************************************************************************)
(* The recursors of an inductive block (arena/inductives/class_read.rs,    *)
(* rec_check.rs, gen_rec.rs).  The declared ones say which families they   *)
(* eliminate: the classes.  Their types and rules are then generated from  *)
(* the constructors; a declared type must convert to the generated one,    *)
(* which is stored.                                                        *)
(*                                                                         *)
(* The variables 0 .. n_p - 1 are the parameters and n_p + s - 1 the slot  *)
(* s of the recursor type: a motive, or the minor premise of constructor   *)
(* cn of class c with its induction hypotheses ihs, each field i of class  *)
(* t.  A class is [ind, lvls, ds, n_pc, n_idx, ctors, member, nfs]: the    *)
(* family ind at the parameters ds.  g is the context [env, x, p, cvs,     *)
(* classes, slots, cls], cls the class of each declared recursor.          *)
(***************************************************************************)
EXTENDS BlockInstall

(* Reading the classes off the first recursor's type.                      *)
Motives(slots) == SelectSeq([s \in DOMAIN slots |-> s], LAMBDA s : slots[s].kind = "motive")
MotiveSlot(n_p, slots, c) == IF c \in DOMAIN Motives(slots) THEN n_p + Motives(slots)[c] - 1 ELSE n_p
HeadClass(n_p, slots, e) ==                  \* 0 when no motive heads e
  LET h == GetAppFn(e)
  IN  IF Is("fvar", h) THEN SelectInSeq(Motives(slots), LAMBDA s : n_p + s - 1 = h[2]) ELSE 0

Motive(ind, us, ds) == <<[kind |-> "motive", ind |-> ind, lvls |-> us, ds |-> ds]>>
ParamCount(p, env, ind) ==
  IF Listed(ShapeNames(p), ind) THEN p.n_p
  ELSE IF IsKind(env, ind, "ind") THEN env.infos[ind].caps.nparams ELSE 0
ReadMotive(p, env, doms) ==
  IF doms = <<>> THEN <<>>
  ELSE IF ~HeadConst(Last(doms)) THEN <<>>
  ELSE LET maj == Last(doms)
       IN  Motive(HeadName(maj), HeadLevels(maj), TakeN(GetAppArgs(maj), ParamCount(p, env, HeadName(maj))))

(* A field whose type ends in a motive is a hypothesis about the earlier   *)
(* field at the head of its last argument.                                 *)
IhOf(n_p, slots, d, ty) ==
  LET res  == PiResult(ty)
      c    == HeadClass(n_p, slots, res)
      args == GetAppArgs(res)
  IN  IF c = 0 \/ args = <<>> THEN <<>>
      ELSE LET f == GetAppFn(Last(args))
           IN  IF Is("fvar", f) /\ f[2] >= d THEN <<[i |-> f[2] - d + 1, t |-> c]>> ELSE <<>>
ReadMinor(n_p, slots, d, q) ==
  LET c    == HeadClass(n_p, slots, q[1].rest)
      args == GetAppArgs(q[1].rest)
  IN  IF c = 0 \/ args = <<>> THEN <<>>
      ELSE IF ~HeadConst(Last(args)) THEN <<>>
      ELSE <<[kind |-> "minor", c |-> c, cn |-> HeadName(Last(args)),
              ihs |-> FlattenSeq([i \in DOMAIN q[1].fvs |-> IhOf(n_p, slots, d, q[1].fvs[i][3])])]>>
ReadSlot(p, env, slots, d, dom) ==
  LET bs == PiBinders(dom, <<>>).doms
  IN  IF Is("sort", PiResult(dom)) THEN ReadMotive(p, env, bs)
      ELSE ReadMinor(p.n_p, slots, d, OpenPis(Len(bs), dom, d))
RECURSIVE ReadSlots(_, _, _, _, _)
SlotsNext(p, env, n, e, slots, s) ==
  IF s = <<>> THEN <<>>
  ELSE ReadSlots(p, env, n - 1, Inst1(e[3], FVar(p.n_p + Len(slots), e[2])), slots \o s)
ReadSlots(p, env, n, e, slots) ==
  IF n <= 0 THEN <<slots>>
  ELSE IF ~Is("pi", e) THEN <<>>
  ELSE SlotsNext(p, env, n, e, slots, ReadSlot(p, env, slots, p.n_p + Len(slots), e[2]))

RecClass(n_p, slots, q) == IF q = <<>> THEN 0 ELSE HeadClass(n_p, slots, q[1].rest)
RecClasses(p, slots) ==
  LET cls == [r \in DOMAIN p.recs |-> RecClass(p.n_p, slots, OpenPis(p.recs[r].mi + 1, p.recs[r].cv.ty, 0))]
  IN  IF \E r \in DOMAIN cls : cls[r] = 0 THEN <<>> ELSE <<[slots |-> slots, cls |-> cls]>>
ClassSlots(p, s) == IF s = <<>> THEN <<>> ELSE RecClasses(p, s[1])
ClassesOf(p, env, q) ==
  IF q = <<>> THEN <<>> ELSE ClassSlots(p, ReadSlots(p, env, p.recs[1].rp - p.n_p, q[1].rest, <<>>))
ClassRead(p, env) == ClassesOf(p, env, OpenPis(p.n_p, p.recs[1].cv.ty, 0))
-----------------------------------------------------------------------------
(* What a class is: a member at the block's own parameters, or a container *)
(* with the block in its arguments and in the block's universe.            *)
Class(key, ds, n_pc, n_idx, ctors, member) ==
  <<[ind |-> key.ind, lvls |-> key.lvls, ds |-> ds, n_pc |-> n_pc, n_idx |-> n_idx, ctors |-> ctors,
     member |-> member, nfs |-> <<>>]>>
TargetMajorMember(x, p, key, ds, t) ==
  IF key.lvls = x.lvls /\ ds = x.params
  THEN Class(key, ds, p.n_p, p.members[t].n_idx, p.members[t].ctors, t) ELSE <<>>
OutsideInst(x, key, ds, con, q) ==
  IF q = <<>> THEN <<>>
  ELSE LET tele == PiBinders(q[1], <<>>)
       IN  IF Is("sort", tele.rest) /\ LvlEq(tele.rest[2], x.sort)
           THEN Class(key, ds, con.n_pc, Len(tele.doms), con.ctors, 0) ELSE <<>>
TargetMajorOutside(x, key, ds, con) ==
  IF key.ind = "Quot" \/ con = <<>> THEN <<>>
  ELSE IF \/ Len(ds) < con[1].n_pc
          \/ ~ParamsClosed(x.n_p, TakeN(ds, con[1].n_pc))
          \/ ~NestOccAny(x.names, 0, 0, TakeN(ds, con[1].n_pc))
          \/ Len(key.lvls) # Len(x.env.infos[key.ind].lps)
  THEN <<>>
  ELSE OutsideInst(x, key, TakeN(ds, con[1].n_pc), con[1],
         InstPisWith(TakeN(ds, con[1].n_pc), InstLp(x.env.infos[key.ind].lps, key.lvls, x.env.infos[key.ind].ty)))
TargetMajor(x, p, key, ds) ==
  IF ~ParamsClosed(x.n_p, ds) THEN <<>>
  ELSE IF Listed(x.names, key.ind)
  THEN TargetMajorMember(x, p, key, TakeN(ds, x.n_p), NameIdx(x.names, key.ind) + 1)
  ELSE TargetMajorOutside(x, key, ds, NestContainer(x.env, key.ind))
TargetMajorPins(x, m) ==
  m.member = 0 => /\ \A i \in DOMAIN m.ds : WellTyped(x.env, x.n_p, m.ds[i])
                  /\ WellTyped(x.env, x.n_p, MkAppN(Cnst(m.ind, m.lvls), m.ds))
OneClassPerMember(p, ms) ==
  \A t \in DOMAIN p.members : \E c \in DOMAIN ms : \A d \in DOMAIN ms : ms[d].member = t <=> d = c
ClassesPinned(x, p, ms) ==
  IF (\A c \in DOMAIN ms : TargetMajorPins(x, ms[c])) /\ OneClassPerMember(p, ms) THEN <<ms>> ELSE <<>>
CheckBlockClasses(x, p, slots) ==
  LET keys == [c \in DOMAIN Motives(slots) |-> slots[Motives(slots)[c]]]
      ms   == [c \in DOMAIN keys |-> TargetMajor(x, p, keys[c], ReplaceFVarsList(Somes(x.params), keys[c].ds))]
  IN  IF \E c \in DOMAIN ms : ms[c] = <<>> THEN <<>>
      ELSE ClassesPinned(x, p, [c \in DOMAIN ms |-> ms[c][1]])

(* The outside classes are walked for positivity as well.                  *)
ClassSeeds(x, holes, ms) ==
  LET out == SelectSeq(ms, LAMBDA m : m.member = 0)
  IN  [i \in DOMAIN out |-> NestSeedOf(x, holes, out[i].ind, out[i].lvls, out[i].ds, out[i].n_pc)]
-----------------------------------------------------------------------------
(* The recursors' names and universe parameters, and the constructors as   *)
(* declared.                                                               *)
AuxDigits == <<"1", "2", "3", "4">>          \* bound: at most four outside classes
WantAuxNames(p, n) == [i \in 1 .. n |-> RecNameOf(p.members[1].cv.name) \o "_" \o AuxDigits[i]]
RecsByTarget(p, own) == SelectSeq(p.recs, LAMBDA rc : (rc.tgt < ShapeK(p)) = own)
CvNames(cs) == [i \in DOMAIN cs |-> cs[i].cv.name]
AuxNamesOk(p, got) ==
  NamesAllIn(WantAuxNames(p, Len(got)), got) /\ NamesAllIn(got, WantAuxNames(p, Len(got)))
TargetRecPins(p, b) ==
  /\ BlockRecLpsOk(p) /\ BlockRecNamesUnreserved(p)
  /\ BlockRecNameSetOk(p, RecsByTarget(p, TRUE))
  /\ AuxNamesOk(p, CvNames(RecsByTarget(p, FALSE)))
  /\ NameNodup(CvNames(p.recs))
  /\ CvNames(AllCtors(p)) = NamesOf(b.ctors)
ClassStreamRecs(env, p) == \A r \in DOMAIN p.recs : CheckConstantVal(env, p.recs[r].cv)

(* Elimination into every sort: never out of a proposition, but for the    *)
(* one-constructor one whose fields CheckBlockCtors bounded.               *)
BlockLargeElimAllowed(p, nested) ==
  \/ IsNeverZero(p.res_sort)
  \/ ~nested /\ p.large /\ ShapeK(p) = 1 /\ Len(AllCtors(p)) <= 1
BlockNestedBit(p, outss) ==
  \/ \E rc \in Range(p.recs) : rc.tgt >= ShapeK(p)
  \/ \E m \in DOMAIN outss : \E j \in DOMAIN outss[m] : \E k \in Range(outss[m][j].kinds) :
       k[1] \in {"nested", "inprogress"}
LargeOk(p, ms, nested) ==
  p.large => BlockLargeElimAllowed(p, nested \/ \E c \in DOMAIN ms : ms[c].member = 0)
RecHeadersOk(env, p, b, ms, nested) == TargetRecPins(p, b) /\ ClassStreamRecs(env, p) /\ LargeOk(p, ms, nested)
-----------------------------------------------------------------------------
(* Does a family met by the walk belong to a class: "yes", "no" or "error".*)
(* Parameters are compared with the members as variables.                  *)
LvlsEq(us, vs) == Len(us) = Len(vs) /\ \A i \in DOMAIN us : LvlEq(us[i], vs[i])
RECURSIVE TargetAbs(_, _), EraseFVarTys(_)
TargetAbs(g, e) ==
  IF Is("const", e) /\ Listed(g.x.names, e[2]) /\ e[3] = g.x.lvls
  THEN FVar(g.x.n_p + NameIdx(g.x.names, e[2]), g.cvs[NameIdx(g.x.names, e[2]) + 1].ty)
  ELSE IF Kids(e) = <<>> THEN e
  ELSE Rebuild(e, [i \in DOMAIN Kids(e) |-> TargetAbs(g, Kids(e)[i])])
EraseFVarTys(e) ==
  IF Is("fvar", e) THEN Erased(e[2])
  ELSE IF Kids(e) = <<>> THEN e
  ELSE Rebuild(e, [i \in DOMAIN Kids(e) |-> EraseFVarTys(Kids(e)[i])])
EraseList(es) == [i \in DOMAIN es |-> EraseFVarTys(es[i])]

Converts(env, d, a, b) ==
  IF a = b THEN "yes"
  ELSE IF \E t \in {a, b} : ~WellTyped(env, d, t) THEN "error"
  ELSE IF DefEq(env, d, a, b) THEN "yes" ELSE "no"
TargetParamDefEq(g, a, b) ==
  IF ~ParamsClosed(g.x.n_p, <<a, b>>) THEN "no"
  ELSE LET abs(e) == TargetAbs(g, ReplaceFVars(Somes(g.x.params), e))
       IN  Converts(g.env, HiAt(g.x, 0), abs(a), abs(b))
TargetParamsDefEq(g, xs, ys) ==
  LET r   == [i \in 1 .. Min({Len(xs), Len(ys)}) |-> TargetParamDefEq(g, xs[i], ys[i])]
      bad == {i \in DOMAIN r : r[i] # "yes"}
  IN  IF bad # {} THEN r[Min(bad)] ELSE IF Len(xs) = Len(ys) THEN "yes" ELSE "no"
TargetClassMatch(g, m, us, ds) == IF LvlsEq(m.lvls, us) THEN TargetParamsDefEq(g, m.ds, ds) ELSE "no"

(* The normal forms of a class's constructors among those the walk found.  *)
ClassesMatched(g, tbl, yes) ==
  IF \E c \in DOMAIN yes : \E i \in DOMAIN tbl : yes[c][i] = "error" THEN <<>>
  ELSE <<[g EXCEPT !.classes = [c \in DOMAIN yes |->
           [@[c] EXCEPT !.nfs = [j \in DOMAIN SelectSeq([i \in DOMAIN tbl |-> i], LAMBDA i : yes[c][i] = "yes") |->
              tbl[SelectSeq([i \in DOMAIN tbl |-> i], LAMBDA i : yes[c][i] = "yes")[j]]]]]]>>
ClassesNfs(g, tbl) ==
  ClassesMatched(g, tbl,
    [c \in DOMAIN g.classes |-> [i \in DOMAIN tbl |->
       IF Listed(CvNames(g.classes[c].ctors), tbl[i].ctor)
       THEN TargetClassMatch(g, g.classes[c], tbl[i].lvls, tbl[i].ds) ELSE "no"]])

(* A recursive field as a normal form gives it: the same telescope and the *)
(* same leaf, of the class the declared hypothesis is of.                  *)
K53Leaf(g, mc, leaf, w) ==
  LET la == GetAppArgs(w)
      ma == GetAppArgs(leaf)
  IN  /\ HeadConst(w) /\ HeadName(w) = HeadName(leaf) /\ Len(la) = Len(ma)
      /\ EraseList(DropN(la, mc.n_pc)) = EraseList(DropN(ma, mc.n_pc))
      /\ NestOccAny(g.x.names, 0, 0, <<GetAppFn(w)>> \o TakeN(la, mc.n_pc))
      /\ TargetClassMatch(g, mc, HeadLevels(w), TakeN(la, mc.n_pc)) = "yes"
TargetK53(g, mc, tele, leaf, f) ==
  LET q == StripPis(Len(tele), f)
  IN  q # <<>> /\ EraseList(q[1].doms) = EraseList(tele) /\ K53Leaf(g, mc, leaf, q[1].rest)
RECURSIVE TargetPiDomsWith(_, _, _)
TargetPiDomsWith(xs, e, out) ==
  IF xs = <<>> THEN <<out>>
  ELSE IF Is("pi", e) THEN TargetPiDomsWith(Tail(xs), Inst1(e[3], Head(xs)), Append(out, e[2])) ELSE <<>>
FieldAgrees(g, es, fvs, ih) ==
  LET b == PiBinders(fvs[ih.i][3], <<>>)
  IN  /\ HeadConst(b.rest) /\ HeadName(b.rest) = g.classes[ih.t].ind
      /\ \A e \in Range(es) :
           LET doms == TargetPiDomsWith(fvs, e.ty, <<>>)
           IN  doms # <<>> /\ TargetK53(g, g.classes[ih.t], b.doms, b.rest, doms[1][ih.i])

(* A constructor of a class: one minor premise, with a hypothesis for each *)
(* field that mentions the block and for no other.                         *)
Hits(ihs, i) == SelectSeq(ihs, LAMBDA ih : ih.i = i)
FieldKindsOk(g, ihs, fvs) ==
  \A i \in DOMAIN fvs : Len(Hits(ihs, i)) = IF NestOcc(g.x.names, 0, 0, fvs[i][3]) THEN 1 ELSE 0
RecFields(ihs, fvs) ==
  FlattenSeq([i \in DOMAIN fvs |->
    [h \in DOMAIN Hits(ihs, i) |-> [i |-> i, t |-> Hits(ihs, i)[h].t, n |-> Len(PiBinders(fvs[i][3], <<>>).doms)]]])
CtorOpened(g, m, ca, ihs, es, q) ==
  IF q = <<>> THEN <<>>
  ELSE IF FieldKindsOk(g, ihs, q[1].fvs) /\ \A ih \in Range(RecFields(ihs, q[1].fvs)) : FieldAgrees(g, es, q[1].fvs, ih)
  THEN LET ty == IF m.member # 0 THEN ca.cv.ty ELSE InstLp(ca.cv.lps, m.lvls, ca.cv.ty)
       IN  <<[ctor |-> ca.cv.name, nf |-> ca.nf, ty_d |-> InstPisWith(m.ds, ty)[1], ty_n |-> es[1].ty,
              rec |-> RecFields(ihs, q[1].fvs)]>>
  ELSE <<>>
MinorsOf(g, c, n) == SelectSeq(g.slots, LAMBDA s : s.kind = "minor" /\ s.c = c /\ s.cn = n)
CtorMinor(g, c, ca, es, minors) ==
  IF es = <<>> \/ Len(minors) # 1 THEN <<>>
  ELSE CtorOpened(g, g.classes[c], ca, minors[1].ihs, es, OpenPis(ca.nf, es[1].ty, HiAt(g.x, 0)))
ClassCtorOf(g, c, ca) ==
  CtorMinor(g, c, ca, SelectSeq(g.classes[c].nfs, LAMBDA e : e.ctor = ca.cv.name), MinorsOf(g, c, ca.cv.name))
ClassCtorsFound(g, cs) ==
  IF \/ \E c \in DOMAIN cs : \E j \in DOMAIN cs[c] : cs[c][j] = <<>>
     \/ Len(SelectSeq(g.slots, LAMBDA s : s.kind = "minor")) # Len(FlattenSeq(cs))
  THEN <<>>
  ELSE <<g @@ [ctors |-> [c \in DOMAIN cs |-> [j \in DOMAIN cs[c] |-> cs[c][j][1]]]]>>
ClassCtors(g) ==
  ClassCtorsFound(g, [c \in DOMAIN g.classes |->
    [j \in DOMAIN g.classes[c].ctors |-> ClassCtorOf(g, c, g.classes[c].ctors[j])]])
-----------------------------------------------------------------------------
(* The types, generated.  Every telescope opened here has been spelled out *)
(* by the checks before, so no Option is None.                             *)
FormerTy(g, m) ==
  IF m.member # 0 THEN g.cvs[m.member].ty
  ELSE InstLp(g.env.infos[m.ind].lps, m.lvls, g.env.infos[m.ind].ty)
SlotVar(g, s) == FVar(g.x.n_p + s - 1, Srt(LZero))
MotVar(g, c)  == FVar(MotiveSlot(g.x.n_p, g.slots, c), Srt(LZero))
ElimLevel(p)  == IF p.large THEN LParam(p.elim) ELSE LZero
GenMajor(g, m, d) ==
  LET q == OpenPis(m.n_idx, InstPisWith(m.ds, FormerTy(g, m))[1], d)
  IN  [ifs |-> q[1].fvs, maj |-> MkAppN(Cnst(m.ind, m.lvls), m.ds \o q[1].fvs)]
MotiveTyOf(g, j, d) == CloseTelescope(FVarTypeDs(j.ifs), d, Pi(j.maj, Srt(ElimLevel(g.p))))
MotiveTy(g, c, d) == MotiveTyOf(g, GenMajor(g, g.classes[c], d), d)

(* The hypothesis, or the recursive call, for the field rf at depth e: its *)
(* arguments xs, the indices and the field applied to xs.                  *)
IhAt(g, rf, fvs, q) ==
  [t |-> rf.t, xs |-> q.fvs, idx |-> DropN(GetAppArgs(q.rest), g.classes[rf.t].n_pc), fld |-> MkAppN(fvs[rf.i], q.fvs)]
IhParts(g, rf, fvs, ws, e) == IhAt(g, rf, fvs, OpenPis(rf.n, ws[rf.i], e)[1])
IhTy(g, ih, e) == CloseTelescope(FVarTypeDs(ih.xs), e, MkAppN(MotVar(g, ih.t), Append(ih.idx, ih.fld)))
IhTys(g, x, fvs, ws, e) == [l \in DOMAIN x.rec |-> IhTy(g, IhParts(g, x.rec[l], fvs, ws, e + l - 1), e + l - 1)]
MinorConcl(g, c, m, x, fvs, res) ==
  MkAppN(MotVar(g, c), Append(DropN(GetAppArgs(res), m.n_pc), MkAppN(Cnst(x.ctor, m.lvls), m.ds \o fvs)))
MinorTyAt(g, c, x, d, q) ==
  CloseTelescope(FVarTypeDs(q.fvs) \o IhTys(g, x, q.fvs, TargetPiDomsWith(q.fvs, x.ty_n, <<>>)[1], d + x.nf), d,
                 MinorConcl(g, c, g.classes[c], x, q.fvs, q.rest))
MinorTy(g, c, x, d) == MinorTyAt(g, c, x, d, OpenPis(x.nf, x.ty_d, d)[1])

SlotBinder(g, s) ==
  LET sl == g.slots[s]
      d  == g.x.n_p + s - 1
  IN  IF sl.kind = "motive" THEN MotiveTy(g, SelectInSeq(Motives(g.slots), LAMBDA r : r = s), d)
      ELSE MinorTy(g, sl.c, SelectSeq(g.ctors[sl.c], LAMBDA x : x.ctor = sl.cn)[1], d)
Prefix(g) == FVarTypeDs(g.x.params) \o [s \in DOMAIN g.slots |-> SlotBinder(g, s)]
RecTyOver(g, c, pre, j) ==
  CloseTelescope(pre \o FVarTypeDs(j.ifs) \o <<j.maj>>, 0,
                 MkAppN(MotVar(g, c), Append(j.ifs, FVar(Len(pre) + Len(j.ifs), j.maj))))
RecTy(g, c, pre) == RecTyOver(g, c, pre, GenMajor(g, g.classes[c], Len(pre)))
GenRecTys(g) == [r \in DOMAIN g.cls |-> RecTy(g, g.cls[r], Prefix(g))]

(* A declared recursor agrees with the generated one of its class.         *)
ClassRecTyOk(g, rc, m, ty) ==
  /\ rc.tgt = IF m.member # 0 THEN m.member - 1 ELSE ShapeK(g.p)
  /\ rc.rp = g.x.n_p + Len(g.slots) /\ rc.mi = rc.rp + m.n_idx
  /\ CheckConstantVal(g.env, [rc.cv EXCEPT !.ty = ty])
  /\ DefEq(g.env, 0, rc.cv.ty, ty)
ClassRecTysOk(g, tys) == \A r \in DOMAIN tys : ClassRecTyOk(g, g.p.recs[r], g.classes[g.cls[r]], tys[r])
-----------------------------------------------------------------------------
(* The rules: a recursor of class c at the constructor x is the minor      *)
(* premise at the fields and at the recursive calls.                       *)
RECURSIVE CloseLams(_, _, _)
CloseLams(bs, i, body) ==
  IF bs = <<>> THEN body
  ELSE Lam(Head(bs), AbstractRange(CloseLams(Tail(bs), i + 1, body), i, 1))
PrefixVars(g) == g.x.params \o [s \in DOMAIN g.slots |-> SlotVar(g, s)]
RecOf(g, t) == SelectInSeq(g.cls, LAMBDA c : c = t)
Call(g, ih, e) ==
  LET cv == g.p.recs[RecOf(g, ih.t)].cv
  IN  CloseLams(FVarTypeDs(ih.xs), e,
                MkAppN(Cnst(cv.name, ParamLevels(cv.lps)), PrefixVars(g) \o Append(ih.idx, ih.fld)))
RuleBody(g, s, x, fvs, ws, e) ==
  MkAppN(SlotVar(g, s), fvs \o [l \in DOMAIN x.rec |-> Call(g, IhParts(g, x.rec[l], fvs, ws, e), e)])
RuleOver(g, s, x, pre, q) ==
  CloseLams(pre \o FVarTypeDs(q.fvs), 0,
            RuleBody(g, s, x, q.fvs, TargetPiDomsWith(q.fvs, x.ty_n, <<>>)[1], Len(pre) + x.nf))
MinorSlot(g, c, n) == SelectInSeq(g.slots, LAMBDA s : s.kind = "minor" /\ s.c = c /\ s.cn = n)
Rule(g, c, x, pre) == RuleOver(g, MinorSlot(g, c, x.ctor), x, pre, OpenPis(x.nf, x.ty_d, Len(pre))[1])
CallsHaveRecs(g) == \A c \in Range(g.cls) : \A x \in Range(g.ctors[c]) : \A rf \in Range(x.rec) : RecOf(g, rf.t) # 0
GenRules(g) == [r \in DOMAIN g.cls |-> [j \in DOMAIN g.ctors[g.cls[r]] |-> Rule(g, g.cls[r], g.ctors[g.cls[r]][j], Prefix(g))]]

(* Checked where every recursor is stored, still without rules; the        *)
(* binders of a rule name no recursor.                                     *)
RecInfo(p, rc, ty, rules) ==
  [kind |-> "rec", lps |-> rc.cv.lps, ty |-> ty, mi |-> rc.mi, rp |-> rc.rp, rules |-> rules]
RECURSIVE ConsRecsBare(_, _, _, _), LamDoms(_, _)
ConsRecsBare(p, tys, r, env) ==
  IF r > Len(tys) THEN env
  ELSE ConsRecsBare(p, tys, r + 1, Push(env, p.recs[r].cv.name, RecInfo(p, p.recs[r], tys[r], <<>>)))
LamDoms(n, e) == IF n = 0 \/ ~Is("lam", e) THEN <<>> ELSE <<e[2]>> \o LamDoms(n - 1, e[3])
RuleOk(g, env_r, lps, n, rhs) ==
  /\ LooseBounded(0, rhs) /\ ~HasFVar(rhs)
  /\ AllLevelParamsDefined(lps, rhs) /\ ConstsResolve(env_r, rhs)
  /\ \A i \in DOMAIN LamDoms(n, rhs) : ConstsResolve(g.env, LamDoms(n, rhs)[i])
  /\ WellTyped(env_r, 0, rhs)
RulesOk(g, env_r, rules) ==
  \A r \in DOMAIN rules : \A j \in DOMAIN rules[r] :
    RuleOk(g, env_r, g.p.recs[r].cv.lps, g.x.n_p + Len(g.slots) + g.ctors[g.cls[r]][j].nf, rules[r][j])
CheckRules(g, tys, rules) == RulesOk(g, ConsRecsBare(g.p, tys, 1, g.env), rules)

(* Stored: a rule of an outside class fires at the class's own parameters. *)
RuleFirePlain(m, r_p) == <<"plain">>         \* mutant: as for a member
RuleFire(m, r_p) ==
  IF m.member # 0 THEN <<"plain">>
  ELSE <<"nested", m.lvls, [i \in DOMAIN m.ds |-> AbstractRange(m.ds[i], 0, r_p)]>>
StoredRules(g, rc, m, xs, rhss) ==
  [j \in DOMAIN xs |->
     RecRuleBits(g.env, [ctor |-> xs[j].ctor, nfields |-> xs[j].nf, ctor_params |-> m.n_pc,
                         fire |-> RuleFire(m, rc.rp), rhs |-> rhss[j], k |-> FALSE, eta |-> FALSE])]
RECURSIVE ConsBlockRecs(_, _, _, _, _)
ConsBlockRecs(g, tys, rules, r, env) ==
  IF r > Len(tys) THEN env
  ELSE LET rc == g.p.recs[r]
           c  == g.cls[r]
       IN  ConsBlockRecs(g, tys, rules, r + 1,
             Push(env, rc.cv.name,
                  RecInfo(g.p, rc, tys[r], StoredRules(g, rc, g.classes[c], g.ctors[c], rules[r]))))
=============================================================================
