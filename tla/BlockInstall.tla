--------------------------- MODULE BlockInstall ---------------------------
(***************************************************************************)
(* An inductive block read as the export gives it: which entries are its   *)
(* types, constructors and recursors, who belongs to whom, and the sort it *)
(* lives in (arena/inductives/block_parts.rs); then its types,             *)
(* constructors and projection tables checked and stored                   *)
(* (block_install.rs, sum_install.rs, struct_install.rs, struct_parts.rs). *)
(*                                                                         *)
(* A block is a sequence of information records (CoreEnv) with a name.     *)
(* The shape p is [members, recs, n_p, elim, res_sort, large, is_prop]: a  *)
(* member is [cv, n_idx, ctors], a constructor [cv, nf], and a recursor is *)
(* [cv, rp, mi, tgt, rhss], tgt the member (from 0) its major is of, or    *)
(* the number of members.  What is read is a candidate, which the          *)
(* installers check against generated types; an operator that may reject   *)
(* answers an Option.                                                      *)
(***************************************************************************)
EXTENDS Positivity, TLC

Cv(ci) == [name |-> ci.name, lps |-> ci.lps, ty |-> ci.ty]
Anonymous == ""

(* Types first, then constructors, then recursors and nothing else.        *)
PrefixOf(xs, kind) ==
  TakeN(xs, Max({n \in 0 .. Len(xs) : \A i \in 1 .. n : xs[i].kind = kind}))
BlockSplit(block) ==
  LET inds  == PrefixOf(block, "ind")
      rest  == DropN(block, Len(inds))
      ctors == PrefixOf(rest, "ctor")
      recs  == DropN(rest, Len(ctors))
  IN  IF \E i \in DOMAIN recs : recs[i].kind # "rec" THEN <<>>
      ELSE <<[inds |-> inds, ctors |-> ctors, recs |-> recs]>>

NameIdx(names, n) == (CHOOSE i \in DOMAIN names : names[i] = n) - 1
RecTargetOf(names, mi, ty) ==
  LET major == BinderDom(mi, ty)
  IN  IF major # <<>> /\ HeadConst(major[1]) /\ Listed(names, HeadName(major[1]))
      THEN NameIdx(names, HeadName(major[1])) ELSE Len(names)

(* The number of a member's indices: of its binders past the parameters,   *)
(* or, when its type is not spelled out as a telescope, from its recursor. *)
BlockCountsRec(n_pd, k, n_c, n_r, r) ==
  IF r = <<>> THEN <<>>
  ELSE LET rp == r[1].rp
           mi == r[1].mi
       IN  IF /\ rp >= n_c + k /\ mi >= rp
              /\ \/ rp - (n_c + k) = n_pd
                 \/ k < n_r /\ n_pd + n_r + n_c <= rp
           THEN <<mi - rp>> ELSE <<>>
BlockCounts(n_pd, k, n_c, n_r, cv, r) ==
  LET q == PiBinders(cv.ty, <<>>)
      n == Len(q.doms)
  IN  IF ~Is("sort", q.rest) THEN BlockCountsRec(n_pd, k, n_c, n_r, r)
      ELSE IF n_pd <= n THEN <<n - n_pd>> ELSE <<>>

RecForMember(names, recs, m) ==
  TakeN(SelectSeq(recs, LAMBDA r : RecTargetOf(names, r.mi, r.ty) = m), 1)

(* A constructor is of the member its result is at the block's levels.     *)
ParamLevels(lps) == [i \in DOMAIN lps |-> LParam(lps[i])]
CtorMember(names, lvls, n_p, c) ==
  LET q == StripPis(n_p + c.nf, c.cv.ty)
  IN  IF /\ q # <<>> /\ HeadConst(q[1].rest)
         /\ HeadLevels(q[1].rest) = lvls /\ Listed(names, HeadName(q[1].rest))
      THEN NameIdx(names, HeadName(q[1].rest)) ELSE Len(names)
BlockGroups(names, lvls, n_p, cs) ==
  IF Len(names) = 1 THEN <<cs>>
  ELSE [m \in DOMAIN names |-> SelectSeq(cs, LAMBDA c : CtorMember(names, lvls, n_p, c) = m - 1)]

FormersPinned(cvs, lps) == \A i \in DOMAIN cvs : cvs[i].name \notin ReservedBasis /\ cvs[i].lps = lps
RecsUnreserved(recs)    == \A i \in DOMAIN recs : recs[i].name \notin ReservedBasis
CtorsPinned(cs, n_p, lps) ==
  \A i \in DOMAIN cs : cs[i].np = n_p /\ cs[i].lps = lps /\ cs[i].name \notin ReservedBasis

NamesOf(xs) == [i \in DOMAIN xs |-> xs[i].name]
RhssOf(rules) == [i \in DOMAIN rules |-> rules[i].rhs]
RecShapes(names, recs) ==
  [i \in DOMAIN recs |->
     [cv |-> Cv(recs[i]), rp |-> recs[i].rp, mi |-> recs[i].mi,
      tgt |-> RecTargetOf(names, recs[i].mi, recs[i].ty), rhss |-> RhssOf(recs[i].rules)]]

(* The recursors eliminate into every sort when the first one has one      *)
(* universe parameter more than the block.                                 *)
LargeBy(rl0, lps) == rl0 # <<>> /\ Tail(rl0) = lps /\ ~Listed(lps, Head(rl0))

WithSort(p, s) == [p EXCEPT !.res_sort = s, !.is_prop = LvlEq(s, LZero)]
BlockShapeAt(n_p, b, n_idxs) ==
  LET names == NamesOf(b.inds)
      lps   == b.inds[1].lps
      q     == StripPis(n_p + n_idxs[1], b.inds[1].ty)
      s     == IF q # <<>> /\ Is("sort", q[1].rest) THEN q[1].rest[2] ELSE LZero
      cs    == [i \in DOMAIN b.ctors |-> [cv |-> Cv(b.ctors[i]), nf |-> b.ctors[i].nf]]
      large == LargeBy(b.recs[1].lps, lps)
      grp   == BlockGroups(names, ParamLevels(lps), n_p, cs)
  IN  WithSort([members |-> [i \in DOMAIN names |->
                               [cv |-> Cv(b.inds[i]), n_idx |-> n_idxs[i], ctors |-> grp[i]]],
                recs |-> RecShapes(names, b.recs), n_p |-> n_p,
                elim |-> IF large THEN b.recs[1].lps[1] ELSE Anonymous,
                res_sort |-> s, large |-> large, is_prop |-> FALSE], s)
BlockShapePinned(n_p, b, counts) ==
  IF /\ \A i \in DOMAIN counts : counts[i] # <<>>
     /\ FormersPinned(b.inds, b.inds[1].lps)
     /\ RecsUnreserved(b.recs)
     /\ CtorsPinned(b.ctors, n_p, b.inds[1].lps)
  THEN <<BlockShapeAt(n_p, b, [i \in DOMAIN counts |-> counts[i][1]])>> ELSE <<>>
BlockShape(n_p, b) ==
  BlockShapePinned(n_p, b,
    [i \in DOMAIN b.inds |->
       BlockCounts(n_p, Len(b.inds), Len(b.ctors), Len(b.recs), b.inds[i],
                   RecForMember(NamesOf(b.inds), b.recs, i - 1))])
BlockPartsOf(n_p, block) ==
  LET b == BlockSplit(block)
  IN  IF b = <<>> THEN <<>>
      ELSE IF b[1].inds = <<>> \/ b[1].recs = <<>> THEN <<>> ELSE BlockShape(n_p, b[1])

(* Read off the shape.                                                     *)
ShapeK(p)     == Len(p.members)
ShapeNames(p) == [m \in DOMAIN p.members |-> p.members[m].cv.name]
ShapeLps(p)   == p.members[1].cv.lps
ShapeLvls(p)  == ParamLevels(ShapeLps(p))
AllCtors(p)   == FlattenSeq([m \in DOMAIN p.members |-> p.members[m].ctors])

RecLpsOk(p, rl) == rl = (IF p.large THEN <<p.elim>> ELSE <<>>) \o ShapeLps(p)
BlockRecLpsOk(p) == \A r \in DOMAIN p.recs : RecLpsOk(p, p.recs[r].cv.lps)
RecNameOf(n)    == n \o ".rec"
WantRecNames(p) == [m \in DOMAIN p.members |-> RecNameOf(p.members[m].cv.name)]
NamesAllIn(xs, ys) == \A i \in DOMAIN xs : Listed(ys, xs[i])
BlockRecNameSetOk(p, recs) ==
  LET want == WantRecNames(p)
      got  == [r \in DOMAIN recs |-> recs[r].cv.name]
  IN  Len(got) = Len(want) /\ NamesAllIn(want, got) /\ NamesAllIn(got, want)
BlockRecNamesUnreserved(p) == \A r \in DOMAIN p.recs : ~ReservedRecName(p.recs[r].cv.name)

-----------------------------------------------------------------------------
Push(env, n, info) == [env EXCEPT !.infos = (n :> info) @@ @]

(* What a type may be used for.  A member with one constructor is a        *)
(* structure, a unit or subject to rule K as its shape says.               *)
CapsDefault == [eta |-> FALSE, eta_ctor |-> Anonymous, eta_params |-> 0, eta_fields |-> 0, unitlike |-> FALSE,
                unit_params |-> 0, rule_k |-> FALSE, sort_z |-> Never, all |-> <<>>, nparams |-> 0, ctors |-> <<>>]
BlockCapsAt(p, m, is_rec) ==
  LET mem == p.members[m]
      cs  == [i \in DOMAIN mem.ctors |-> mem.ctors[i].cv.name]
      nf  == mem.ctors[1].nf
      base == [CapsDefault EXCEPT !.sort_z = ZeronessOf(p.res_sort), !.all = ShapeNames(p),
                                  !.nparams = p.n_p, !.ctors = cs]
  IN  IF Len(cs) # 1 THEN base
      ELSE [base EXCEPT !.eta = mem.n_idx = 0 /\ ~p.is_prop /\ ~is_rec,
                        !.eta_ctor = cs[1], !.eta_params = p.n_p, !.eta_fields = nf,
                        !.unitlike = mem.n_idx = 0 /\ nf = 0 /\ ~is_rec,
                        !.unit_params = p.n_p,
                        !.rule_k = ShapeK(p) = 1 /\ nf = 0 /\ p.is_prop]

PiDomsMentionAny(names, ty) ==
  \E i \in DOMAIN PiBinders(ty, <<>>).doms : MentionsAny(names, PiBinders(ty, <<>>).doms[i])
BlockRawRec(p) == \E i \in DOMAIN AllCtors(p) : PiDomsMentionAny(ShapeNames(p), AllCtors(p)[i].cv.ty)

(* A type former is a telescope over a sort, spelled out or after reducing *)
(* it binder by binder, in which case the spelled-out type is stored.      *)
RECURSIVE WhnfTelescope(_, _, _, _, _)
TeleStep(env, i, n, w, doms) ==
  CASE Is("sort", w) /\ n = 0 -> <<[doms |-> doms, s |-> w[2]]>>
    [] Is("pi", w) /\ n > 0   -> WhnfTelescope(env, i + 1, n - 1, Inst1(w[3], FVar(i, w[2])), Append(doms, w[2]))
    [] OTHER -> <<>>
WhnfTelescope(env, i, n, e, doms) == TeleStep(env, i, n, TWhnf(env, i, e), doms)
CheckSumTeleSlow(env, cv, q) ==
  IF q = <<>> THEN <<>>
  ELSE LET cv2 == [cv EXCEPT !.ty = CloseTelescope(q[1].doms, 0, Srt(q[1].s))]
       IN  IF CheckConstantVal(env, cv2) THEN <<[cv |-> cv2, s |-> q[1].s]>> ELSE <<>>
CheckSumTele(env, cv, n) ==
  LET q == StripPis(n, cv.ty)
  IN  IF q # <<>> /\ Is("sort", q[1].rest) THEN <<[cv |-> cv, s |-> q[1].rest[2]]>>
      ELSE CheckSumTeleSlow(env, cv, WhnfTelescope(env, 0, n, cv.ty, <<>>))
TeleSpelled(n, t) ==
  LET q == StripPis(n, t[1].cv.ty) IN t # <<>> /\ q # <<>> /\ q[1].rest = Srt(t[1].s)
CheckBlockTele(env, n_p, mem) ==
  IF ~CheckConstantVal(env, mem.cv) THEN <<>>
  ELSE SelectSeq(CheckSumTele(env, mem.cv, n_p + mem.n_idx), LAMBDA t : TeleSpelled(n_p + mem.n_idx, <<t>>))

(* Binder domains equal one by one, each under the binders before it.      *)
DomsAgree(env, off, fvs, doms) ==
  \A k \in DOMAIN doms : DefEq(env, off + k - 1, fvs[k][3], doms[k])
CheckBlockAgree(env, n_p, teles) ==
  LET opened == [m \in DOMAIN teles |-> OpenPis(n_p, teles[m].cv.ty, 0)]
  IN  \A m \in 2 .. Len(teles) :
        /\ opened[1] # <<>> /\ opened[m] # <<>>
        /\ DomsAgree(env, 0, opened[m][1].fvs, FVarTypeDs(opened[1][1].fvs))
        /\ LvlEq(teles[m].s, teles[1].s)

IndInfo(cv, caps) == [kind |-> "ind", lps |-> cv.lps, ty |-> cv.ty, caps |-> caps]
RECURSIVE ConsBlockInds(_, _, _, _, _)
ConsBlockInds(p1, is_rec, cvs, m, env) ==
  IF m > Len(cvs) THEN env
  ELSE ConsBlockInds(p1, is_rec, cvs, m + 1,
                     Push(env, cvs[m].name, IndInfo(cvs[m], BlockCapsAt(p1, m, is_rec))))

IndsStored(env, p, is_rec, teles) ==
  LET p1  == WithSort(p, teles[1].s)
      cvs == [m \in DOMAIN teles |-> teles[m].cv]
  IN  IF ~CheckBlockAgree(env, p.n_p, teles) THEN <<>>
      ELSE <<[env |-> ConsBlockInds(p1, is_rec, cvs, 1, env), cvs |-> cvs, p |-> p1]>>
TelesOf(env, p, is_rec, ts) ==
  IF \E m \in DOMAIN ts : ts[m] = <<>> THEN <<>>
  ELSE IndsStored(env, p, is_rec, [m \in DOMAIN ts |-> ts[m][1]])
CheckBlockInds(env, p, is_rec) ==
  TelesOf(env, p, is_rec, [m \in DOMAIN p.members |-> CheckBlockTele(env, p.n_p, p.members[m])])
-----------------------------------------------------------------------------
(* Fields: the sort of each, bounded by the block's; in Prop with large    *)
(* elimination a field is a proof or read off an index.                    *)
FieldSortBoundOff(is_prop, large, s, u, fv, idx_args) == TRUE      \* mutant: no bound
FieldSortBound(is_prop, large, s, u, fv, idx_args) ==
  CASE ~is_prop           -> Leq(u, s) = <<TRUE>>
    [] is_prop /\ large   -> LvlEq(u, LZero) \/ Listed(idx_args, fv)
    [] is_prop /\ ~large  -> TRUE
SortsBounded(is_prop, large, s, fvs, idx_args, us) ==
  IF \A j \in DOMAIN us : us[j] # <<>> /\ FieldSortBound(is_prop, large, s, us[j][1], fvs[j], idx_args)
  THEN <<[j \in DOMAIN us |-> us[j][1]]>> ELSE <<>>
CheckStructFieldSorts(env, is_prop, large, s, n_p, fvs, idx_args) ==
  SortsBounded(is_prop, large, s, fvs, idx_args,
               [j \in DOMAIN fvs |-> InferSort(env, n_p + j - 1, fvs[j][3])])

(* A constructor: its type opened at the parameters and then the fields;   *)
(* its result the member at the parameters, and at indices and with field  *)
(* domains that name what is stored.                                       *)
StructPsAt(o, n_p) == [k \in 1 .. n_p |-> BVar(o + n_p - k)]
ResidOk(t, lps, ps, n_idx, e) ==
  /\ GetAppFn(e) = Cnst(t, ParamLevels(lps))
  /\ Len(GetAppArgs(e)) = Len(ps) + n_idx
  /\ TakeN(GetAppArgs(e), Len(ps)) = ps
StructCtorResidOk(t, lps, n_p, nf, n_idx, ty) ==
  LET q == StripPis(n_p + nf, ty) IN q # <<>> /\ ResidOk(t, lps, StructPsAt(nf, n_p), n_idx, q[1].rest)
CtorFields(env0, env, p, mem, c, pq, xq) ==
  LET idx == DropN(GetAppArgs(xq[1].rest), p.n_p)
  IN  IF \/ xq = <<>>
         \/ ~ResidOk(mem.cv.name, ShapeLps(p), pq[1].fvs, mem.n_idx, xq[1].rest)
         \/ \E i \in DOMAIN xq[1].fvs : ~ConstsResolve(env0, xq[1].fvs[i][3])
         \/ \E i \in DOMAIN idx : ~ConstsResolve(env0, idx[i])
      THEN <<>>
      ELSE CheckStructFieldSorts(env, p.is_prop, p.large, p.res_sort, p.n_p, xq[1].fvs, idx)
CtorFrames(env0, env, p, mem, c, pq, tq) ==
  IF pq = <<>> \/ tq = <<>> THEN <<>>
  ELSE IF ~DomsAgree(env, 0, pq[1].fvs, FVarTypeDs(tq[1].fvs)) THEN <<>>
  ELSE CtorFields(env0, env, p, mem, c, pq, OpenPis(c.nf, pq[1].rest, p.n_p))
CheckSumCtor(env0, env, p, mem, cv_ta, c) ==
  IF \/ ~CheckConstantVal(env, c.cv)
     \/ ~StructCtorResidOk(mem.cv.name, ShapeLps(p), p.n_p, c.nf, mem.n_idx, c.cv.ty)
  THEN <<>>
  ELSE CtorFrames(env0, env, p, mem, c, OpenPis(p.n_p, c.cv.ty, 0), OpenPis(p.n_p, cv_ta.ty, 0))

(* The sorts of every constructor's fields, by member and constructor.     *)
SortsOrNone(ss) ==
  IF \E m \in DOMAIN ss : \E j \in DOMAIN ss[m] : ss[m][j] = <<>> THEN <<>>
  ELSE <<[m \in DOMAIN ss |-> [j \in DOMAIN ss[m] |-> ss[m][j][1]]]>>
CheckBlockCtors(env0, env, p, cvs) ==
  SortsOrNone([m \in DOMAIN p.members |->
    [j \in DOMAIN p.members[m].ctors |->
       CheckSumCtor(env0, env, p, p.members[m], cvs[m], p.members[m].ctors[j])]])
CtorsAs(p) == [m \in DOMAIN p.members |-> p.members[m].ctors]

(* Positivity of the block, and the fields' sorts again in the normal      *)
(* forms it computed.                                                      *)
BlockNestCtx(env, p, cvs) ==
  LET q == OpenPis(p.n_p, cvs[1].ty, 0)
  IN  IF q = <<>> THEN <<>>
      ELSE <<[env |-> env, names |-> ShapeNames(p), n_p |-> p.n_p, params |-> q[1].fvs,
              sort |-> p.res_sort, lvls |-> ShapeLvls(p)]>>
AbsFieldsOk(x, q) ==
  q # <<>> /\ CheckStructFieldSorts(x.env, LvlEq(x.sort, LZero), FALSE, x.sort, HiAt(x, 0), q[1].fvs, <<>>) # <<>>
CheckAbsCtorSorts(x, lps, cs, outs) ==
  \A i \in DOMAIN cs : AllLevelParamsDefined(lps, outs[i].closed)
                       /\ AbsFieldsOk(x, OpenPis(cs[i].nf, outs[i].closed, HiAt(x, 0)))
RootChecked(x, p, r) ==
  IF r = <<>> THEN <<>>
  ELSE IF \A m \in DOMAIN p.members : CheckAbsCtorSorts(x, ShapeLps(p), p.members[m].ctors, r[1].outss[m])
  THEN r ELSE <<>>
PosHoles(x, p, holes) ==
  IF holes = <<>> \/ ~NestUniform(x, CtorsAs(p)) THEN <<>>
  ELSE RootChecked(x, p, NestRoot(x, holes[1], CtorsAs(p), <<>>, NsEmpty))
CheckBlockPositivity(x, p) == PosHoles(x, p, NestHoles(x))

IdxSorts(env, p, q) ==
  q # <<>> /\ CheckStructFieldSorts(env, TRUE, FALSE, p.res_sort, p.n_p, DropN(q[1].fvs, p.n_p), <<>>) # <<>>
CheckBlockIdxSorts(env, p, cvs) ==
  \A m \in DOMAIN cvs : IdxSorts(env, p, OpenPis(p.n_p + p.members[m].n_idx, cvs[m].ty, 0))

CtorInfo(n_p, c) == [kind |-> "ctor", lps |-> c.cv.lps, ty |-> c.cv.ty, np |-> n_p, nf |-> c.nf]
RECURSIVE ConsSumCtors(_, _, _)
ConsSumCtors(n_p, cs, env) ==
  IF cs = <<>> THEN env
  ELSE ConsSumCtors(n_p, Tail(cs), Push(env, cs[1].cv.name, CtorInfo(n_p, cs[1])))
ConsBlockCtors(p, env) == ConsSumCtors(p.n_p, AllCtors(p), env)
-----------------------------------------------------------------------------
(* Projection tables.  A field's type is written over the parameters and   *)
(* the structure, earlier fields as its projections.                       *)
RECURSIVE LiftAt(_, _, _), Inst1Lift(_, _, _), InstPisLift(_, _), StructProjBodies(_, _, _, _)
LiftAt(n, c, e) ==
  IF Is("bvar", e) THEN IF e[2] >= c THEN BVar(e[2] + n) ELSE e
  ELSE IF Kids(e) = <<>> THEN e
  ELSE Rebuild(e, [i \in DOMAIN Kids(e) |-> LiftAt(n, c + Opened(e, i), Kids(e)[i])])
Inst1Lift(v, d, e) ==
  IF Is("bvar", e) THEN IF e[2] = d THEN LiftAt(d, 0, v) ELSE IF e[2] > d THEN BVar(e[2] - 1) ELSE e
  ELSE IF Kids(e) = <<>> THEN e
  ELSE Rebuild(e, [i \in DOMAIN Kids(e) |-> Inst1Lift(v, d + Opened(e, i), Kids(e)[i])])
InstPisLift(args, e) ==
  IF args = <<>> THEN <<e>>
  ELSE IF Is("pi", e) THEN InstPisLift(Tail(args), Inst1Lift(Head(args), 0, e[3])) ELSE <<>>
StructProjBodies(t, nf, e, out) ==
  IF Len(out) = nf THEN <<out>>
  ELSE IF ~Is("pi", e) THEN <<>>
  ELSE StructProjBodies(t, nf, Inst1Lift(Prj(t, Len(out), BVar(0)), 0, e[3]), Append(out, e[2]))

(* A field may be read only where the sorts of those it depends on allow.  *)
StructProjGuards(cty, n_p, sorts) ==
  LET col[i \in DOMAIN sorts, j \in 0 .. Len(sorts)] ==
        IF j = 0 THEN sorts[i]
        ELSE IF j < i /\ StructUsedLater(cty, n_p, j - 1) THEN LMax(col[i, j - 1], sorts[j])
        ELSE col[i, j - 1]
  IN  [i \in DOMAIN sorts |-> col[i, Len(sorts)]]

ProjBodiesScoped(env, lps, n_p, bodies) ==
  \A i \in DOMAIN bodies :
    /\ ~HasFVar(bodies[i]) /\ AllLevelParamsDefined(lps, bodies[i])
    /\ ConstsResolve(env, bodies[i]) /\ LooseBounded(n_p + 1, bodies[i])
TableEntry(p, c, body, guard) ==
  [lps |-> ShapeLps(p), num_params |-> p.n_p, ctor |-> c.cv.name, num_fields |-> c.nf, body |-> body,
   field_sort |-> guard, struct_sort |-> p.res_sort]
PushTable(env, p, t, c, bodies, guards) ==
  IF \/ ~ProjBodiesScoped(env, ShapeLps(p), p.n_p, bodies)
     \/ ~Stored(env, t) \/ \E k \in DOMAIN env.projs : k[1] = t
  THEN <<>>
  ELSE <<[env EXCEPT !.projs =
            [k \in {<<t, i - 1>> : i \in DOMAIN bodies} |-> TableEntry(p, c, bodies[k[2] + 1], guards[k[2] + 1])] @@ @]>>
CheckStructProjTable(env, p, t, c, sorts) ==
  LET inst   == InstPisLift(StructPsAt(1, p.n_p), c.cv.ty)
      bodies == StructProjBodies(t, c.nf, inst[1], <<>>)
  IN  IF inst = <<>> THEN <<>> ELSE IF bodies = <<>> THEN <<>>
      ELSE PushTable(env, p, t, c, bodies[1], StructProjGuards(c.cv.ty, p.n_p, sorts))
RECURSIVE CheckBlockTables(_, _, _, _)
TableNext(p, sortss, m, r) == IF r = <<>> THEN <<>> ELSE CheckBlockTables(p, sortss, m + 1, r[1])
CheckBlockTables(p, sortss, m, env) ==
  IF m > Len(p.members) THEN <<env>>
  ELSE TableNext(p, sortss, m,
         IF Len(p.members[m].ctors) = 1 /\ p.members[m].n_idx = 0
         THEN CheckStructProjTable(env, p, p.members[m].cv.name, p.members[m].ctors[1], sortss[m][1])
         ELSE <<env>>)
===========================================================================
