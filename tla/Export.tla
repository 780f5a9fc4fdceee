------------------------------- MODULE Export -------------------------------
(***************************************************************************)
(* The semantic layer of the export reader (frontend/export_c.rs over      *)
(* frontend/scan_fast.rs): scanned lines applied to the parse state.       *)
(* Module Chunks feeds the lines.                                          *)
(*                                                                         *)
(* A handle of the term arena stands for the node it was interned at, so a *)
(* table entry is the node here (module Arena: equal handles, equal        *)
(* nodes).  Nodes are tagged tuples; a lookup's answer is a set, empty at  *)
(* an index no line has bound.                                             *)
(***************************************************************************)
EXTENDS Scan, Level

Anonymous == <<"anonymous">>

-----------------------------------------------------------------------------
(* The index tables (scan_types.rs): a dense prefix and a sparse rest *)

IdTableEmpty        == [dense |-> << >>, sparse |-> << >>]
IdTableSingleton(x) == [dense |-> <<x>>, sparse |-> << >>]
IdTableGet(t, i) ==
    IF i < Len(t.dense) THEN {t.dense[i + 1]}
    ELSE {t.sparse[j] : j \in {i} \cap DOMAIN t.sparse}
IdTableInsert(t, i, x) ==
    IF i = Len(t.dense) THEN [t EXCEPT !.dense = Append(@, x)]
    ELSE IF i < Len(t.dense) THEN [t EXCEPT !.dense[i + 1] = x]
    ELSE [t EXCEPT !.sparse = (i :> x) @@ @]

StateDInit ==
    [names |-> IdTableSingleton(Anonymous), levels |-> IdTableSingleton(LZero),
     exprs |-> IdTableEmpty, decls |-> << >>]

StName(st, i)  == IdTableGet(st.names, i)
StLevel(st, i) == IdTableGet(st.levels, i)
StExpr(st, i)  == IdTableGet(st.exprs, i)

(* The list of the entries at the indices is, if all are bound. *)
Entries(t, is) ==
    IF \E k \in DOMAIN is : IdTableGet(t, is[k]) = {} THEN {}
    ELSE {[k \in DOMAIN is |-> CHOOSE x \in IdTableGet(t, is[k]) : TRUE]}
StNames(st, is)  == Entries(st.names, is)
StLevels(st, is) == Entries(st.levels, is)

-----------------------------------------------------------------------------
(* Table entries *)

NameOf(st, key, r) ==
    IF key = "str" THEN {<<"str", p, r.str>> : p \in StName(st, r.pre)}
    ELSE {<<"num", p, r.i>> : p \in StName(st, r.pre)}

ParseLevelRecD(st, key, r) ==
    CASE key = "succ"  -> {LSucc(a) : a \in StLevel(st, r)}
      [] key = "param" -> {LParam(n) : n \in StName(st, r)}
      [] OTHER         -> {<<key, a, c>> : a \in StLevel(st, r[1]), c \in StLevel(st, r[2])}

(* Leading zeros of a natVal carry nothing. *)
FromDecimal(ds) ==
    LET k == SelectInSubSeq(ds, 1, Len(ds), LAMBDA c : c # "0")
    IN  IF k = 0 THEN <<"0">> ELSE SubSeq(ds, k, Len(ds))

ParseExprRecD(st, key, r) ==
    CASE key = "bvar"   -> {<<"bvar", r>>}
      [] key = "sort"   -> {<<"sort", u>> : u \in StLevel(st, r)}
      [] key = "const"  -> {<<"const", n, us>> : n \in StName(st, r.name), us \in StLevels(st, r.us)}
      [] key = "app"    -> {<<"app", f, a>> : f \in StExpr(st, r.fn), a \in StExpr(st, r.arg)}
      [] key \in {"lam", "forallE"} ->
             {<<key, ty, bd>> : ty \in StExpr(st, r.type), bd \in StExpr(st, r.body)}
      [] key = "letE"   -> {<<"let", ty, v, bd>> : ty \in StExpr(st, r.type),
                               v \in StExpr(st, r.value), bd \in StExpr(st, r.body)}
      [] key = "proj"   -> {<<"proj", n, r.idx, e>> : n \in StName(st, r.typeName),
                               e \in StExpr(st, r.struct)}
      [] key = "natVal" -> {<<"nat", FromDecimal(r)>>}
      [] key = "strVal" -> {<<"string", r>>}

(* Every index is bound once; a line that breaks this, or names an index   *)
(* no earlier line bound, is a parse error and changes nothing.            *)
Applied(v, st) == [v |-> v, st |-> st]

Bind(st, table, i, nodes) ==
    IF IdTableGet(st[table], i) # {} \/ nodes = {} THEN Applied("internal", st)
    ELSE Applied("ok", [st EXCEPT ![table] = IdTableInsert(@, i, CHOOSE x \in nodes : TRUE)])

ParseNameEntryD(st, i, key, r)  == Bind(st, "names", i, NameOf(st, key, r))
ParseLevelEntryD(st, i, key, r) == Bind(st, "levels", i, ParseLevelRecD(st, key, r))
ParseExprEntryD(st, i, key, r)  == Bind(st, "exprs", i, ParseExprRecD(st, key, r))

-----------------------------------------------------------------------------
(* Declarations *)

ParseCvD(st, r) ==
    {[name |-> n, type |-> ty, levelParams |-> lps] :
        n \in StName(st, r.name), ty \in StExpr(st, r.type), lps \in StNames(st, r.levelParams)}

PushDecl(st, d) == Applied("ok", [st EXCEPT !.decls = Append(@, d)])

(* The Pi binders of a type, without reducing; what they end in; and their *)
(* number when that is a sort.                                             *)
RECURSIVE IndPiTeleLen(_), PiResult(_)
IndPiTeleLen(e) == IF e[1] = "forallE" THEN 1 + IndPiTeleLen(e[3]) ELSE 0
PiResult(e)     == IF e[1] = "forallE" THEN PiResult(e[3]) ELSE e
PiSortTeleLen(e) == IF PiResult(e)[1] = "sort" THEN {IndPiTeleLen(e)} ELSE {}

(* A constructor record against the block: cidx, induct and numFields are  *)
(* redundant, and must agree with what the block itself says.              *)
CheckOneCtor(st, t, c, j, nPd) ==
    LET ty == StExpr(st, c.type)
    IN  CASE c.cidx \notin {-1, j} -> "invalid"
          [] c.induct # -1 /\ StName(st, c.induct) = {} -> "internal"
          [] c.induct # -1 /\ StName(st, c.induct) \notin {{}, {t}} -> "invalid"
          [] ty = {} -> "internal"
          [] \E e \in ty : nPd + c.numFields # IndPiTeleLen(e) -> "invalid"
          [] OTHER -> "ok"

FirstBad(vs) ==
    LET k == SelectInSubSeq(vs, 1, Len(vs), LAMBDA v : v # "ok")
    IN  IF k = 0 THEN "ok" ELSE vs[k]

(* The constructor records by name; of two with one name the last counts.  *)
CtorIndexOf(ns, n) == SelectLastInSeq(ns, LAMBDA m : m = n)

(* The block's constructors in the order its types list them. *)
Listing(st, tys) ==
    FlattenSeq([i \in DOMAIN tys |->
        [j \in DOMAIN tys[i].ctors |->
            [t |-> CHOOSE n \in StName(st, tys[i].name) : TRUE,
             n |-> CHOOSE n \in StName(st, tys[i].ctors[j]) : TRUE, j |-> j - 1]]])
CtorNames(st, cts) == [k \in DOMAIN cts |-> CHOOSE n \in StName(st, cts[k].name) : TRUE]

OrderAsWritten(st, tys, cts) == [k \in DOMAIN cts |-> k]   \* mutant: the record array's order
OrderBlockCtors(st, tys, cts) ==
    LET ls == Listing(st, tys)
    IN  [k \in DOMAIN ls |-> CtorIndexOf(CtorNames(st, cts), ls[k].n)]

CheckCtors(st, tys, cts, nPd) ==
    LET each(ls, at) ==
            FirstBad([k \in DOMAIN ls |->
                IF at[k] = 0 THEN "invalid"
                ELSE CheckOneCtor(st, ls[k].t, cts[at[k]], ls[k].j, nPd)])
    IN  each(Listing(st, tys), OrderBlockCtors(st, tys, cts))

(* The K flag a Prop with one type and one field-less constructor has; no  *)
(* answer at a type whose sort cannot be read off.                         *)
KExpectedOf(tyTypes, tys, cts) ==
    LET s == PiResult(tyTypes[1])
    IN  IF ~(Len(tys) = 1 /\ Len(cts) = 1 /\ Len(tys[1].ctors) = 1) THEN {FALSE}
        ELSE IF s[1] # "sort" THEN {}
        ELSE {cts[1].numFields = 0 /\ IsEquiv(s[2], LZero) = <<TRUE>>}

CheckOneRec(st, r, tyNames, tyTypes, nPd, nCtors, kExp) ==
    LET rn == StName(st, r.name)
    IN  CASE rn = {} -> "internal"
          [] \/ r.numParams # nPd
             \/ r.numMotives # Len(tyNames)
             \/ r.numMinors # nCtors
             \/ (kExp # {} /\ r.k \notin kExp) -> "invalid"
          [] \E n \in rn, i \in DOMAIN tyNames :
                /\ n[1] = "str"
                /\ n[3] = <<"rec">>
                /\ n[2] = tyNames[i]
                /\ \E k \in PiSortTeleLen(tyTypes[i]) : nPd + r.numIndices # k -> "invalid"
          [] OTHER -> "ok"

(* An inductive record, validated: only a read of the state. *)
NumParamsD(tys) == IF tys = << >> THEN 0 ELSE tys[1].numParams
Ordered(st, d)  ==
    LET by(order) == [k \in DOMAIN order |-> d.ctors[order[k]]]
    IN  by(OrderBlockCtors(st, d.types, d.ctors))

CheckRecs(st, d, tyNames, tyTypes, nPd) ==
    LET each(nCtors, kExp) ==
            FirstBad([k \in DOMAIN d.recs |->
                CheckOneRec(st, d.recs[k], tyNames, tyTypes, nPd, nCtors, kExp)])
    IN  each(Len(d.ctors), KExpectedOf(tyTypes, d.types, Ordered(st, d)))

ValidateIndD(st, d) ==
    LET nPd == NumParamsD(d.types)
        nested == \E i \in DOMAIN d.types : d.types[i].numNested # 0
        recs(ctors, ns, ts) ==
            IF ctors # "ok" \/ nested THEN ctors ELSE CheckRecs(st, d, ns, ts, nPd)
        block(tyNames, tyTypes, flat, known) ==
            IF {} \in {tyNames, tyTypes, flat, known} THEN "internal"
            ELSE IF \E ns \in flat : ~IsInjective(ns) \/ Len(ns) # Len(d.ctors) THEN "invalid"
            ELSE recs(CheckCtors(st, d.types, d.ctors, nPd),
                      CHOOSE ns \in tyNames : TRUE, CHOOSE ts \in tyTypes : TRUE)
    IN  IF \E i \in DOMAIN d.types : d.types[i].isUnsafe \/ d.types[i].numParams # nPd
        THEN "declined"
        ELSE block(Entries(st.names, [i \in DOMAIN d.types |-> d.types[i].name]),
                   Entries(st.exprs, [i \in DOMAIN d.types |-> d.types[i].type]),
                   StNames(st, FlattenSeq([i \in DOMAIN d.types |-> d.types[i].ctors])),
                   Entries(st.names, [k \in DOMAIN d.ctors |-> d.ctors[k].name]))

(* The block's constants: types, constructors in the block's own order,    *)
(* recursors with their rules.                                             *)
IndBlockTypes(st, tys) ==
    FlattenSeq([i \in DOMAIN tys |-> SetToSeq({[kind |-> "ind", cv |-> cv] : cv \in ParseCvD(st, tys[i])})])
IndBlockCtors(st, cts) ==
    FlattenSeq([k \in DOMAIN cts |->
        SetToSeq({[kind |-> "ctor", cv |-> cv, nparams |-> cts[k].numParams,
                   nfields |-> cts[k].numFields] : cv \in ParseCvD(st, cts[k])})])
ParseRulesD(st, rules) ==
    LET one(ru) == {[ctor |-> c, nfields |-> ru.nfields, rhs |-> e] :
                       c \in StName(st, ru.ctor), e \in StExpr(st, ru.rhs)}
    IN  IF \E k \in DOMAIN rules : one(rules[k]) = {} THEN {}
        ELSE {[k \in DOMAIN rules |-> CHOOSE x \in one(rules[k]) : TRUE]}
IndBlockRecs(st, rcs) ==
    FlattenSeq([k \in DOMAIN rcs |->
        SetToSeq({[kind |-> "rec", cv |-> cv, rules |-> rules,
                   major |-> rcs[k].numParams + rcs[k].numMotives + rcs[k].numMinors
                             + rcs[k].numIndices,
                   rulep |-> rcs[k].numParams + rcs[k].numMotives + rcs[k].numMinors] :
                     cv \in ParseCvD(st, rcs[k]), rules \in ParseRulesD(st, rcs[k].rules)})])

InstallIndD(st, d) ==
    LET push(block) ==
            IF Len(block) # Len(d.types) + Len(d.ctors) + Len(d.recs) THEN Applied("internal", st)
            ELSE PushDecl(st, [kind |-> "inductive", block |-> block, nPd |-> NumParamsD(d.types)])
    IN  push(IndBlockTypes(st, d.types) \o IndBlockCtors(st, Ordered(st, d))
             \o IndBlockRecs(st, d.recs))

ProcessLineCoreD(st, key, d) ==
    LET cv == ParseCvD(st, d)
        vl == StExpr(st, d.value)
        c  == CHOOSE x \in cv : TRUE
        v  == CHOOSE x \in vl : TRUE
        ind(verdict) == IF verdict = "ok" THEN InstallIndD(st, d) ELSE Applied(verdict, st)
    IN  IF key = "inductive" THEN ind(ValidateIndD(st, d))
        ELSE IF cv = {} THEN Applied("internal", st)
        ELSE IF key \in {"axiom", "opaque"} /\ d.isUnsafe THEN Applied("declined", st)
        ELSE IF key = "def" /\ d.safety # <<"safe">> THEN Applied("declined", st)
        ELSE IF key = "axiom" THEN PushDecl(st, [kind |-> key, cv |-> c])
        ELSE IF key = "quot" THEN
            IF d.kind \in {<<"type">>, <<"ctor">>, <<"lift">>, <<"ind">>}
            THEN PushDecl(st, [kind |-> key, cv |-> c, quot |-> d.kind])
            ELSE Applied("internal", st)
        ELSE IF vl = {} THEN Applied("internal", st)
        ELSE IF key = "def" THEN PushDecl(st, [kind |-> key, cv |-> c, value |-> v, hints |-> d.hints])
        ELSE PushDecl(st, [kind |-> key, cv |-> c, value |-> v])

ApplyLine(st, l) ==
    CASE l.table = "name"  -> ParseNameEntryD(st, l.idx, l.key, l.v)
      [] l.table = "level" -> ParseLevelEntryD(st, l.idx, l.key, l.v)
      [] l.table = "expr"  -> ParseExprEntryD(st, l.idx, l.key, l.v)
      [] l.table = "none" /\ l.key \in {"meta", "blank"} -> Applied("ok", st)
      [] OTHER -> ProcessLineCoreD(st, l.key, l.v)

=============================================================================
