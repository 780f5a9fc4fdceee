------------------------------ MODULE PinsDump ------------------------------
(***************************************************************************)
(* The other two programs that speak the pin format (crates/con-ron-dump): *)
(* the reader of a pin file, which splits the text into lines and a line   *)
(* into tokens (lib.rs), and the writer (write.rs).  They are checked      *)
(* against the decoder of module PinsText, whose table of record shapes    *)
(* the reader shares and the writer does not.                              *)
(***************************************************************************)
EXTENDS PinsText

(* The pieces between the cuts; empty ones are kept. *)
RECURSIVE SplitAtAll(_, _)
SplitAtAll(s, cut) ==
    IF ~Contains(s, cut) THEN <<s>>
    ELSE LET i == CHOOSE i \in DOMAIN s : s[i] = cut /\ \A k \in 1..(i - 1) : s[k] # cut
         IN  <<SubSeq(s, 1, i - 1)>> \o SplitAtAll(SubSeq(s, i + 1, Len(s)), cut)

-----------------------------------------------------------------------------
(* The reader: the cursor is the number of tokens taken *)

Tok(ts, pos) == IF pos < Len(ts) THEN Got(ts[pos + 1], pos + 1) ELSE Err(pos, "short")

BigNatTok(ts, pos) ==
    LET number(r) == IF ~Fine(r) THEN r
                     ELSE IF r.v = << >> \/ \E k \in DOMAIN r.v : r.v[k] \notin Digit
                          THEN Err(pos, "number")
                     ELSE Got(ValueOfDigits(r.v), r.at)
    IN  number(Tok(ts, pos))

NatTok(ts, pos) ==
    LET bounded(r) == IF Fine(r) /\ r.v > IndexMax THEN Err(pos, "wide") ELSE r
    IN  bounded(BigNatTok(ts, pos))

(* An escape's value is bounded after each digit. *)
TokStep(a, c) ==
    LET bad    == [a EXCEPT !.ok = FALSE]
        more(v) == IF HexDigit(c) = -1 \/ v > 1114112 THEN bad ELSE [a EXCEPT !.v = v]
    IN  CASE ~a.ok -> a
          [] a.ok /\ a.esc ->
                 IF c # ";" THEN more(16 * a.v + HexDigit(c))
                 ELSE IF IsValidChar(a.v) THEN [a EXCEPT !.esc = FALSE, !.out = Append(@, a.v)]
                 ELSE bad
          [] OTHER -> IF c = Backslash THEN [a EXCEPT !.esc = TRUE, !.v = 0]
                      ELSE IF c \in DOMAIN CodePoint THEN [a EXCEPT !.out = Append(@, CodePoint[c])]
                      ELSE bad
UnescapeTok(tok) == FoldLeft(LAMBDA a, c : TokStep(a, c), Unescaping, tok)

StringTok(ts, pos) ==
    LET told(n, a, p) == IF a.ok /\ ~a.esc /\ Len(a.out) = n THEN Got(a.out, p)
                         ELSE Err(pos, "string")
        text(n, r)    == IF Fine(r) THEN told(n.v, UnescapeTok(r.v), r.at) ELSE r
        counted(n)    == IF Fine(n) THEN text(n, Tok(ts, n.at)) ELSE n
    IN  counted(NatTok(ts, pos))

RefTok(f, ts, pos, tb) ==
    LET entry(r) == IF ~Fine(r) THEN r
                    ELSE IF r.v < Len(tb[f]) THEN Got(tb[f][r.v + 1], r.at)
                    ELSE Err(pos, "undefined")
    IN  entry(NatTok(ts, pos))

RECURSIVE FieldToks(_, _, _, _, _)
FieldToks(fs, ts, pos, tb, vs) ==
    LET f == Head(fs)
        goOn(r)  == IF Fine(r) THEN FieldToks(Tail(fs), ts, r.at, tb, Append(vs, r.v)) ELSE r
        list(r)  == IF Fine(r) THEN Got(Items(f, r.v), r.at) ELSE r
        counted(n) == IF Fine(n) THEN list(FieldToks(Times(n.v, ItemOf[f]), ts, n.at, tb, << >>))
                      ELSE n
    IN  IF fs = << >> THEN Got(vs, pos)
        ELSE goOn(CASE f = "nat"    -> NatTok(ts, pos)
                    [] f = "bignat" -> BigNatTok(ts, pos)
                    [] f = "string" -> StringTok(ts, pos)
                    [] f \in {"name", "level", "expr"} -> RefTok(f, ts, pos, tb)
                    [] f \in DOMAIN ItemOf -> counted(NatTok(ts, pos)))

(* The tables behind one more node, or pin set. *)
NodeToks(table, shapes, ts, pos, tb) ==
    LET pushed(c, r) == IF Fine(r) THEN Got([tb EXCEPT ![table] = Append(@, <<shapes[c].head>> \o r.v)], r.at)
                        ELSE r
        letter(r) == IF ~Fine(r) THEN r
                     ELSE IF Len(r.v) = 1 /\ r.v[1] \in DOMAIN shapes
                          THEN pushed(r.v[1], FieldToks(shapes[r.v[1]].fields, ts, r.at, tb, << >>))
                     ELSE Err(pos, "unknown")
        own(n)    == IF Fine(n) /\ n.v # Len(tb[table]) THEN Err(pos, "id")
                     ELSE IF Fine(n) THEN letter(Tok(ts, n.at)) ELSE n
    IN  own(NatTok(ts, pos))

PinSetToks(ts, pos, tb) ==
    LET pushed(r) == IF Fine(r) THEN Got([tb EXCEPT !.sets = Append(@, PinSetOf(r.v))], r.at) ELSE r
    IN  pushed(FieldToks(<<"string">> \o PinColumns, ts, pos, tb, << >>))

RecordToks(ts, tb) ==
    CASE ts[1] = <<"N">> -> NodeToks("name", NameShapes, ts, 1, tb)
      [] ts[1] = <<"L">> -> NodeToks("level", LevelShapes, ts, 1, tb)
      [] ts[1] = <<"E">> -> NodeToks("expr", ExprShapes, ts, 1, tb)
      [] ts[1] = <<"S">> -> PinSetToks(ts, 1, tb)
      [] OTHER           -> Err(0, "unknown")

(* Before the footer every line but an empty one is a record or the        *)
(* footer, and all its tokens are taken; after it only empty ones follow.  *)
Feed(s, l) ==
    LET ts == SplitAtAll(l, Space)
        fed(r)    == IF Fine(r) /\ r.at = Len(ts) THEN [s EXCEPT !.tb = r.v] ELSE [s EXCEPT !.ok = FALSE]
        footer(n) == IF Fine(n) /\ n.at = Len(ts) /\ n.v = Len(s.tb.sets)
                     THEN [s EXCEPT !.saw_footer = TRUE] ELSE [s EXCEPT !.ok = FALSE]
    IN  CASE ~s.ok \/ l = << >> -> s
          [] s.ok /\ l # << >> /\ s.saw_footer -> [s EXCEPT !.ok = FALSE]
          [] OTHER -> IF ts[1] = <<"e", "n", "d">> THEN footer(NatTok(ts, 1))
                      ELSE fed(RecordToks(ts, s.tb))

ParsePins(t) ==
    LET lines == SplitAtAll(t, Newline)
        fresh == [ok |-> TRUE, saw_footer |-> FALSE, tb |-> TablesNew]
        finish(s) == IF s.ok /\ s.saw_footer THEN Got(s.tb.sets, 0) ELSE Err(0, "malformed")
    IN  IF lines[1] # <<PinsHeader[1]>> THEN Err(0, "header")
        ELSE finish(FoldLeft(LAMBDA s, l : Feed(s, l), fresh, Tail(lines)))

-----------------------------------------------------------------------------
(* The writer: a node's id is its place in the table of its kind *)

WriterNew == [buf |-> PinsHeader, name |-> << >>, level |-> << >>, expr |-> << >>]

RECURSIVE Digits(_, _)
Digits(base, n) ==
    IF n < base THEN <<Sixteen[n + 1]>> ELSE Digits(base, n \div base) \o <<Sixteen[(n % base) + 1]>>
Dec(n) == Digits(10, n)

EscapeString(s) ==
    FlattenSeq([k \in DOMAIN s |->
        IF \E c \in DOMAIN CodePoint : CodePoint[c] = s[k]
        THEN <<CHOOSE c \in DOMAIN CodePoint : CodePoint[c] = s[k]>>
        ELSE <<Backslash>> \o Digits(16, s[k]) \o <<";">>])
StrField(s) == <<Dec(Len(s)), EscapeString(s)>>

IdOf(w, f, x)    == Dec(SelectInSeq(w[f], LAMBDA y : y = x) - 1)
IdList(w, f, xs) == <<Dec(Len(xs))>> \o [k \in DOMAIN xs |-> IdOf(w, f, xs[k])]
PairList(w, ps)  ==
    <<Dec(Len(ps))>>
    \o FlattenSeq([k \in DOMAIN ps |-> <<IdOf(w, "name", ps[k][1]), IdOf(w, "expr", ps[k][2])>>])

Emit(w, fields) ==
    [w EXCEPT !.buf = @ \o FlattenSeq([k \in DOMAIN fields |->
        IF k = 1 THEN fields[k] ELSE <<Space>> \o fields[k]]) \o <<Newline>>]
(* The node is written under the next id of its table and entered there.   *)
EmitNode(w, table, letter, x, body) ==
    [Emit(w, <<letter, Dec(Len(w[table]))>> \o body) EXCEPT ![table] = Append(@, x)]

RECURSIVE WName(_, _), WLevel(_, _), WExpr(_, _)
WName(w, n) ==
    LET under(v) == EmitNode(v, "name", <<"N">>, n,
            CASE n[1] = "anonymous" -> << <<"a">> >>
              [] n[1] = "str"       -> << <<"s">>, IdOf(v, "name", n[2])>> \o StrField(n[3])
              [] n[1] = "num"       -> << <<"n">>, IdOf(v, "name", n[2]), Dec(n[3])>>)
    IN  IF Contains(w.name, n) THEN w
        ELSE under(IF n[1] = "anonymous" THEN w ELSE WName(w, n[2]))

WLevel(w, u) ==
    LET write(v) == EmitNode(v, "level", <<"L">>, u,
            CASE u[1] = "zero"  -> << <<"z">> >>
              [] u[1] = "succ"  -> << <<"s">>, IdOf(v, "level", u[2])>>
              [] u[1] = "max"   -> << <<"m">>, IdOf(v, "level", u[2]), IdOf(v, "level", u[3])>>
              [] u[1] = "imax"  -> << <<"i">>, IdOf(v, "level", u[2]), IdOf(v, "level", u[3])>>
              [] u[1] = "param" -> << <<"p">>, IdOf(v, "name", u[2])>>)
    IN  IF Contains(w.level, u) THEN w
        ELSE write(CASE u[1] = "zero"  -> w
                     [] u[1] = "param" -> WName(w, u[2])
                     [] OTHER -> FoldLeft(LAMBDA v, a : WLevel(v, a), w, Tail(u)))

(* Its name and then its levels are written before the node. *)
EmitExprNode(w, e) ==
    LET levels == IF e[1] = "sort" THEN <<e[2]>> ELSE IF e[1] = "const" THEN e[3] ELSE << >>
        v == FoldLeft(LAMBDA x, u : WLevel(x, u),
                      IF e[1] \in {"const", "proj"} THEN WName(w, e[2]) ELSE w, levels)
        id(x) == IdOf(v, "expr", x)
    IN  EmitNode(v, "expr", <<"E">>, e,
            CASE e[1] = "bvar"    -> << <<"b">>, Dec(e[2])>>
              [] e[1] = "fvar"    -> << <<"v">>, Dec(e[2]), id(e[3])>>
              [] e[1] = "sort"    -> << <<"s">>, IdOf(v, "level", e[2])>>
              [] e[1] = "const"   -> << <<"c">>, IdOf(v, "name", e[2])>> \o IdList(v, "level", e[3])
              [] e[1] = "app"     -> << <<"a">>, id(e[2]), id(e[3])>>
              [] e[1] = "lam"     -> << <<"l">>, id(e[2]), id(e[3])>>
              [] e[1] = "forallE" -> << <<"f">>, id(e[2]), id(e[3])>>
              [] e[1] = "let"     -> << <<"t">>, id(e[2]), id(e[3]), id(e[4])>>
              [] e[1] = "nat"     -> << <<"n">>, Dec(e[2])>>
              [] e[1] = "string"  -> << <<"g">> >> \o StrField(e[2])
              [] e[1] = "proj"    -> << <<"p">>, IdOf(v, "name", e[2]), Dec(e[3]), id(e[4])>>)

ExprKids(e) ==
    CASE e[1] \in {"app", "lam", "forallE", "let"} -> Tail(e)
      [] e[1] = "fvar" -> <<e[3]>>
      [] e[1] = "proj" -> <<e[4]>>
      [] OTHER         -> << >>

(* The worklist's order: the last child is written first. *)
WExpr(w, e) ==
    IF Contains(w.expr, e) THEN w
    ELSE EmitExprNode(FoldLeft(LAMBDA v, x : WExpr(v, x), w, Reverse(ExprKids(e))), e)

(* What a pin set names, in the order it is written before the set. *)
Named(f, xs) == [k \in DOMAIN xs |-> <<f, xs[k]>>]
WExprLists(s) == Named("expr", s.pins \o FlattenSeq(s.proofs))
WTypePins(s)  ==
    FlattenSeq([k \in DOMAIN s.type_pins |->
        FlattenSeq([m \in DOMAIN s.type_pins[k] |->
            << <<"name", s.type_pins[k][m][1]>>, <<"expr", s.type_pins[k][m][2]>> >>])])

WPinSet(w, s) ==
    LET line(v) == << <<"S">> >> \o StrField(s.toolchain)
                   \o [k \in 1..8 |-> IdOf(v, "expr", s.pins[k])]
                   \o FlattenSeq([k \in 1..8 |-> IdList(v, "expr", s.proofs[k])])
                   \o FlattenSeq([k \in 1..8 |-> PairList(v, s.type_pins[k])])
        put(v) == Emit(v, line(v))
    IN  put(FoldLeft(LAMBDA x, d : IF d[1] = "name" THEN WName(x, d[2]) ELSE WExpr(x, d[2]),
                     w, WExprLists(s) \o WTypePins(s)))

DumpPins(ss) ==
    Emit(FoldLeft(LAMBDA w, s : WPinSet(w, s), WriterNew, ss),
         << <<"e", "n", "d">>, Dec(Len(ss))>>).buf
=============================================================================
