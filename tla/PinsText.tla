------------------------------ MODULE PinsText ------------------------------
(***************************************************************************)
(* The decoder of the pin text the core carries (kernel/pins_decode.rs):   *)
(* records of names, levels and expressions, each with the next id of its  *)
(* kind and naming earlier ids only, then the pin sets and a footer.       *)
(*                                                                         *)
(* The text is a sequence of symbols: one byte each, except that the       *)
(* header's words are one symbol.  A node is a tagged tuple of its parts,  *)
(* a string the sequence of its code points.                               *)
(***************************************************************************)
EXTENDS Scan, TLC

CONSTANTS
    PinIdMax,       \* the largest id, count or length (2^32 - 1 in the code)
    AccMax          \* no digit may follow a larger number (10^18 in the code)

(* Every number the decoder takes fits the wider word of the line reader.  *)
ASSUME PinWords == PinIdMax <= 10 * AccMax + 9 /\ 10 * AccMax + 9 <= IndexMax

Space      == " "
Gaps       == {Space, Newline}
PinsHeader == <<"con-ron-pins/2", Newline>>
BadText    == Err(0, "native")

TablesNew  == [name |-> << >>, level |-> << >>, expr |-> << >>, sets |-> << >>]

AfterSpace(t, i)   == IF At(t, i) = Space THEN Got("space", i + 1) ELSE BadText
AfterNewline(t, i) == IF At(t, i) = Newline THEN Got("newline", i + 1) ELSE BadText

-----------------------------------------------------------------------------
(* Numbers: digits up to a space or a newline *)

(* The first position from i on that holds no symbol of S; one of the end   *)
(* at the latest.                                                          *)
PastRun(S, t, i) ==
    CHOOSE e \in i..(Len(t) + 1) : At(t, e) \notin S /\ \A k \in i..(e - 1) : t[k] \in S

ValueOfDigits(ds) == FoldLeft(LAMBDA acc, c : 10 * acc + DigitValue(c), 0, ds)

ReadBigNat(t, i) ==
    LET e == PastRun(Digit, t, i)
    IN  IF e = i \/ At(t, e) \notin Gaps THEN BadText
        ELSE Got(ValueOfDigits(SubSeq(t, i, e - 1)), e)

(* The number before its last digit is the largest one a digit follows.    *)
ReadNat(t, i) ==
    LET bounded(r) == IF Fine(r) /\ r.v \div 10 > AccMax THEN BadText ELSE r
    IN  bounded(ReadBigNat(t, i))

(* An id is cast to a word the platform chooses.  mutant: nothing keeps it *)
(* below the narrow one.                                                   *)
ReadIndexCut(t, i) ==
    LET cut(r) == IF Fine(r) THEN [r EXCEPT !.v = @ % (PinIdMax + 1)] ELSE r
    IN  cut(ReadNat(t, i))
ReadIndex(t, i) ==
    LET bounded(r) == IF Fine(r) /\ r.v > PinIdMax THEN BadText ELSE r
    IN  bounded(ReadNat(t, i))

ExpectId(t, i, want) ==
    LET wanted(r) == IF Fine(r) /\ r.v # want THEN BadText ELSE r
    IN  wanted(ReadIndex(t, i))

-----------------------------------------------------------------------------
(* Strings: a count, and that many code points, the unprintable escaped *)

Letters == <<"a", "b", "c", "d", "e", "f", "g", "h", "i", "j", "k", "l", "m",
             "n", "o", "p", "q", "r", "s", "t", "u", "v", "w", "x", "y", "z">>
Sixteen == <<"0", "1", "2", "3", "4", "5", "6", "7", "8", "9">> \o SubSeq(Letters, 1, 6)

(* The printable symbols that occur, but for the backslash. *)
CodePoint ==
    [c \in {Letters[k] : k \in DOMAIN Letters} |-> 96 + SelectInSeq(Letters, LAMBDA x : x = c)]
    @@ [c \in Digit |-> 48 + DigitValue(c)]
    @@ (";" :> 59 @@ "E" :> 69 @@ "L" :> 76 @@ "N" :> 78 @@ "S" :> 83)

HexDigit(c)    == SelectInSeq(Sixteen, LAMBDA x : x = c) - 1      \* -1: none
IsValidChar(v) == v < 55296 \/ (v > 57343 /\ v < 1114112)

Unescaping == [ok |-> TRUE, esc |-> FALSE, v |-> 0, out |-> << >>]

UnescapeStep(a, c) ==
    LET bad == [a EXCEPT !.ok = FALSE]
    IN  CASE ~a.ok -> a
          [] a.ok /\ a.esc /\ c = ";" ->
                 IF IsValidChar(a.v)
                 THEN [a EXCEPT !.esc = FALSE, !.out = Append(@, a.v)] ELSE bad
          [] a.ok /\ a.esc /\ c # ";" ->
                 IF HexDigit(c) = -1 \/ a.v > 1114111 THEN bad
                 ELSE [a EXCEPT !.v = 16 * @ + HexDigit(c)]
          [] a.ok /\ ~a.esc /\ c = Backslash -> [a EXCEPT !.esc = TRUE, !.v = 0]
          [] OTHER -> IF c \in DOMAIN CodePoint THEN [a EXCEPT !.out = Append(@, CodePoint[c])]
                      ELSE bad

UnescapeFrom(t, i) ==
    LET j == CHOOSE j \in i..(Len(t) + 1) :
                At(t, j) \in Gaps \cup {"NUL"} /\ \A k \in i..(j - 1) : t[k] \notin Gaps
        end(a) == IF a.ok /\ ~a.esc THEN Got(a.out, j) ELSE BadText
    IN  IF At(t, j) = "NUL" THEN BadText
        ELSE end(FoldLeft(LAMBDA a, c : UnescapeStep(a, c), Unescaping, SubSeq(t, i, j - 1)))

ReadString(t, i) ==
    LET told(n, s)  == IF Fine(s) /\ Len(s.v) # n.v THEN BadText ELSE s
        counted(n) == IF Fine(n) /\ At(t, n.at) = Space THEN told(n, UnescapeFrom(t, n.at + 1))
                      ELSE BadText
    IN  counted(ReadIndex(t, i))

-----------------------------------------------------------------------------
(* Fields *)

(* A reference is to an entry that is there already. *)
Ref(f, t, i, tb) ==
    LET entry(r) == IF ~Fine(r) THEN r
                    ELSE IF r.v >= Len(tb[f]) THEN BadText
                    ELSE Got(tb[f][r.v + 1], r.at)
    IN  entry(ReadIndex(t, i))

Times(n, fs) == FlattenSeq([k \in 1..n |-> fs])

(* The counted lists, and the fields of one item of each. *)
ItemOf == [levels |-> <<"level">>, exprs |-> <<"expr">>, pairs |-> <<"name", "expr">>]
Items(f, vs) ==
    IF f # "pairs" THEN vs ELSE [k \in 1..(Len(vs) \div 2) |-> <<vs[2 * k - 1], vs[2 * k]>>]

(* The fields fs, one space before each, behind those read already (vs).   *)
RECURSIVE ReadFields(_, _, _, _, _)
ReadFields(fs, t, i, tb, vs) ==
    LET f == Head(fs)
        goOn(r)  == IF Fine(r) THEN ReadFields(Tail(fs), t, r.at, tb, Append(vs, r.v)) ELSE r
        list(r)  == IF Fine(r) THEN Got(Items(f, r.v), r.at) ELSE r
        counted(n) == IF Fine(n) THEN list(ReadFields(Times(n.v, ItemOf[f]), t, n.at, tb, << >>))
                      ELSE n
        read(s) == IF ~Fine(s) THEN s
                   ELSE goOn(CASE f = "nat"    -> ReadNat(t, s.at)
                               [] f = "bignat" -> ReadBigNat(t, s.at)
                               [] f = "string" -> ReadString(t, s.at)
                               [] f \in {"name", "level", "expr"} -> Ref(f, t, s.at, tb)
                               [] f \in DOMAIN ItemOf -> counted(ReadIndex(t, s.at)))
    IN  IF fs = << >> THEN Got(vs, i) ELSE read(AfterSpace(t, i))

-----------------------------------------------------------------------------
(* Records: a kind letter, and for each constructor a letter with its      *)
(* node's tag and fields                                                   *)

Shape(head, fields) == [head |-> head, fields |-> fields]

NameShapes ==
    [a |-> Shape("anonymous", << >>), s |-> Shape("str", <<"name", "string">>),
     n |-> Shape("num", <<"name", "nat">>)]
LevelShapes ==
    [z |-> Shape("zero", << >>), s |-> Shape("succ", <<"level">>),
     m |-> Shape("max", <<"level", "level">>), i |-> Shape("imax", <<"level", "level">>),
     p |-> Shape("param", <<"name">>)]
AtomShapes ==
    [b |-> Shape("bvar", <<"nat">>), v |-> Shape("fvar", <<"nat", "expr">>),
     s |-> Shape("sort", <<"level">>), c |-> Shape("const", <<"name", "levels">>)]
BranchShapes ==
    [a |-> Shape("app", <<"expr", "expr">>), l |-> Shape("lam", <<"expr", "expr">>),
     f |-> Shape("forallE", <<"expr", "expr">>), t |-> Shape("let", <<"expr", "expr", "expr">>)]
OtherShapes ==
    [n |-> Shape("nat", <<"bignat">>), g |-> Shape("string", <<"string">>),
     p |-> Shape("proj", <<"name", "nat", "expr">>)]
ExprShapes == AtomShapes @@ BranchShapes @@ OtherShapes

(* Its own id, its letter, its fields, its newline, and the node behind    *)
(* the others of its kind.                                                 *)
RecordNode(table, shapes, t, i, tb) ==
    LET pushed(n, r) == IF Fine(n) THEN Got([tb EXCEPT ![table] = Append(@, r)], n.at) ELSE n
        node(c, r)   == IF Fine(r) THEN pushed(AfterNewline(t, r.at), <<shapes[c].head>> \o r.v)
                        ELSE r
        letter(c, p) == IF c \in DOMAIN shapes
                        THEN node(c, ReadFields(shapes[c].fields, t, p + 1, tb, << >>))
                        ELSE BadText
        spaced(s)    == IF Fine(s) THEN letter(At(t, s.at), s.at) ELSE s
        own(r)       == IF Fine(r) THEN spaced(AfterSpace(t, r.at)) ELSE r
    IN  own(ExpectId(t, i, Len(tb[table])))

RecordName(t, i, tb)  == RecordNode("name", NameShapes, t, i, tb)
RecordLevel(t, i, tb) == RecordNode("level", LevelShapes, t, i, tb)
RecordExpr(t, i, tb)  == RecordNode("expr", ExprShapes, t, i, tb)

(* The pins of the eight operations, then their proofs, then their types.  *)
PinColumns == Times(8, <<"expr">>) \o Times(8, <<"exprs">>) \o Times(8, <<"pairs">>)
PinSetOf(vs) ==
    [toolchain |-> vs[1], pins |-> SubSeq(vs, 2, 9), proofs |-> SubSeq(vs, 10, 17),
     type_pins |-> SubSeq(vs, 18, 25)]

(* The record's first field stands behind the space already stepped over.  *)
RecordPinSet(t, i, tb) ==
    LET pushed(n, r) == IF Fine(n) THEN Got([tb EXCEPT !.sets = Append(@, PinSetOf(r.v))], n.at)
                        ELSE n
        ended(r)     == IF Fine(r) THEN pushed(AfterNewline(t, r.at), r) ELSE r
    IN  ended(ReadFields(<<"string">> \o PinColumns, t, i - 1, tb, << >>))

-----------------------------------------------------------------------------
(* The pass *)

RunFooter(t, i, tb) ==
    LET end(n, e) == IF Fine(e) /\ e.at = Len(t) + 1 /\ n.v = Len(tb.sets) THEN Got(tb.sets, e.at)
                     ELSE BadText
        count(n)  == IF Fine(n) THEN end(n, AfterNewline(t, n.at)) ELSE n
    IN  IF At(t, i) = "n" /\ At(t, i + 1) = "d" /\ At(t, i + 2) = Space
        THEN count(ReadIndex(t, i + 3)) ELSE BadText

RECURSIVE RunRecords(_, _, _)
RunRecords(t, i, tb) ==
    LET k == At(t, i)
        next(r) == IF Fine(r) THEN RunRecords(t, r.at, r.v) ELSE r
    IN  CASE k = "e" -> RunFooter(t, i + 1, tb)
          [] k # "e" /\ At(t, i + 1) # Space -> BadText
          [] OTHER -> next(CASE k = "N" -> RecordName(t, i + 2, tb)
                             [] k = "L" -> RecordLevel(t, i + 2, tb)
                             [] k = "E" -> RecordExpr(t, i + 2, tb)
                             [] k = "S" -> RecordPinSet(t, i + 2, tb)
                             [] OTHER   -> BadText)

Decode(t) == IF IsPrefix(PinsHeader, t) THEN RunRecords(t, Len(PinsHeader) + 1, TablesNew) ELSE BadText
=============================================================================
