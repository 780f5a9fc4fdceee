-------------------------------- MODULE Scan --------------------------------
(***************************************************************************)
(* The recogniser of the export format (frontend/scan_fast.rs): one line   *)
(* of the stream to one record of stream indices.                          *)
(*                                                                         *)
(* The buffer is a sequence of symbols where the code has bytes.  A        *)
(* punctuation mark, a blank, a digit and a newline are one symbol each,   *)
(* as they are one byte each; the text of a key and a run of ordinary      *)
(* characters inside a string are one symbol too, whatever their length.   *)
(* Positions count from 1, so that 0 is free to be the code's "none".      *)
(*                                                                         *)
(* The twenty-odd object readers of the source are one loop written out    *)
(* per record kind.  Here the loop is written once (Members) and a record  *)
(* kind is the table it is run at: each key's reader, the keys that may be *)
(* left out, and the keys that are checked and then dropped.               *)
(***************************************************************************)
EXTENDS Integers, Sequences, SequencesExt

CONSTANT
    IndexMax        \* the largest stream index (2^64 - 1 in the code)

Quote     == "\""
Backslash == "\\"
Newline   == "\n"
Digit     == {ToString(n) : n \in 0..9}
Blanks    == {" ", "tab", "cr"}
Controls  == {"tab", "cr", Newline}

(* A scanner's answer: the value and the position after it, or a tag and   *)
(* the position it is about.                                               *)
Got(v, e)    == [tag |-> "ok", v |-> v, at |-> e]
Err(at, tag) == [tag |-> tag, v |-> "none", at |-> at]
Fine(r)      == r.tag = "ok"

-----------------------------------------------------------------------------
(* Bytes and words *)

At(b, i) == IF i \in DOMAIN b THEN b[i] ELSE "NUL"

(* The first position from i on that holds no symbol of S. *)
Past(S, b, i) ==
    LET j == SelectInSubSeq(b, i, Len(b), LAMBDA c : c \notin S)
    IN  IF j # 0 THEN j ELSE IF i > Len(b) THEN i ELSE Len(b) + 1

SkipWs(b, i)     == Past(Blanks, b, i)
SkipDigits(b, i) == Past(Digit, b, i)

KeyEnd(b, j) ==
    LET e == SelectInSubSeq(b, j, Len(b), LAMBDA c : c \in Controls \cup {Quote, Backslash})
    IN  IF e # 0 /\ At(b, e) = Quote THEN e ELSE 0

(* The keys of the format; any other text between the quotes is unknown.   *)
Keys ==
    {"all", "app", "arg", "axiom", "binderInfo", "body", "bvar", "cidx", "const", "ctor",
     "ctors", "def", "fn", "forallE", "hints", "i", "idx", "ie", "il", "imax", "in",
     "induct", "inductive", "isRec", "isReflexive", "isUnsafe", "k", "kind", "lam", "letE",
     "levelParams", "max", "meta", "name", "natVal", "nfields", "nondep", "num",
     "numFields", "numIndices", "numMinors", "numMotives", "numNested", "numParams",
     "opaque", "param", "pre", "proj", "quot", "recs", "regular", "rhs", "rules", "safety",
     "sort", "str", "strVal", "struct", "succ", "thm", "type", "typeName", "types", "us",
     "value"}

KeyAt(b, i, ke) == IF ke = i + 2 /\ b[i + 1] \in Keys THEN b[i + 1] ELSE "unknown"

(* Past the colon, blanks skipped on both sides; i when there is no colon. *)
ValueAt(b, i, ke) ==
    LET p == SkipWs(b, ke + 1)
    IN  IF At(b, p) = ":" THEN SkipWs(b, p + 1) ELSE i

-----------------------------------------------------------------------------
(* Scalars *)

(* JSON's own rule: no number but 0 starts with a 0. *)
NumEnd(b, i) ==
    LET e == SkipDigits(b, i)
    IN  IF At(b, i) = "0" /\ e # i + 1 THEN i ELSE e

DigitValue(c) == CHOOSE n \in 0..9 : ToString(n) = c

(* checked_mul and checked_add refuse a prefix past IndexMax, and then the *)
(* whole run is past it too.                                               *)
ReadNatAt(b, i, e) ==
    LET n[k \in 0..(e - i)] ==
            IF k = 0 THEN 0
            ELSE IF n[k - 1] > IndexMax THEN n[k - 1]
            ELSE 10 * n[k - 1] + DigitValue(b[i + k - 1])
    IN  IF n[e - i] > IndexMax THEN Err(i, "IndexOverflow") ELSE Got(n[e - i], e)

SlotNat(b, v) ==
    LET upTo(e) == IF e = v THEN Err(v, "ExpectedNat") ELSE ReadNatAt(b, v, e)
    IN  upTo(NumEnd(b, v))

ScanBool(b, v) ==
    IF At(b, v) \in {"true", "false"} THEN Got(b[v] = "true", v + 1)
    ELSE Err(v, "ExpectedBool")

ScanBinderInfo(b, v) ==
    IF /\ At(b, v) = Quote
       /\ At(b, v + 1) \in {"default", "implicit", "strictImplicit", "instImplicit"}
       /\ At(b, v + 2) = Quote
    THEN Got("dropped", v + 3)
    ELSE Err(v, "BadBinderInfo")

ScanQuotedNat(b, v) ==
    LET e == SkipDigits(b, v + 1)
    IN  IF At(b, v) = Quote /\ e # v + 1 /\ At(b, e) = Quote
        THEN Got(SubSeq(b, v + 1, e - 1), e + 1)
        ELSE Err(v, "BadNatVal")

-----------------------------------------------------------------------------
(* Strings *)

(* The closing quote; 0 at a control symbol, escaped or not. *)
RECURSIVE StrClose(_, _)
StrClose(b, j) ==
    CASE j > Len(b) -> 0
      [] b[j] = Quote -> j
      [] b[j] = Backslash -> IF At(b, j + 1) \in Controls \cup {"NUL"} THEN 0
                             ELSE StrClose(b, j + 2)
      [] b[j] \in Controls -> 0
      [] OTHER -> StrClose(b, j + 1)

(* An ill-formed run of bytes is the symbol "illFormed".  The answer of    *)
(* the two decoders is the set of the one text there is, or empty.         *)
Utf8Decode(s) == IF Contains(s, "illFormed") THEN {} ELSE {s}

Escaped ==
    Quote :> Quote @@ Backslash :> Backslash @@ "/" :> "/" @@ "b" :> "bs" @@ "f" :> "ff"
    @@ "n" :> Newline @@ "r" :> "cr" @@ "t" :> "tab"

(* The four digits of a \u escape are one symbol: a scalar value's, a high *)
(* surrogate's or a low one's.  A high one takes the low one that follows  *)
(* it; alone, either is the replacement character.                         *)
RECURSIVE UnescapeBytes(_, _, _)
UnescapeBytes(s, j, acc) ==
    LET d == At(s, j + 1)
    IN  CASE j > Len(s) -> {acc}
          [] s[j] # Backslash -> UnescapeBytes(s, j + 1, Append(acc, s[j]))
          [] d \in DOMAIN Escaped -> UnescapeBytes(s, j + 2, Append(acc, Escaped[d]))
          [] d = "u" /\ SubSeq(s, j + 2, j + 5) = <<"high", Backslash, "u", "low">> ->
                 UnescapeBytes(s, j + 6, Append(acc, "pair"))
          [] d = "u" /\ At(s, j + 2) \in {"scalar", "high", "low"} ->
                 UnescapeBytes(s, j + 3,
                     Append(acc, IF s[j + 2] = "scalar" THEN "scalar" ELSE "replacement"))
          [] OTHER -> {}

Unescape(s) == UNION {Utf8Decode(u) : u \in UnescapeBytes(s, 1, << >>)}

ScanString(b, v) ==
    LET decoded(esc, texts, e) ==
            IF texts = {} THEN Err(v, IF esc THEN "BadEscape" ELSE "BadUtf8")
            ELSE Got(CHOOSE t \in texts : TRUE, e + 1)
        body(s, e) == IF Contains(s, Backslash) THEN decoded(TRUE, Unescape(s), e)
                      ELSE decoded(FALSE, Utf8Decode(s), e)
        closed(e) == IF e = 0 THEN Err(v, "ExpectedString") ELSE body(SubSeq(b, v + 1, e - 1), e)
    IN  IF At(b, v) = Quote THEN closed(StrClose(b, v + 1)) ELSE Err(v, "ExpectedString")

(* A definition's hints: "abbrev", "opaque" or {"regular":n}. *)
ScanHints(b, v) ==
    LET end(r, q) == IF At(b, q) = "}" THEN Got([h |-> "regular", n |-> r.v], q + 1)
                     ELSE Err(q, "ExpectedComma")
        height(r) == IF Fine(r) THEN end(r, SkipWs(b, r.at)) ELSE r
        valued(p, n) == IF n = p THEN Err(p, "ExpectedColon") ELSE height(SlotNat(b, n))
        keyed(p, ke) == IF ke = 0 \/ KeyAt(b, p, ke) # "regular" THEN Err(p, "BadHints")
                        ELSE valued(p, ValueAt(b, p, ke))
        object(p) == IF At(b, p) # Quote THEN Err(v, "BadHints") ELSE keyed(p, KeyEnd(b, p + 1))
    IN  CASE /\ At(b, v) = Quote
             /\ At(b, v + 1) \in {"abbrev", "opaque"}
             /\ At(b, v + 2) = Quote -> Got([h |-> b[v + 1], n |-> 0], v + 3)
          [] At(b, v) = "{"          -> object(SkipWs(b, v + 1))
          [] OTHER                   -> Err(v, "BadHints")

(* The header: brackets balanced, strings stepped over, never past a       *)
(* newline; 0 when it does not close.                                      *)
RECURSIVE SkipBraced(_, _, _)
SkipBraced(b, i, depth) ==
    CASE At(b, i) \in {"NUL", Newline} -> 0
      [] b[i] = Quote -> LET e == StrClose(b, i + 1)
                         IN  IF e = 0 THEN 0 ELSE SkipBraced(b, e + 1, depth)
      [] b[i] \in {"{", "["} -> SkipBraced(b, i + 1, depth + 1)
      [] b[i] \in {"}", "]"} -> IF depth = 0 THEN i + 1 ELSE SkipBraced(b, i + 1, depth - 1)
      [] OTHER -> SkipBraced(b, i + 1, depth)

ScanHeader(b, v) ==
    LET e == SkipBraced(b, v + 1, 0)
    IN  IF At(b, v) # "{" \/ e = 0 THEN Err(v, "ExpectedObject") ELSE Got("header", e)

-----------------------------------------------------------------------------
(* Record kinds: each key's reader, the keys that may be left out (opt),   *)
(* and the keys whose value is checked and dropped (drop)                  *)

Table(slots, opt, drop) == [slots |-> slots, opt |-> opt, drop |-> drop]

ConstVal == [levelParams |-> "natList", name |-> "nat", type |-> "nat"]

ScanStrName  == Table([pre |-> "nat", str |-> "string"], {}, {})
ScanNumName  == Table([i |-> "nat", pre |-> "nat"], {}, {})
ScanAppExpr  == Table([arg |-> "nat", fn |-> "nat"], {}, {})
ScanBinderExpr ==
    Table([binderInfo |-> "binderInfo", body |-> "nat", name |-> "nat", type |-> "nat"],
          {}, {"binderInfo", "name"})
ScanLetExpr ==
    Table([body |-> "nat", name |-> "nat", nondep |-> "bool", type |-> "nat", value |-> "nat"],
          {"nondep"}, {"name", "nondep"})
ScanConstExpr == Table([name |-> "nat", us |-> "natList"], {}, {})
ScanProjExpr  == Table([idx |-> "nat", struct |-> "nat", typeName |-> "nat"], {}, {})
ScanRule      == Table([ctor |-> "nat", nfields |-> "nat", rhs |-> "nat"], {}, {})
ScanIndRec ==
    Table([all |-> "natList", isUnsafe |-> "bool", k |-> "bool", numIndices |-> "nat",
           numMinors |-> "nat", numMotives |-> "nat", numParams |-> "nat", rules |-> "rules"]
          @@ ConstVal, {"all"}, {"all"})
ScanIndType ==
    Table([all |-> "natList", ctors |-> "natList", isRec |-> "bool", isReflexive |-> "bool",
           isUnsafe |-> "bool", numIndices |-> "nat", numNested |-> "nat",
           numParams |-> "nat"] @@ ConstVal, {"all"}, {"all"})
ScanIndCtor ==
    Table([cidx |-> "nat", induct |-> "nat", isUnsafe |-> "bool", numFields |-> "nat",
           numParams |-> "nat"] @@ ConstVal, {"cidx", "induct"}, {})
ScanAxiomDecl == Table([isUnsafe |-> "bool"] @@ ConstVal, {}, {})
ScanDefDecl ==
    Table([all |-> "natList", hints |-> "hints", safety |-> "string", value |-> "nat"]
          @@ ConstVal, {"all", "hints"}, {"all"})
ScanThmDecl ==
    Table([all |-> "natList", value |-> "nat"] @@ ConstVal, {"all"}, {"all"})
ScanOpaqueDecl ==
    Table([all |-> "natList", isUnsafe |-> "bool", value |-> "nat"] @@ ConstVal,
          {"all"}, {"all"})
ScanQuotDecl == Table([kind |-> "string"] @@ ConstVal, {}, {})
ScanIndDecl ==
    Table([all |-> "natList", ctors |-> "ctors", isUnsafe |-> "bool", recs |-> "recs",
           types |-> "types"], {"all", "isUnsafe"}, {"all", "isUnsafe"})

Objects ==
    [str |-> ScanStrName, num |-> ScanNumName, app |-> ScanAppExpr, lam |-> ScanBinderExpr,
     forallE |-> ScanBinderExpr, letE |-> ScanLetExpr, const |-> ScanConstExpr,
     proj |-> ScanProjExpr, rule |-> ScanRule, rec |-> ScanIndRec, indType |-> ScanIndType,
     ctor |-> ScanIndCtor, axiom |-> ScanAxiomDecl, def |-> ScanDefDecl, thm |-> ScanThmDecl,
     opaque |-> ScanOpaqueDecl, quot |-> ScanQuotDecl, inductive |-> ScanIndDecl]

(* What the loop's variables hold when an optional key never came. *)
Absent == [hints |-> [h |-> "regular", n |-> 0], cidx |-> -1, induct |-> -1]

(* The lists of records, and what each is a list of. *)
ListOf == [natList |-> "nat", rules |-> "rule", recs |-> "rec", types |-> "indType",
           ctors |-> "ctor"]

-----------------------------------------------------------------------------
(* Objects and lists *)

(* The next thing of an object: its closing brace, a key with its value's  *)
(* position, or an error.  A comma is taken once, between two members.     *)
Member(tag, at, want, key, v) ==
    [tag |-> tag, at |-> at, want |-> want, key |-> key, v |-> v]

RECURSIVE NextMember(_, _, _)
NextMember(b, i, want) ==
    LET stop(tag, p) == Member(tag, p, want, "none", 0)
        valued(p, ke, v) == IF v = p THEN stop("ExpectedColon", p)
                            ELSE Member("key", p, want, KeyAt(b, p, ke), v)
        keyed(p, ke) == IF ke = 0 THEN stop("ExpectedKey", p) ELSE valued(p, ke, ValueAt(b, p, ke))
        next(p) ==
            CASE At(b, p) = "}" -> stop("close", p)
              [] At(b, p) = "," -> IF want THEN stop("ExpectedKey", p)
                                   ELSE NextMember(b, p + 1, TRUE)
              [] At(b, p) = Quote /\ want -> keyed(p, KeyEnd(b, p + 1))
              [] OTHER -> stop("ExpectedComma", p)
    IN  next(SkipWs(b, i))

(* The value an object's members make, at its closing brace. *)
ClosedLax(table, m, vals) ==            \* mutant: a comma may come before the brace
    LET keys == DOMAIN table.slots
    IN  IF ~(keys \ table.opt \subseteq DOMAIN vals) THEN Err(m.at, "MissingKey")
        ELSE Got([key \in keys \ table.drop |-> (vals @@ Absent)[key]], m.at + 1)
Closed(table, m, vals) ==
    LET keys == DOMAIN table.slots
    IN  IF m.want /\ DOMAIN vals # {} THEN Err(m.at, "ExpectedKey")
        ELSE IF ~(keys \ table.opt \subseteq DOMAIN vals) THEN Err(m.at, "MissingKey")
        ELSE Got([key \in keys \ table.drop |-> (vals @@ Absent)[key]], m.at + 1)

(* One reader for every kind of value: a scalar, an object or a list.  An  *)
(* object or a list is read from its opening bracket (turn = "open") or    *)
(* from inside, with the members or items read so far in vals: a further   *)
(* one must come next (turn = "want") or a comma or the end ("have").      *)
RECURSIVE Read(_, _, _, _, _)
Read(what, b, i, turn, vals) ==
    CASE what = "nat"         -> SlotNat(b, i)
      [] what = "bool"        -> ScanBool(b, i)
      [] what = "string"      -> ScanString(b, i)
      [] what = "hints"       -> ScanHints(b, i)
      [] what = "binderInfo"  -> ScanBinderInfo(b, i)
      [] what = "quotedNat"   -> ScanQuotedNat(b, i)
      [] what = "header"      -> ScanHeader(b, i)
      [] what \in DOMAIN Objects /\ turn = "open" ->
             IF At(b, i) = "{" THEN Read(what, b, i + 1, "want", << >>)
             ELSE Err(i, "ExpectedObject")
      [] what \in DOMAIN Objects /\ turn # "open" ->
             LET goOn(m, r) == IF Fine(r) THEN Read(what, b, r.at, "have", vals @@ m.key :> r.v)
                               ELSE r
                 next(m) ==
                     CASE m.tag = "close" -> Closed(Objects[what], m, vals)
                       [] m.tag \notin {"close", "key"} -> Err(m.at, m.tag)
                       [] m.tag = "key" /\ m.key \notin DOMAIN Objects[what].slots ->
                              Err(m.at, "UnknownKey")
                       [] m.tag = "key" /\ m.key \in DOMAIN vals -> Err(m.at, "DuplicateKey")
                       [] OTHER -> goOn(m, Read(Objects[what].slots[m.key], b, m.v, "open", << >>))
             IN  next(NextMember(b, i, turn = "want"))
      [] what \in DOMAIN ListOf /\ turn = "open" ->
             IF At(b, i) = "[" THEN Read(what, b, i + 1, "want", << >>)
             ELSE Err(i, "ExpectedList")
      [] what \in DOMAIN ListOf /\ turn # "open" ->
             LET first   == IF what = "natList" THEN Digit ELSE {"{"}
                 goOn(r) == IF Fine(r) THEN Read(what, b, r.at, "have", Append(vals, r.v)) ELSE r
                 next(p) ==
                     CASE At(b, p) = "]" /\ (turn = "have" \/ vals = << >>) -> Got(vals, p + 1)
                       [] At(b, p) = "," /\ turn = "have" -> Read(what, b, p + 1, "want", vals)
                       [] At(b, p) \in first /\ turn = "want" ->
                              goOn(Read(ListOf[what], b, p, "open", << >>))
                       [] OTHER -> Err(p, "ExpectedList")
             IN  next(SkipWs(b, i))

Scan(what, b, i) == Read(what, b, i, "open", << >>)

-----------------------------------------------------------------------------
(* Lines *)

(* The index keys, and the table each announces. *)
IndexKeys == [in |-> "name", il |-> "level", ie |-> "expr"]

(* The payload keys: the table whose entries carry the key, its reader.    *)
NameKeys  == [str |-> "str", num |-> "num"]
LevelKeys == [succ |-> "nat", max |-> "natList", imax |-> "natList", param |-> "nat"]
ExprKeys  == [bvar |-> "nat", sort |-> "nat", const |-> "const", app |-> "app", lam |-> "lam",
              forallE |-> "forallE", letE |-> "letE", proj |-> "proj", natVal |-> "quotedNat",
              strVal |-> "string"]
DeclKeys  == [axiom |-> "axiom", def |-> "def", thm |-> "thm", opaque |-> "opaque",
              quot |-> "quot", inductive |-> "inductive"]
Payload   == NameKeys @@ LevelKeys @@ ExprKeys @@ DeclKeys @@ [meta |-> "header"]

TableOf(key) ==
    CASE key \in DOMAIN NameKeys  -> "name"
      [] key \in DOMAIN LevelKeys -> "level"
      [] key \in DOMAIN ExprKeys  -> "expr"
      [] OTHER                    -> "none"

ScanPayload(key, b, v) ==
    LET pair(r) == IF key \in {"max", "imax"} /\ Fine(r) /\ Len(r.v) # 2
                   THEN Err(v, "ExpectedList") ELSE r
    IN  pair(Scan(Payload[key], b, v))

Line(table, idx, key, v) == [table |-> table, idx |-> idx, key |-> key, v |-> v]
Blank  == Line("none", 0, "blank", "blank")
Nothing == Line("none", 0, "none", "none")

(* The members of one line: at most one index key and one payload key, in  *)
(* either order (l holds what came so far), matched at the closing brace.  *)
RECURSIVE ScanLineLoop(_, _, _, _)
ScanLineLoop(b, i, want, l) ==
    LET goOn(r, more) == IF Fine(r) THEN ScanLineLoop(b, r.at, FALSE, more) ELSE r
        index(m, n) == goOn(n, [l EXCEPT !.table = IndexKeys[m.key], !.idx = n.v])
        payload(m, r) == goOn(r, [l EXCEPT !.key = m.key, !.v = r.v])
        next(m) ==
            CASE m.tag = "close" ->
                     IF m.want /\ (l.table # "none" \/ l.key # "none") THEN Err(m.at, "ExpectedKey")
                     ELSE IF l.key = "none" THEN Err(m.at, "MissingKey")
                     ELSE IF l.table # TableOf(l.key) THEN Err(m.at, "MixedKeys")
                     ELSE Got(l, m.at + 1)
              [] m.tag \notin {"close", "key"} -> Err(m.at, m.tag)
              [] m.key \in DOMAIN IndexKeys ->
                     IF l.table # "none" THEN Err(m.at, "DuplicateKey")
                     ELSE index(m, SlotNat(b, m.v))
              [] m.key \in DOMAIN Payload ->
                     IF l.key # "none" THEN Err(m.at, "DuplicateKey")
                     ELSE payload(m, ScanPayload(m.key, b, m.v))
              [] OTHER -> Err(m.at, "UnknownKey")
    IN  next(NextMember(b, i, want))

(* The record of the line at i and the position after its newline, or 0    *)
(* when the buffer ended first.                                            *)
ScanLineFwd(b, i) ==
    LET after(r, p) == IF At(b, p) = Newline THEN Got(r.v, p + 1)
                       ELSE IF p > Len(b) THEN Got(r.v, 0)
                       ELSE Err(p, "Trailing")
        ended(r) == IF Fine(r) THEN after(r, SkipWs(b, r.at)) ELSE r
        from(s) == IF At(b, s) = Newline THEN Got(Blank, s + 1)
                   ELSE IF s > Len(b) THEN Got(Blank, 0)
                   ELSE IF At(b, s) # "{" THEN Err(s, "ExpectedObject")
                   ELSE ended(ScanLineLoop(b, s + 1, TRUE, Nothing))
    IN  from(SkipWs(b, i))
=============================================================================
