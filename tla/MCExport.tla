------------------------------- MODULE MCExport -------------------------------
(***************************************************************************)
(* The export reader on small files, cut into chunks in every way and      *)
(* failing at every read; and its recogniser and block checks on single    *)
(* records.  Then the pin texts: what the writer writes, with one symbol   *)
(* changed or none.  A probe is what a behaviour is about; only a file is  *)
(* read in steps.                                                          *)
(***************************************************************************)
EXTENDS Export, PinsDump, Chunks

VARIABLE probe

Listed(S) == FoldSet(LAMBDA x, l : Append(l, x), << >>, S)

q(x) == <<Quote, x, Quote>>
Key(x) == q(x) \o <<":">>

-----------------------------------------------------------------------------
(* Files, as lists of sample lines, each with what it is to do: bind an    *)
(* entry, push a declaration, nothing, or stop the parse.                  *)

Entry(table, i, payload, head, needs, rest) ==
    [text |-> <<"{">> \o Key(CHOOSE k \in DOMAIN IndexKeys : IndexKeys[k] = table)
              \o <<ToString(i), ",">> \o payload \o <<"}">>,
     op |-> "bind", at |-> <<table, i>>, head |-> head, needs |-> needs, rest |-> rest]
Plain(l, op) ==
    [text |-> l, op |-> op, at |-> << >>, head |-> << >>, needs |-> << >>, rest |-> << >>]

StrPayload(pre, s) ==
    Key("str") \o <<"{">> \o Key("pre") \o <<ToString(pre), ",">> \o Key("str") \o q(s) \o <<"}">>

Samples ==
    [nameA   |-> Entry("name", 1, StrPayload(0, "a"), <<"str">>, << <<"name", 0>> >>, << <<"a">> >>),
     nameAB  |-> Entry("name", 2, StrPayload(1, "b"), <<"str">>, << <<"name", 1>> >>, << <<"b">> >>),
     again   |-> Entry("name", 1, StrPayload(0, "c"), <<"str">>, << <<"name", 0>> >>, << <<"c">> >>),
     sparse  |-> Entry("name", 4, StrPayload(2, "d"), <<"str">>, << <<"name", 2>> >>, << <<"d">> >>),
     level   |-> Entry("level", 1, Key("succ") \o <<"0">>, <<"succ">>, << <<"level", 0>> >>, << >>),
     prop    |-> Entry("expr", 0, Key("sort") \o <<"0">>, <<"sort">>, << <<"level", 0>> >>, << >>),
     sort    |-> Entry("expr", 1, Key("sort") \o <<"1">>, <<"sort">>, << <<"level", 1>> >>, << >>),
     axiom   |-> [Plain(<<"{">> \o Key("axiom") \o <<"{">> \o Key("name") \o <<"1", ",">>
                        \o Key("levelParams") \o <<"[", "]", ",">> \o Key("type") \o <<"0", ",">>
                        \o Key("isUnsafe") \o <<"false", "}", "}">>, "declare")
                  EXCEPT !.needs = << <<"name", 1>>, <<"expr", 0>> >>],
     blank   |-> Plain(<<" ">>, "skip"),
     header  |-> Plain(<<"{">> \o Key("meta") \o <<"{">> \o Key("x") \o q("}") \o <<"}", "}">>, "skip"),
     comma   |-> Plain(<<"{">> \o Key("il") \o <<"1">> \o Key("succ") \o <<"0", "}">>, "internal"),
     cut     |-> Plain(<<"{">> \o Key("il") \o <<"1", Newline, ",">> \o Key("succ") \o <<"0", "}">>,
                       "internal"),
     inText  |-> Plain(<<"{">> \o Key("in") \o <<"1", ",">> \o Key("str") \o <<"{">> \o Key("pre")
                       \o <<"0", ",">> \o Key("str") \o <<Quote, "a", Newline, Quote, "}", "}">>,
                       "internal"),
     inMeta  |-> Plain(<<"{">> \o Key("meta") \o <<"{", Newline, "}", "}">>, "internal"),
     after   |-> Plain(<<"{">> \o Key("ie") \o <<"0", ",">> \o Key("bvar") \o <<"0", "}", "0">>,
                       "internal"),
     huge    |-> Plain(<<"{">> \o Key("il") \o <<"1", ",">> \o Key("succ") \o <<"4", "0", "}">>,
                       "native")]

(* A line that stops the parse is followed by nothing. *)
Known == <<"nameA", "prop">>
Files ==
    LET goesOn == {id \in DOMAIN Samples : Samples[id].op \notin {"internal", "native"}}
        one    == {<< >>} \cup {<<id>> : id \in DOMAIN Samples}
    IN  one \cup {Known \o f : f \in one} \cup {Known \o <<x>> \o f : x \in goesOn, f \in one}

FileText(f, ended) ==
    LET lines == [k \in DOMAIN f |->
                     Samples[f[k]].text \o (IF k = Len(f) /\ ~ended THEN << >> ELSE <<Newline>>)]
    IN  FlattenSeq(lines)
FileTexts == {FileText(f, ended) : f \in Files, ended \in BOOLEAN}

(* What reading the lines must come to, line by line: m is the meaning of  *)
(* every index bound so far.                                               *)
Start == [v |-> "ok", m |-> <<"name", 0>> :> Anonymous @@ <<"level", 0>> :> LZero, decls |-> << >>]

After(acc, id) ==
    LET s  == Samples[id]
        ns == [k \in DOMAIN s.needs |-> acc.m[s.needs[k]]]
    IN  IF acc.v # "ok" THEN acc
        ELSE IF s.op \in {"internal", "native"} THEN [acc EXCEPT !.v = s.op]
        ELSE IF s.op = "skip" THEN acc
        ELSE IF s.at \in DOMAIN acc.m \/ ~(Range(s.needs) \subseteq DOMAIN acc.m)
             THEN [acc EXCEPT !.v = "internal"]
        ELSE IF s.op = "bind" THEN [acc EXCEPT !.m = s.at :> (s.head \o ns \o s.rest) @@ @]
        ELSE [acc EXCEPT !.decls = Append(@, [kind |-> "axiom",
                 cv |-> [name |-> ns[1], type |-> ns[2], levelParams |-> << >>]])]

Meaning(f) == FoldLeft(After, Start, f)

(* Whatever the cuts between two reads, the report is the verdict of the   *)
(* lines taken one at a time, with their declarations, and a read that     *)
(* failed is reported and never a verdict.                                 *)
(* parse_source, feed_chunk, apply_line, parse_export_handle_d.            *)
ReadExact ==
    out.stage = "reported" /\ probe.of = "file" =>
        IF failed THEN out.o.v = "readError"
        ELSE \E m \in {Meaning(probe.file)} :
                /\ out.o.v = m.v
                /\ m.v = "ok" => st.decls = m.decls

-----------------------------------------------------------------------------
(* Single objects: every kind, its members in several orders, one left     *)
(* out or none, and at most one flaw.                                      *)

Orders(what) ==
    LET ks == Listed(DOMAIN Objects[what].slots)
        n  == Len(ks)
        turned(k) == [i \in 1..n |-> ks[((i + k) % n) + 1]]
    IN  {turned(k) : k \in 0..(n - 1)} \cup {Reverse(ks)}

Flaws == {"none", "again", "strange", "trailing", "double", "leading", "noComma", "noColon"}

(* A value of each sort of member: as written, and as read. *)
RECURSIVE Sample(_)
Sample(what) ==
    CASE what = "nat"        -> [w |-> <<"3", "0">>, r |-> 30]
      [] what = "bool"       -> [w |-> <<"true">>, r |-> TRUE]
      [] what = "string"     -> [w |-> <<Quote, "x", Backslash, "n", Quote>>, r |-> <<"x", Newline>>]
      [] what = "hints"      -> [w |-> <<"{">> \o Key("regular") \o <<"7", "}">>,
                                 r |-> [h |-> "regular", n |-> 7]]
      [] what = "binderInfo" -> [w |-> q("implicit"), r |-> "dropped"]
      [] what = "natList"    -> [w |-> <<"[", "0", " ", ",", "9", "]">>, r |-> <<0, 9>>]
      [] what \in {"rules", "recs", "types", "ctors"} ->
             [w |-> <<"[">> \o Sample(ListOf[what]).w \o <<",">> \o Sample(ListOf[what]).w \o <<"]">>,
              r |-> <<Sample(ListOf[what]).r, Sample(ListOf[what]).r>>]
      [] OTHER ->
             LET slots == Objects[what].slots
                 ks    == Listed(DOMAIN slots)
                 parts == [i \in DOMAIN ks |-> Key(ks[i]) \o Sample(slots[ks[i]]).w]
             IN  [w |-> <<"{">> \o FlattenSeq([i \in DOMAIN ks |->
                            IF i = 1 THEN parts[i] ELSE <<",">> \o parts[i]]) \o <<"}">>,
                  r |-> [k \in DOMAIN slots \ Objects[what].drop |-> Sample(slots[k]).r]]

SampleOf ==
    [what \in DOMAIN Objects \cup DOMAIN ListOf
              \cup {"nat", "bool", "string", "hints", "binderInfo"} |-> Sample(what)]

(* Blanks wherever they may stand. *)
RECURSIVE Spaced(_)
Spaced(w) ==
    LET half == Len(w) \div 2
    IN  CASE Len(w) > 1 -> Spaced(SubSeq(w, 1, half)) \o Spaced(SubSeq(w, half + 1, Len(w)))
          [] w[1] \in {"{", "}", ",", "[", "]"} -> <<" ", w[1], "tab">>
          [] OTHER -> w

Written(p) ==
    LET slots == Objects[p.what].slots
        ks    == SelectSeq(p.order, LAMBDA k : k # p.left)
                 \o (IF p.flaw = "again" THEN <<p.order[1]>> ELSE << >>)
        w(k)  == IF p.flaw = "strange" /\ k = p.order[1] THEN q("zzz") \o <<":", "0">>
                 ELSE IF p.flaw = "noColon" /\ k = p.order[1] THEN q(k) \o SampleOf[slots[k]].w
                 ELSE Key(k) \o SampleOf[slots[k]].w
        sep   == CASE p.flaw = "double"  -> <<",", ",">>
                   [] p.flaw = "noComma" -> << >>
                   [] OTHER              -> <<",">>
        body  == FlattenSeq([i \in DOMAIN ks |-> IF i = 1 THEN w(ks[i]) ELSE sep \o w(ks[i])])
        whole == <<"{">> \o (IF p.flaw = "leading" THEN <<",">> ELSE << >>) \o body
                 \o (IF p.flaw = "trailing" THEN <<",">> ELSE << >>) \o <<"}">>
    IN  IF p.spaced THEN Spaced(whole) ELSE whole

RecordProbe(what, order, left, flaw, spaced) ==
    [of |-> "record", what |-> what, order |-> order, left |-> left, flaw |-> flaw, spaced |-> spaced]
RecordProbes ==
    UNION {{RecordProbe(what, order, "none", flaw, FALSE) : order \in Orders(what), flaw \in Flaws}
           \cup {RecordProbe(what, order, order[1], "none", spaced) :
                    order \in Orders(what), spaced \in BOOLEAN}
           \cup {RecordProbe(what, order, "none", "none", TRUE) : order \in Orders(what)} :
              what \in DOMAIN Objects}

(* A record is read to the values written, in whatever order and spacing   *)
(* its members come; it is refused when a member is missing that must be   *)
(* there, comes twice or is unknown, or when a comma or a colon is missing *)
(* or one too many.  scan_str_name ... scan_ind_decl, next_member.         *)
RecordsExact ==
    probe.of = "record" =>
        LET w == Written(probe)
            o == Objects[probe.what]
        IN  \E r \in {Scan(probe.what, w, IF probe.spaced THEN 2 ELSE 1)} :
              /\ Fine(r) <=> (probe.flaw = "none" /\ probe.left \in o.opt \cup {"none"})
              /\ Fine(r) =>
                   /\ At(w, r.at - 1) = "}" /\ r.at > Len(w) - (IF probe.spaced THEN 1 ELSE 0)
                   /\ \A k \in DOMAIN r.v :
                        r.v[k] = IF k = probe.left THEN Absent[k] ELSE SampleOf[o.slots[k]].r

-----------------------------------------------------------------------------
(* An inductive block of two types whose records come in any order, with   *)
(* one number that does not agree with the rest, or none.                  *)

Nm(x)  == <<"str", Anonymous, <<x>> >>
Sort1  == <<"sort", LSucc(LZero)>>
TypeT  == <<"const", Nm("T"), << >> >>
Base ==
    [StateDInit EXCEPT
        !.names.dense = @ \o <<Nm("T"), Nm("U"), Nm("c"), Nm("d"), Nm("e"),
                               <<"str", Nm("T"), <<"rec">> >>, <<"str", Nm("U"), <<"rec">> >> >>,
        !.exprs.dense = <<Sort1, TypeT, <<"forallE", TypeT, TypeT>>, <<"forallE", TypeT, Sort1>> >>]

CV(name, type) == [name |-> name, type |-> type, levelParams |-> << >>]
TypeRec(name, type, ctors, idxs) ==
    CV(name, type) @@ [ctors |-> ctors, isRec |-> FALSE, isReflexive |-> FALSE, isUnsafe |-> FALSE,
                       numIndices |-> idxs, numNested |-> 0, numParams |-> 0]
CtorRec(name, type, cidx, induct, fields) ==
    CV(name, type) @@ [cidx |-> cidx, induct |-> induct, isUnsafe |-> FALSE, numFields |-> fields,
                       numParams |-> 0]
RecRec(name, idxs) ==
    CV(name, 0) @@ [isUnsafe |-> FALSE, k |-> FALSE, numIndices |-> idxs, numMinors |-> 3,
                    numMotives |-> 2, numParams |-> 0, rules |-> << >>]

(* T : Sort with c : T and d : T -> T, U : T -> Sort with e : T -> T.      *)
TheTypes == <<TypeRec(1, 0, <<3, 4>>, 0), TypeRec(2, 3, <<5>>, 1)>>
TheCtors == <<CtorRec(3, 1, 0, 1, 0), CtorRec(4, 2, 1, 1, 1), CtorRec(5, 2, 0, 2, 1)>>
TheRecs  == <<RecRec(6, 0), RecRec(7, 1)>>

Lies ==
    [none |-> {}, cidx |-> 1..3, induct |-> 1..3, numFields |-> 1..3, name |-> 1..3,
     silent |-> 1..3, motives |-> 1..2, minors |-> 1..2, indices |-> 1..2, unsafe |-> 1..2,
     params |-> 1..2]
BlockProbes ==
    {[of |-> "block", perm |-> p, lie |-> l, who |-> w] :
        p \in {p \in [1..3 -> 1..3] : IsInjective(p)}, l \in DOMAIN Lies, w \in 0..3}

Told(p) ==
    LET lie(l, k) == p.lie = l /\ p.who = k
        ctor(k) ==
            LET c == TheCtors[k]
            IN  [c EXCEPT !.cidx = IF lie("cidx", k) THEN 1 - @ ELSE IF lie("silent", k) THEN -1 ELSE @,
                          !.induct = IF lie("induct", k) THEN 3 - @ ELSE IF lie("silent", k) THEN -1 ELSE @,
                          !.numFields = IF lie("numFields", k) THEN @ + 1 ELSE @,
                          !.name = IF lie("name", k) THEN 1 ELSE @]
        rc(k) ==
            [TheRecs[k] EXCEPT !.numMotives = IF lie("motives", k) THEN 1 ELSE @,
                               !.numMinors = IF lie("minors", k) THEN 2 ELSE @,
                               !.numIndices = IF lie("indices", k) THEN 1 - @ ELSE @]
        ty(k) ==
            [TheTypes[k] EXCEPT !.isUnsafe = lie("unsafe", k),
                                !.numParams = IF lie("params", k) THEN 1 ELSE @]
    IN  [types |-> [k \in 1..2 |-> ty(k)], ctors |-> [k \in 1..3 |-> ctor(p.perm[k])],
         recs |-> [k \in 1..2 |-> rc(k)]]

(* A block is taken exactly when its redundant numbers agree with what its *)
(* types, constructors and names say; and it is recorded in the order its  *)
(* types list the constructors, whatever the order of the records.         *)
(* validate_ind_d, order_block_ctors, install_ind_d.                       *)
BlockExact ==
    probe.of = "block" =>
        \E a \in {ApplyLine(Base, Line("none", 0, "inductive", Told(probe)))} :
            LET honest == probe.lie \in {"none", "silent"} \/ probe.who \notin Lies[probe.lie]
            IN  /\ (a.v = "ok") <=> honest
                /\ a.v = "declined" => probe.lie \in {"unsafe", "params"}
                /\ IF honest
                   THEN [k \in DOMAIN a.st.decls[1].block |-> a.st.decls[1].block[k].cv.name]
                          = SubSeq(Base.names.dense, 2, 8)
                   ELSE a.st = Base

-----------------------------------------------------------------------------
(* Pin lists and their texts, as written or with one symbol changed.       *)

Word(x)  == <<"str", Anonymous, x>>
Under(n) == <<"str", n, <<32, 92, 1114111>> >>
Depth    == <<"imax", LMax(LSucc(LZero), LParam(Under(Word(<<97>>)))), LZero>>
TheSort  == <<"sort", Depth>>
TheConst == <<"const", <<"num", Word(<<97>>), 7>>, <<LZero, Depth>> >>
TheArrow == <<"forallE", TheConst, <<"lam", TheSort, <<"bvar", 0>> >> >>
Lits     == <<"app", <<"nat", 120>>, <<"string", <<98, 49>> >> >>
TheLet   == <<"let", TheSort, Lits, <<"proj", Word(<< >>), 1, <<"fvar", 3, TheSort>> >> >>

PinSet(tc, pins, proofs, type_pins) ==
    LET eight(xs, x) == [k \in 1..8 |-> IF k <= Len(xs) THEN xs[k] ELSE x]
    IN  [toolchain |-> tc, pins |-> eight(pins, TheSort), proofs |-> eight(proofs, << >>),
         type_pins |-> eight(type_pins, << >>)]
PinLists ==
    << << >>,
       <<PinSet(<<118, 32>>, <<TheArrow, TheLet, TheSort, Lits>>, <<<<Lits, TheConst>>, << >>, <<TheLet>> >>,
                <<<< <<Word(<<98>>), TheArrow>>, <<Anonymous, TheSort>> >> >>)>>,
       <<PinSet(<< >>, <<TheConst>>, << >>, << >>), PinSet(<<120>>, <<Lits>>, << >>, << >>)>> >>
Edited(t, edit, i, c) ==
    LET before == SubSeq(t, 1, i - 1)
        after  == SubSeq(t, i + 1, Len(t))
    IN  CASE edit = "delete" -> before \o after
          [] edit = "insert" -> before \o <<c, t[i]>> \o after
          [] edit = "put"    -> before \o <<c>> \o after

PinProbe(k, edit, t) == [of |-> "pins", list |-> k, edit |-> edit, text |-> t]
Unedited(k)    == PinProbe(k, "none", DumpPins(PinLists[k]))
EditsOf(k, t)  ==
    {PinProbe(k, "delete", Edited(t, "delete", i, "")) : i \in DOMAIN t}
    \cup {PinProbe(k, "insert", Edited(t, "insert", i, c)) : i \in DOMAIN t, c \in {Space, "3"}}
    \cup {PinProbe(k, "put", Edited(t, "put", i, c)) : i \in DOMAIN t, c \in {Newline, "1"}}
PinProbes ==
    {Unedited(k) : k \in DOMAIN PinLists} \cup EditsOf(2, DumpPins(PinLists[2]))

(* What the writer wrote, both readers read as the pins that were written. *)
(* Of a text with one symbol changed the decoder takes nothing but what    *)
(* the line reader takes, and to the same pins: no id, count or field is   *)
(* taken for another one.  decode, parse_pins, dump_pins.                  *)
PinReadersAgree ==
    probe.of = "pins" =>
        \E d \in {Decode(probe.text)}, l \in {ParsePins(probe.text)} :
            /\ probe.edit = "none" => Fine(d) /\ d.v = PinLists[probe.list]
            /\ Fine(d) => Fine(l) /\ l.v = d.v

-----------------------------------------------------------------------------
TheChunkSizes == {1, 15}
TheSymbols == STRING

FileProbes == {[of |-> "file", file |-> f, ended |-> e] : f \in Files, e \in BOOLEAN}

InitMC ==
    /\ probe \in FileProbes \cup RecordProbes \cup BlockProbes \cup PinProbes
    /\ text = IF probe.of = "file" THEN FileText(probe.file, probe.ended) ELSE << >>
    /\ InitReader

NextMC == probe.of = "file" /\ NextReader /\ UNCHANGED probe

SpecMC == InitMC /\ [][NextMC]_<<readVars, probe>>
=============================================================================
