----------------------------- MODULE ChunksProofs -----------------------------
(***************************************************************************)
(* The reader loop does what the parse of the whole text does, for every   *)
(* recogniser that reads one line at a time, every semantic layer, every   *)
(* text and all sizes of chunks.  The invariant says where in the text the *)
(* buffer and the position are; a step of the loop on the buffer is then   *)
(* the step of the parse on the text.                                      *)
(***************************************************************************)
EXTENDS Chunks, TLAPS, FiniteSetTheorems, SequenceTheorems

(* The buffer is the text from d + 1 to m, a line begins where it begins   *)
(* and where the position is, and what was not read is what follows it.    *)
At(d, m) ==
  /\ buf = SubSeq(text, d + 1, m) /\ src = SubSeq(text, m + 1, Len(text))
  /\ pos \in 1 .. m - d + 1
  /\ d + 1 \in LineStarts(text) /\ d + pos \in LineStarts(text)

InPlace ==
  /\ text \in Texts
  /\ \E d \in 0 .. Len(text) : \E m \in d .. Len(text) : At(d, m)

(* A read fails only once nothing is read any more.                        *)
Staged ==
  /\ failed \in BOOLEAN
  /\ failed => out # Whole!Reading

(* The position in the text, and the ends of line before a position.       *)
Here == Len(text) - Len(src) - Len(buf) + pos
EndsBefore(t, p) == {k \in 1 .. p - 1 : t[k] = EndOfLine}

(* Lines are counted by their ends: the line an error names is the line it *)
(* is in.                                                                  *)
Counted == line = Cardinality(EndsBefore(text, Here))

Inv == InPlace /\ Staged /\ Counted

-----------------------------------------------------------------------------
LEMMA TextIs ==
  ASSUME NEW t \in Texts
  PROVE  t \in Seq(Symbol) /\ Len(t) \in Nat
BY TextsAssumption, LenProperties

(* A piece of a text.                                                      *)
LEMMA PieceIs ==
  ASSUME NEW t \in Texts, NEW d \in 0 .. Len(t), NEW m \in d .. Len(t)
  PROVE  /\ SubSeq(t, d + 1, m) \in Seq(Symbol)
         /\ Len(SubSeq(t, d + 1, m)) = m - d
         /\ \A i \in 1 .. m - d : SubSeq(t, d + 1, m)[i] = t[d + i]
<1>1. t \in Seq(Symbol) /\ Len(t) \in Nat
  BY TextIs
<1>2. \A i \in d + 1 .. m : t[i] \in Symbol
  BY <1>1, ElementOfSeq
<1>3. d + 1 \in Int /\ m \in Int
  BY <1>1
<1>4. /\ SubSeq(t, d + 1, m) \in Seq(Symbol)
      /\ Len(SubSeq(t, d + 1, m)) = IF d + 1 <= m THEN m - (d + 1) + 1 ELSE 0
      /\ \A i \in 1 .. m - (d + 1) + 1 : SubSeq(t, d + 1, m)[i] = t[d + 1 + i - 1]
  BY <1>2, <1>3, SubSeqProperties
<1> QED
  BY <1>1, <1>4

(* A piece of a piece.                                                     *)
LEMMA PieceOfPiece ==
  ASSUME NEW t \in Texts, NEW d \in 0 .. Len(t), NEW m \in d .. Len(t),
         NEW i \in 0 .. m - d, NEW j \in i .. m - d
  PROVE  SubSeq(SubSeq(t, d + 1, m), i + 1, j) = SubSeq(t, d + i + 1, d + j)
<1> DEFINE b == SubSeq(t, d + 1, m)
           x == SubSeq(b, i + 1, j)
           y == SubSeq(t, (d + i) + 1, d + j)
<1>1. Len(t) \in Nat
  BY TextIs
<1>2. b \in Seq(Symbol) /\ Len(b) = m - d /\ \A k \in 1 .. m - d : b[k] = t[d + k]
  BY PieceIs
<1>3. y \in Seq(Symbol) /\ Len(y) = j - i /\ \A k \in 1 .. j - i : y[k] = t[d + i + k]
  <2>1. d + i \in 0 .. Len(t) /\ d + j \in d + i .. Len(t)
    BY <1>1
  <2> DEFINE u == d + i
             v == d + j
  <2> HIDE DEF u, v
  <2>2. u \in 0 .. Len(t) /\ v \in u .. Len(t)
    BY <2>1 DEF u, v
  <2>3. /\ SubSeq(t, u + 1, v) \in Seq(Symbol)
        /\ Len(SubSeq(t, u + 1, v)) = v - u
        /\ \A k \in 1 .. v - u : SubSeq(t, u + 1, v)[k] = t[u + k]
    BY <2>2, PieceIs
  <2>4. v - u = j - i
    BY <1>1 DEF u, v
  <2> QED
    BY <2>3, <2>4 DEF u, v
<1>4. x \in Seq(Symbol) /\ Len(x) = j - i /\ \A k \in 1 .. j - i : x[k] = b[i + k]
  <2> HIDE DEF b
  <2>1. \A k \in i + 1 .. j : b[k] \in Symbol
    BY <1>1, <1>2, ElementOfSeq
  <2>2. i + 1 \in Int /\ j \in Int
    BY <1>1
  <2>3. /\ x \in Seq(Symbol)
        /\ Len(x) = IF i + 1 <= j THEN j - (i + 1) + 1 ELSE 0
        /\ \A k \in 1 .. j - (i + 1) + 1 : x[k] = b[i + 1 + k - 1]
    BY <2>1, <2>2, SubSeqProperties
  <2> QED
    BY <1>1, <2>3
<1> HIDE DEF b, x, y
<1>5. ASSUME NEW k \in 1 .. Len(x) PROVE x[k] = y[k]
  <2>1. k \in 1 .. j - i /\ i + k \in 1 .. m - d /\ d + (i + k) = d + i + k
    BY <1>1, <1>4
  <2>2. x[k] = b[i + k] /\ b[i + k] = t[d + (i + k)] /\ y[k] = t[d + i + k]
    BY <1>2, <1>3, <1>4, <2>1
  <2> QED
    BY <2>1, <2>2
<1>6. x = y
  BY <1>3, <1>4, <1>5, SeqEqual
<1> QED
  BY <1>1, <1>6 DEF x, y, b

(* Where the buffer lies is told by the lengths.                           *)
LEMMA PlaceIs ==
  ASSUME text \in Texts, NEW d \in 0 .. Len(text), NEW m \in d .. Len(text), At(d, m)
  PROVE  /\ Len(text) \in Nat
         /\ Len(buf) = m - d /\ Len(src) = Len(text) - m
         /\ Here = d + pos
         /\ \A i \in 1 .. m - d : buf[i] = text[d + i]
<1>1. Len(text) \in Nat
  BY TextIs
<1>2. m \in 0 .. Len(text) /\ Len(text) \in m .. Len(text)
  BY <1>1
<1>3. Len(src) = Len(text) - m
  BY <1>2, PieceIs DEF At
<1>4. Len(buf) = m - d /\ \A i \in 1 .. m - d : buf[i] = text[d + i]
  BY PieceIs DEF At
<1> QED
  <2>1. pos \in Int
    BY <1>1 DEF At
  <2>2. Len(text) - Len(src) - Len(buf) + pos = d + pos
    BY <1>1, <1>3, <1>4, <2>1
  <2> QED
    BY <1>1, <1>3, <1>4, <2>2 DEF Here

-----------------------------------------------------------------------------
(* What the recogniser says of the line at k in the buffer, and of the     *)
(* same line in the text.                                                  *)
LEMMA LineIn ==
  ASSUME NEW t \in Texts, NEW d \in 0 .. Len(t), NEW m \in d .. Len(t), NEW k \in 1 .. m - d,
         d + 1 \in LineStarts(t), d + k \in LineStarts(t)
  PROVE  LET b == SubSeq(t, d + 1, m)
             r == ScanLine(b, k)
         IN  /\ ReadsOneLine(b, k, r)
             /\ m = Len(t) \/ Whole!NewlineFrom(b, k) => SameLine(r, ScanLine(t, d + k), d)
<1>1. Len(t) \in Nat
  BY TextIs
<1>2. d + 1 <= d + k /\ m \in d + k .. Len(t) /\ (d + k) - (d + 1) + 1 = k /\ (d + 1) - 1 = d
  BY <1>1
<1>3. \A a, p \in LineStarts(t) : \A e \in p .. Len(t) :
        a <= p =>
          /\ ReadsOneLine(SubSeq(t, a, e), p - a + 1, ScanLine(SubSeq(t, a, e), p - a + 1))
          /\ e = Len(t) \/ Whole!NewlineFrom(SubSeq(t, a, e), p - a + 1) =>
               SameLine(ScanLine(SubSeq(t, a, e), p - a + 1), ScanLine(t, p), a - 1)
  BY ScannerAssumption
<1>4. /\ ReadsOneLine(SubSeq(t, d + 1, m), d + k - (d + 1) + 1,
                      ScanLine(SubSeq(t, d + 1, m), d + k - (d + 1) + 1))
      /\ m = Len(t) \/ Whole!NewlineFrom(SubSeq(t, d + 1, m), d + k - (d + 1) + 1) =>
           SameLine(ScanLine(SubSeq(t, d + 1, m), d + k - (d + 1) + 1), ScanLine(t, d + k), d + 1 - 1)
  BY <1>2, <1>3
<1> QED
  BY <1>2, <1>4

Shifted(f, g, n) == g.o = f.o /\ g.st = f.st /\ g.line = f.line /\ g.at = f.at + n

(* A turn of the feed is the same turn wherever the line is.               *)
LEMMA SameTurn ==
  ASSUME NEW b, NEW t, NEW p \in Nat, NEW n \in Nat, NEW s, NEW c,
         SameLine(ScanLine(b, p), ScanLine(t, p + n), n),
         ScanLine(b, p).tag = "ok" => ScanLine(b, p).at # 0
  PROVE  Shifted(Whole!Turn(b, p, s, c), Whole!Turn(t, p + n, s, c), n)
<1> DEFINE r == ScanLine(b, p)
           q == ScanLine(t, p + n)
<1>1. r.tag = q.tag /\ r.v = q.v /\ r.at \in Nat /\ q.at \in Nat /\ r.at + n = q.at
  BY DEF SameLine
<1>2. Whole!Took(s, r) = Whole!Took(s, q)
  BY <1>1 DEF Whole!Took, Whole!Scanned
<1>3. r.at > p <=> q.at > p + n
  BY <1>1
<1>4. r.at - p = q.at - (p + n)
  BY <1>1
<1>5. Whole!Said(Whole!Took(s, r), r, p, c + 1) = Whole!Said(Whole!Took(s, q), q, p + n, c + 1)
  BY <1>1, <1>2, <1>4 DEF Whole!Said, Whole!Scanned
<1> DEFINE a == Whole!Took(s, r)
           x == Whole!Said(a, r, p, c + 1)
<1>6. Whole!Turn(b, p, s, c) =
        IF a.v = "ok" /\ r.at > p
          THEN [o |-> Whole!AllFine, st |-> a.st, line |-> c + 1, at |-> r.at]
          ELSE [o |-> IF a.v = "ok" THEN Whole!Verdict("internal", c + 1, "noProgress", 0) ELSE x,
                st |-> s, line |-> c, at |-> p]
  BY DEF Whole!Turn
<1>7. Whole!Turn(t, p + n, s, c) =
        IF a.v = "ok" /\ r.at > p
          THEN [o |-> Whole!AllFine, st |-> a.st, line |-> c + 1, at |-> r.at + n]
          ELSE [o |-> IF a.v = "ok" THEN Whole!Verdict("internal", c + 1, "noProgress", 0) ELSE x,
                st |-> s, line |-> c, at |-> p + n]
  BY <1>1, <1>2, <1>3, <1>5 DEF Whole!Turn
<1> HIDE DEF a, x, r, q
<1> QED
  BY <1>6, <1>7 DEF Shifted

(* The last line is the same in the text and in what is carried of it.     *)
LEMMA SameFinal ==
  ASSUME NEW b, NEW t, NEW n \in Nat, NEW s, NEW c,
         SameLine(ScanLine(b, 1), ScanLine(t, n + 1), n)
  PROVE  Whole!Final(b, 1, s, c) = Whole!Final(t, n + 1, s, c)
<1> DEFINE r == ScanLine(b, 1)
           q == ScanLine(t, n + 1)
<1>1. r.tag = q.tag /\ r.v = q.v /\ r.at \in Nat /\ q.at \in Nat
  BY DEF SameLine
<1>2. r.tag # "ok" => r.at - 1 = q.at - (n + 1)
  BY <1>1 DEF SameLine
<1>3. Whole!Took(s, r) = Whole!Took(s, q)
  BY <1>1 DEF Whole!Took, Whole!Scanned
<1>4. Whole!Said(Whole!Took(s, r), r, 1, c) = Whole!Said(Whole!Took(s, q), q, n + 1, c)
  <2>1. CASE Whole!Scanned(r)
    BY <1>1, <1>3, <2>1 DEF Whole!Said, Whole!Scanned
  <2>2. CASE ~ Whole!Scanned(r)
    BY <1>1, <1>2, <2>2 DEF Whole!Said, Whole!Scanned
  <2> QED
    BY <2>1, <2>2
<1> QED
  BY <1>3, <1>4 DEF Whole!Final

-----------------------------------------------------------------------------
(* Behind the first end of line from p on, one line more is counted.       *)
LEMMA NextEnd ==
  ASSUME NEW t \in Texts, NEW p \in Nat \ {0}, NEW e \in Nat, p <= e, e <= Len(t),
         t[e] = EndOfLine, \A k \in p .. e - 1 : t[k] # EndOfLine
  PROVE  /\ e + 1 \in LineStarts(t)
         /\ Cardinality(EndsBefore(t, e + 1)) = Cardinality(EndsBefore(t, p)) + 1
<1>1. Len(t) \in Nat
  BY TextIs
<1>2. e \in 1 .. Len(t)
  BY <1>1
<1>3. e + 1 \in LineStarts(t)
  BY <1>2 DEF LineStarts
<1>4. EndsBefore(t, e + 1) = EndsBefore(t, p) \cup {e}
  BY DEF EndsBefore
<1>5. e \notin EndsBefore(t, p)
  BY DEF EndsBefore
<1>6. IsFiniteSet(1 .. p - 1)
  BY FS_Interval
<1>7. IsFiniteSet(EndsBefore(t, p))
  BY <1>6, FS_Subset DEF EndsBefore
<1> QED
  BY <1>3, <1>4, <1>5, <1>7, FS_AddElement

(* A line that is fed is all there, and its turn either leaves everything  *)
(* as it was or goes behind the newline that ends it.                      *)
LEMMA FedLine ==
  ASSUME text \in Texts, NEW d \in 0 .. Len(text), NEW m \in d .. Len(text), At(d, m), ~ Starved
  PROVE  LET f == Whole!Turn(buf, pos, st, line)
         IN  /\ pos \in 1 .. m - d
             /\ Whole!NewlineFrom(buf, pos)
             /\ ReadsOneLine(buf, pos, ScanLine(buf, pos))
             /\ SameLine(ScanLine(buf, pos), ScanLine(text, d + pos), d)
             /\ ScanLine(buf, pos).tag = "ok" => ScanLine(buf, pos).at # 0
             /\ \/ f.at = pos /\ f.line = line
                \/ /\ f.at = ScanLine(buf, pos).at /\ f.line = line + 1
                   /\ ScanLine(buf, pos).tag = "ok"
<1> DEFINE r == ScanLine(buf, pos)
           a == Whole!Took(st, r)
           f == Whole!Turn(buf, pos, st, line)
<1>1. Len(text) \in Nat /\ Len(buf) = m - d
  BY PlaceIs
<1>2. pos \in 1 .. m - d + 1 /\ ~ (pos > Len(buf)) /\ ~ Whole!IsCut(buf, pos, r)
  BY DEF At, Starved
<1>3. pos \in 1 .. m - d
  BY <1>1, <1>2
<1>4. /\ ReadsOneLine(buf, pos, r)
      /\ m = Len(text) \/ Whole!NewlineFrom(buf, pos) => SameLine(r, ScanLine(text, d + pos), d)
  BY <1>3, LineIn DEF At
<1>5. r.tag = "ok" => r.at # 0
  BY <1>2 DEF Whole!IsCut, Whole!Scanned
<1>6. Whole!NewlineFrom(buf, pos)
  BY <1>2, <1>4, <1>5 DEF Whole!IsCut, Whole!Scanned, ReadsOneLine
<1>7. \/ f.at = pos /\ f.line = line
      \/ f.at = r.at /\ f.line = line + 1 /\ a.v = "ok"
  BY DEF Whole!Turn
<1>8. a.v = "ok" => r.tag = "ok"
  BY DEF Whole!Took, Whole!Scanned
<1> QED
  BY <1>3, <1>4, <1>5, <1>6, <1>7, <1>8

LEMMA StartsInPlace == InitReader => Inv
<1> SUFFICES ASSUME InitReader PROVE Inv
  OBVIOUS
<1>1. text \in Texts /\ text \in Seq(Symbol) /\ Len(text) \in Nat
  BY TextIs DEF InitReader
<1>2. buf = <<>> /\ src = text /\ pos = 1 /\ line = 0 /\ failed = FALSE
  BY DEF InitReader
<1>3. 0 \in 0 .. Len(text) /\ Len(text) \in 0 .. Len(text)
  BY <1>1
<1>4. SubSeq(text, 0 + 1, 0) = <<>>
  <2>1. SubSeq(text, 0 + 1, 0) \in Seq(Symbol) /\ Len(SubSeq(text, 0 + 1, 0)) = 0 - 0
    BY <1>1, <1>3, PieceIs
  <2> QED
    BY <2>1, EmptySeq
<1>5. SubSeq(text, 0 + 1, Len(text)) = text
  <2> DEFINE u == SubSeq(text, 0 + 1, Len(text))
  <2>1. /\ u \in Seq(Symbol) /\ Len(u) = Len(text) - 0
        /\ \A i \in 1 .. Len(text) - 0 : u[i] = text[0 + i]
    BY <1>1, <1>3, PieceIs
  <2> HIDE DEF u
  <2>2. Len(u) = Len(text) /\ \A i \in 1 .. Len(u) : u[i] = text[i]
    BY <1>1, <2>1
  <2>3. u = text
    BY <1>1, <2>1, <2>2, SeqEqual
  <2> QED
    BY <2>3 DEF u
<1>6. At(0, 0)
  <2>1. 1 \in 1 .. 0 - 0 + 1 /\ 0 + 1 \in LineStarts(text)
    BY DEF LineStarts
  <2> QED
    BY <1>2, <1>4, <1>5, <2>1 DEF At
<1>7. Here = 1
  BY <1>1, <1>2 DEF Here
<1>8. EndsBefore(text, Here) = {}
  BY <1>7 DEF EndsBefore
<1>9. Counted
  BY <1>2, <1>8, FS_EmptySet DEF Counted
<1> QED
  BY <1>1, <1>2, <1>3, <1>6, <1>9 DEF Inv, InPlace, Staged

LEMMA FeedKeeps == Inv /\ FeedLine => Inv'
<1> SUFFICES ASSUME Inv, FeedLine PROVE Inv'
  OBVIOUS
<1> DEFINE r == ScanLine(buf, pos)
           f == Whole!Turn(buf, pos, st, line)
<1>1. text \in Texts
  BY DEF Inv, InPlace
<1>2. PICK d \in 0 .. Len(text) : \E m \in d .. Len(text) : At(d, m)
  BY DEF Inv, InPlace
<1>3. PICK m \in d .. Len(text) : At(d, m)
  BY <1>2
<1>4. /\ Len(text) \in Nat /\ Len(buf) = m - d /\ Len(src) = Len(text) - m /\ Here = d + pos
      /\ \A i \in 1 .. m - d : buf[i] = text[d + i]
  BY <1>1, <1>3, PlaceIs
<1>5. /\ text' = text /\ src' = src /\ failed' = failed /\ buf' = buf
      /\ pos' = f.at /\ line' = f.line /\ out = Whole!Reading
      /\ out' = out \/ out' = Whole!Parsed(f.o)
      /\ ~ Starved
  BY DEF FeedLine
<1>6. /\ pos \in 1 .. m - d
      /\ Whole!NewlineFrom(buf, pos) /\ ReadsOneLine(buf, pos, r) /\ r.at \in Nat
      /\ \/ f.at = pos /\ f.line = line
         \/ f.at = r.at /\ f.line = line + 1 /\ r.tag = "ok"
  BY <1>1, <1>3, <1>5, FedLine DEF SameLine
<1> HIDE DEF r, f
<1>7. Staged'
  BY <1>5 DEF Inv, Staged, Whole!Parsed, Whole!Reading
<1>8. CASE f.at = pos /\ f.line = line
  <2>1. At(d, m)' /\ Here' = Here /\ line' = line
    BY <1>3, <1>5, <1>8 DEF At, Here
  <2> QED
    BY <1>1, <1>2, <1>3, <1>5, <1>7, <2>1 DEF Inv, InPlace, Counted
<1>9. CASE f.at = r.at /\ f.line = line + 1 /\ r.tag = "ok"
  <2>1. /\ r.at - 1 \in pos .. Len(buf) /\ buf[r.at - 1] = EndOfLine
        /\ \A k \in pos .. r.at - 2 : buf[k] # EndOfLine
    BY <1>6, <1>9 DEF ReadsOneLine
  <2> DEFINE e == d + (r.at - 1)
  <2>2. d \in Nat /\ m \in Nat /\ m <= Len(text) /\ pos \in Nat /\ pos >= 1
    BY <1>4, <1>6
  <2>3. r.at \in Int /\ r.at - 1 <= m - d /\ pos <= r.at - 1
    <3>1. r.at \in Int /\ r.at - 1 <= m - d /\ pos <= r.at - 1
      BY <1>4, <1>6, <2>1, <2>2
    <3> QED
      BY <3>1
  <2>4. e \in Nat /\ d + pos <= e /\ e <= Len(text) /\ d + pos \in Nat \ {0} /\ e + 1 = d + r.at
    <3>1. \A z \in Int, n \in Nat : z - 1 <= m - d /\ pos <= z - 1 /\ m <= n =>
            /\ d + (z - 1) \in Nat /\ d + pos <= d + (z - 1) /\ d + (z - 1) <= n
            /\ d + pos \in Nat \ {0} /\ d + (z - 1) + 1 = d + z
      BY <2>2
    <3>2. r.at \in Int /\ Len(text) \in Nat
      BY <1>4, <2>3
    <3> QED
      BY ONLY <2>2, <2>3, <3>1, <3>2
  <2>5. text[e] = EndOfLine
    <3>1. r.at - 1 \in 1 .. m - d
      BY <2>2, <2>3
    <3>2. buf[r.at - 1] = text[e]
      BY <1>4, <3>1
    <3> QED
      BY <2>1, <3>2
  <2>6. ASSUME NEW k \in d + pos .. e - 1 PROVE text[k] # EndOfLine
    <3>1. k - d \in pos .. r.at - 2 /\ k - d \in 1 .. m - d /\ d + (k - d) = k
      <4>1. \A z \in Int : z - 1 <= m - d /\ pos <= z - 1 =>
              \A l \in d + pos .. d + (z - 1) - 1 :
                l - d \in pos .. z - 2 /\ l - d \in 1 .. m - d /\ d + (l - d) = l
        BY <2>2
      <4> QED
        BY <2>3, <4>1
    <3> QED
      BY <1>4, <2>1, <3>1
  <2> HIDE DEF e
  <2>7. /\ e + 1 \in LineStarts(text)
        /\ Cardinality(EndsBefore(text, e + 1)) = Cardinality(EndsBefore(text, d + pos)) + 1
    BY <1>1, <2>4, <2>5, <2>6, NextEnd
  <2>8. At(d, m)'
    <3>1. r.at \in 1 .. m - d + 1
      BY <2>2, <2>3
    <3> QED
      BY <1>3, <1>5, <1>9, <2>4, <2>7, <3>1 DEF At
  <2>9. Here' = d + r.at
    <3>1. Here' = Len(text) - Len(src) - Len(buf) + r.at
      BY <1>5, <1>9 DEF Here
    <3> QED
      BY <1>4, <2>2, <2>3, <3>1
  <2>10. Counted'
    BY <1>4, <1>5, <1>9, <2>4, <2>7, <2>9 DEF Inv, Counted
  <2> QED
    BY <1>1, <1>2, <1>3, <1>5, <1>7, <2>8, <2>10 DEF Inv, InPlace
<1> QED
  BY <1>6, <1>8, <1>9

(* What a read brings moves the buffer in the text, and the position stays. *)
LEMMA StepKeeps == Inv /\ ChunkStep => Inv' /\ Here' = Here
<1> SUFFICES ASSUME Inv, ChunkStep PROVE Inv' /\ Here' = Here
  OBVIOUS
<1>1. text \in Texts
  BY DEF Inv, InPlace
<1>2. PICK d \in 0 .. Len(text) : \E m \in d .. Len(text) : At(d, m)
  BY DEF Inv, InPlace
<1>3. PICK m \in d .. Len(text) : At(d, m)
  BY <1>2
<1>4. /\ Len(text) \in Nat /\ Len(buf) = m - d /\ Len(src) = Len(text) - m /\ Here = d + pos
      /\ pos \in 1 .. m - d + 1
  BY <1>1, <1>3, PlaceIs DEF At
<1>5. PICK n \in ChunkSizes :
        /\ buf' = SubSeq(buf, pos, Len(buf)) \o SubSeq(src, 1, Least(n, Len(src)))
        /\ src' = SubSeq(src, Least(n, Len(src)) + 1, Len(src))
  BY DEF ChunkStep
<1>6. text' = text /\ failed' = failed /\ pos' = 1 /\ line' = line /\ out' = out
  BY DEF ChunkStep
<1> DEFINE got == Least(n, Len(src))
<1>7. d \in Nat /\ m \in Nat /\ d <= m /\ m <= Len(text) /\ pos \in Nat /\ 1 <= pos /\ pos <= m - d + 1
  BY <1>4
<1>8. got \in Nat /\ got <= Len(text) - m
  BY <1>4, <1>7, SizesAssumption DEF Least
<1> HIDE DEF got
<1>8a. PICK c \in 0 .. Len(text) : c = d + (pos - 1)
  BY <1>4, <1>7
<1>8b. PICK e \in 0 .. Len(text) : e = m + got
  BY <1>4, <1>7, <1>8
<1>9. /\ e \in c .. Len(text) /\ c <= m /\ m <= e
      /\ c + 1 = d + pos /\ c \in Int /\ e \in Int
  BY <1>4, <1>7, <1>8, <1>8a, <1>8b
<1>10. SubSeq(buf, pos, Len(buf)) = SubSeq(text, c + 1, m)
  <2>1. pos - 1 \in 0 .. m - d /\ m - d \in pos - 1 .. m - d
    BY <1>7
  <2>2. SubSeq(SubSeq(text, d + 1, m), (pos - 1) + 1, m - d) = SubSeq(text, d + (pos - 1) + 1, d + (m - d))
    BY <1>1, <2>1, PieceOfPiece
  <2>3. (pos - 1) + 1 = pos /\ d + (m - d) = m
    BY <1>7
  <2> QED
    BY <1>3, <1>4, <1>8a, <2>2, <2>3 DEF At
<1>11. src = SubSeq(text, m + 1, Len(text)) /\ m \in 0 .. Len(text) /\ Len(text) \in m .. Len(text)
  BY <1>3, <1>7, <1>4 DEF At
<1>12. SubSeq(src, 1, got) = SubSeq(text, m + 1, e)
  <2>1. 0 \in 0 .. Len(text) - m /\ got \in 0 .. Len(text) - m
    BY <1>4, <1>7, <1>8
  <2>2. SubSeq(SubSeq(text, m + 1, Len(text)), 0 + 1, got) = SubSeq(text, m + 0 + 1, m + got)
    BY <1>1, <1>11, <2>1, PieceOfPiece
  <2>3. 0 + 1 = 1 /\ m + 0 + 1 = m + 1
    BY <1>7
  <2> QED
    BY <1>8b, <1>11, <2>2, <2>3
<1>13. SubSeq(src, got + 1, Len(src)) = SubSeq(text, e + 1, Len(text))
  <2>1. got \in 0 .. Len(text) - m /\ Len(text) - m \in got .. Len(text) - m
    BY <1>4, <1>7, <1>8
  <2>2. SubSeq(SubSeq(text, m + 1, Len(text)), got + 1, Len(text) - m)
          = SubSeq(text, m + got + 1, m + (Len(text) - m))
    BY <1>1, <1>11, <2>1, PieceOfPiece
  <2>3. m + (Len(text) - m) = Len(text)
    BY <1>4, <1>7
  <2> QED
    BY <1>4, <1>8b, <1>11, <2>2, <2>3
<1>14. SubSeq(text, c + 1, m) \o SubSeq(text, m + 1, e) = SubSeq(text, c + 1, e)
  <2>1. text \in Seq(Symbol)
    BY <1>1, TextIs
  <2>2. c + 1 \in 1 .. Len(text) + 1 /\ m \in c + 1 - 1 .. Len(text) /\ e \in m .. Len(text)
    BY <1>4, <1>7, <1>9
  <2> QED
    BY <2>1, <2>2, ConcatAdjacentSubSeq
<1>15. At(c, e)'
  <2>1. buf' = SubSeq(text, c + 1, e) /\ src' = SubSeq(text, e + 1, Len(text))
    BY <1>5, <1>10, <1>12, <1>13, <1>14 DEF got
  <2>2. d + pos \in LineStarts(text)
    BY <1>3 DEF At
  <2>3. 1 \in 1 .. e - c + 1
    BY <1>9
  <2> QED
    BY <1>6, <1>9, <2>1, <2>2, <2>3 DEF At
<1>16. InPlace'
  BY <1>1, <1>6, <1>9, <1>15 DEF InPlace
<1>17. Here' = Here
  <2>1. Len(text)' \in Nat /\ Here' = c + 1
    <3>1. text' \in Texts /\ c \in 0 .. Len(text') /\ e \in c .. Len(text')
      BY <1>1, <1>6, <1>9
    <3>2. Len(buf') = e - c /\ Len(src') = Len(text') - e
      <4>1. buf' = SubSeq(text', c + 1, e) /\ src' = SubSeq(text', e + 1, Len(text'))
        BY <1>15 DEF At
      <4>2. e \in 0 .. Len(text') /\ Len(text') \in e .. Len(text')
        BY <1>4, <1>6, <1>9
      <4> QED
        BY <3>1, <4>1, <4>2, PieceIs
    <3>3. Here' = Len(text') - Len(src') - Len(buf') + 1
      BY <1>6 DEF Here
    <3> QED
      BY <1>4, <1>6, <1>9, <3>2, <3>3
  <2> QED
    BY <1>4, <1>9, <2>1
<1>18. Counted' /\ Staged'
  BY <1>6, <1>17 DEF Inv, Counted, Staged
<1> QED
  BY <1>16, <1>17, <1>18 DEF Inv

(* The steps that end the reading leave everything in its place.           *)
LEMMA EndKeeps == Inv /\ (ReadEnd \/ ReadFails \/ ParseExportHandleD) => Inv'
<1> SUFFICES ASSUME Inv, ReadEnd \/ ReadFails \/ ParseExportHandleD PROVE Inv'
  OBVIOUS
<1>1. text' = text /\ src' = src /\ buf' = buf /\ pos' = pos /\ line' = line
  BY DEF ReadEnd, ReadFails, ChunkFinish, ParseExportHandleD
<1>2. \A d, m : At(d, m)' = At(d, m)
  BY <1>1 DEF At
<1>3. InPlace'
  BY <1>1, <1>2 DEF Inv, InPlace
<1>4. Counted'
  BY <1>1 DEF Inv, Counted, Here
<1>5. failed' = failed \/ failed' = TRUE
  BY DEF ReadEnd, ReadFails, ParseExportHandleD
<1>6. out' # Whole!Reading
  BY DEF ReadEnd, ReadFails, ChunkFinish, ParseExportHandleD, Whole!Reading, Whole!Parsed, Whole!Reported
<1>7. Staged'
  BY <1>5, <1>6 DEF Inv, Staged
<1> QED
  BY <1>3, <1>4, <1>7 DEF Inv

(* The buffer is a piece of the text that begins with a line, whatever was *)
(* read; and the lines that were fed are those that ended.                 *)
THEOREM ReaderInv == SpecReader => []Inv
<1>1. InitReader => Inv
  BY StartsInPlace
<1>2. Inv /\ [NextReader]_readVars => Inv'
  <2> SUFFICES ASSUME Inv, [NextReader]_readVars PROVE Inv'
    OBVIOUS
  <2>1. CASE NextReader
    BY <2>1, FeedKeeps, StepKeeps, EndKeeps DEF NextReader
  <2>2. CASE UNCHANGED readVars
    <3>1. text' = text /\ src' = src /\ buf' = buf /\ pos' = pos /\ line' = line
          /\ failed' = failed /\ out' = out
      BY <2>2 DEF readVars
    <3>2. \A d, m : At(d, m)' = At(d, m)
      BY <3>1 DEF At
    <3> QED
      BY <3>1, <3>2 DEF Inv, InPlace, Staged, Counted, Here
  <2> QED
    BY <2>1, <2>2
<1> QED
  BY <1>1, <1>2, PTL DEF SpecReader

(* The line an error names is the one it is in: the lines fed are the      *)
(* newlines behind the position.  feed_chunk's and apply_final_line's      *)
(* `line`.                                                                 *)
THEOREM LinesCounted == SpecReader => []Counted
<1>1. Inv => Counted
  BY DEF Inv
<1> QED
  BY <1>1, ReaderInv, PTL

-----------------------------------------------------------------------------
(* The steps, as steps of the parse of the whole text.                     *)
LEMMA StartsWhole == InitReader => Whole!Init
<1> SUFFICES ASSUME InitReader PROVE Whole!Init
  OBVIOUS
<1>1. /\ text \in Texts /\ src = text /\ buf = <<>> /\ pos = 1 /\ line = 0
      /\ failed = FALSE /\ st = StateInit /\ out = Whole!Reading
  BY DEF InitReader
<1>2. Len(text) \in Nat
  BY <1>1, TextIs
<1>3. Len(text) - Len(src) - Len(buf) + pos = 1
  BY <1>1, <1>2
<1>4. ~ IsLost
  BY <1>1 DEF IsLost
<1> QED
  BY <1>1, <1>3, <1>4 DEF Whole!Init, Dropped

LEMMA FeedRefines == Inv /\ FeedLine => Whole!TakeLine
<1> SUFFICES ASSUME Inv, FeedLine PROVE Whole!TakeLine
  OBVIOUS
<1> DEFINE r == ScanLine(buf, pos)
           f == Whole!Turn(buf, pos, st, line)
           g == Whole!Turn(text, Here, st, line)
<1>1. text \in Texts /\ failed = FALSE
  BY DEF Inv, InPlace, Staged, FeedLine
<1>2. PICK d \in 0 .. Len(text) : \E m \in d .. Len(text) : At(d, m)
  BY DEF Inv, InPlace
<1>3. PICK m \in d .. Len(text) : At(d, m)
  BY <1>2
<1>4. /\ Len(text) \in Nat /\ Len(buf) = m - d /\ Len(src) = Len(text) - m /\ Here = d + pos
      /\ \A i \in 1 .. m - d : buf[i] = text[d + i]
  BY <1>1, <1>3, PlaceIs
<1>5. /\ text' = text /\ src' = src /\ failed' = failed /\ buf' = buf /\ out = Whole!Reading
      /\ st' = f.st /\ pos' = f.at /\ line' = f.line
      /\ out' = IF f.o = Whole!AllFine THEN out ELSE Whole!Parsed(f.o)
      /\ ~ Starved
  BY DEF FeedLine
<1>6. /\ pos \in 1 .. m - d
      /\ Whole!NewlineFrom(buf, pos)
      /\ SameLine(r, ScanLine(text, d + pos), d)
      /\ r.tag = "ok" => r.at # 0
      /\ f.at = pos \/ f.at = r.at
  BY <1>1, <1>3, <1>5, FedLine
<1>7. d \in Nat /\ pos \in Nat /\ d + pos = pos + d /\ m \in Nat /\ d + pos <= m /\ m <= Len(text)
      /\ pos \in Int /\ f.at \in Int
  BY <1>4, <1>6 DEF SameLine
<1>8. g.o = f.o /\ g.st = f.st /\ g.line = f.line /\ g.at = f.at + d
  <2>1. Here = pos + d /\ SameLine(ScanLine(buf, pos), ScanLine(text, pos + d), d)
        /\ (ScanLine(buf, pos).tag = "ok" => ScanLine(buf, pos).at # 0)
    BY <1>4, <1>6, <1>7
  <2>2. Shifted(Whole!Turn(buf, pos, st, line), Whole!Turn(text, pos + d, st, line), d)
    BY <1>7, <2>1, SameTurn
  <2> QED
    BY <2>1, <2>2 DEF Shifted
<1>9. Whole!NewlineFrom(text, Here)
  <2>1. PICK k \in pos .. Len(buf) : buf[k] = EndOfLine
    BY <1>6 DEF Whole!NewlineFrom
  <2>2. d + k \in d + pos .. Len(text) /\ k \in 1 .. m - d
    BY <1>4, <1>6, <1>7
  <2> QED
    BY <1>4, <2>1, <2>2 DEF Whole!NewlineFrom
<1>10. ~ (Here > Len(text)) /\ ~ Whole!IsCut(text, Here, ScanLine(text, Here))
  <2>1. ~ (Here > Len(text))
    BY <1>4, <1>7
  <2>2. ScanLine(text, Here).tag = "ok" => ScanLine(text, Here).at # 0
    BY <1>4, <1>6 DEF SameLine
  <2> QED
    BY <1>9, <2>1, <2>2 DEF Whole!IsCut, Whole!Scanned
<1>11. Here' = f.at + d
  <2>1. Here' = Len(text) - Len(src) - Len(buf) + f.at
    BY <1>5 DEF Here
  <2> QED
    BY <1>4, <1>7, <2>1
<1> HIDE DEF f, g, r
<1>12. /\ out.stage = "reading"
       /\ out' = IF g.o = Whole!AllFine THEN out ELSE Whole!Parsed(g.o)
       /\ st' = g.st /\ line' = g.line /\ Here' = g.at
  BY <1>5, <1>8, <1>11 DEF Whole!Reading
<1>13. ~ IsLost /\ ~ IsLost'
  BY <1>1, <1>5 DEF IsLost
<1>14. ~ Whole!AtEnd
  BY <1>1, <1>10 DEF Whole!AtEnd, Dropped, Here
<1> QED
  BY <1>1, <1>5, <1>12, <1>13, <1>14 DEF Whole!TakeLine, Dropped, Here, g

LEMMA StepStutters == Inv /\ ChunkStep => UNCHANGED Whole!parseVars
<1> SUFFICES ASSUME Inv, ChunkStep PROVE UNCHANGED Whole!parseVars
  OBVIOUS
<1>1. Here' = Here
  BY StepKeeps
<1>2. text' = text /\ st' = st /\ line' = line /\ out' = out /\ failed' = failed
  BY DEF ChunkStep
<1> QED
  BY <1>1, <1>2 DEF Whole!parseVars, Dropped, IsLost, Here

(* What is left when the text is read is its last line, and it is the last *)
(* line of the whole parse too.                                            *)
LEMMA EndRefines == Inv /\ ReadEnd => Whole!TakeLast
<1> SUFFICES ASSUME Inv, ReadEnd PROVE Whole!TakeLast
  OBVIOUS
<1>1. text \in Texts /\ failed = FALSE
  BY DEF Inv, InPlace, Staged, ReadEnd, ChunkFinish
<1>2. PICK d \in 0 .. Len(text) : \E m \in d .. Len(text) : At(d, m)
  BY DEF Inv, InPlace
<1>3. PICK m \in d .. Len(text) : At(d, m)
  BY <1>2
<1>4. /\ Len(text) \in Nat /\ Len(buf) = m - d /\ Len(src) = Len(text) - m /\ Here = d + pos
      /\ \A i \in 1 .. m - d : buf[i] = text[d + i]
      /\ pos \in 1 .. m - d + 1
  BY <1>1, <1>3, PlaceIs DEF At
<1>5. /\ text' = text /\ src' = src /\ failed' = failed /\ buf' = buf /\ pos' = pos /\ line' = line
      /\ out = Whole!Reading /\ src = <<>>
      /\ pos > Len(buf) \/ Whole!IsCut(buf, pos, ScanLine(buf, pos))
  BY DEF ReadEnd, ChunkFinish, Starved
<1>6. m = Len(text) /\ d \in Nat /\ pos \in Nat /\ 1 <= pos
  BY <1>4, <1>5
<1>7. ~ IsLost /\ ~ IsLost' /\ Here' = Here /\ out.stage = "reading"
  BY <1>1, <1>5 DEF IsLost, Here, Whole!Reading
<1>8. CASE pos > Len(buf)
  <2>1. Here > Len(text)
    BY <1>4, <1>6, <1>8
  <2>2. out' = Whole!Parsed(Whole!AllFine) /\ st' = st
    BY <1>8 DEF ReadEnd, ChunkFinish
  <2>3. Whole!AtEnd
    BY <1>1, <2>1 DEF Whole!AtEnd, Dropped, Here
  <2> QED
    BY <1>1, <1>5, <1>7, <2>1, <2>2, <2>3 DEF Whole!TakeLast, Dropped, Here
<1>9. CASE ~ (pos > Len(buf))
  <2> DEFINE n == d + pos - 1
             b == SubSeq(buf, pos, Len(buf))
  <2>1. pos \in 1 .. m - d /\ n \in Nat /\ n + 1 = d + pos /\ ~ (Here > Len(text))
    BY <1>4, <1>6, <1>9
  <2>2. Whole!IsCut(text, Here, ScanLine(text, Here))
    <3>1. SameLine(ScanLine(buf, pos), ScanLine(text, d + pos), d)
      BY <1>1, <1>3, <1>6, <2>1, LineIn DEF At
    <3>2. Whole!IsCut(buf, pos, ScanLine(buf, pos))
      BY <1>5, <1>9
    <3>3. Whole!NewlineFrom(text, d + pos) => Whole!NewlineFrom(buf, pos)
      <4> SUFFICES ASSUME Whole!NewlineFrom(text, d + pos) PROVE Whole!NewlineFrom(buf, pos)
        OBVIOUS
      <4>1. PICK k \in d + pos .. Len(text) : text[k] = EndOfLine
        BY DEF Whole!NewlineFrom
      <4>2. k - d \in pos .. Len(buf) /\ k - d \in 1 .. m - d /\ d + (k - d) = k
        BY <1>4, <1>6
      <4> QED
        BY <1>4, <4>1, <4>2 DEF Whole!NewlineFrom
    <3> QED
      BY <1>4, <3>1, <3>2, <3>3 DEF Whole!IsCut, Whole!Scanned, SameLine
  <2>3. b = SubSeq(text, n + 1, Len(text))
    <3>1. pos - 1 \in 0 .. m - d /\ m - d \in pos - 1 .. m - d
      BY <1>4, <1>6
    <3>2. SubSeq(SubSeq(text, d + 1, m), (pos - 1) + 1, m - d) = SubSeq(text, d + (pos - 1) + 1, d + (m - d))
      BY <1>1, <3>1, PieceOfPiece
    <3>3. (pos - 1) + 1 = pos /\ d + (m - d) = m /\ d + (pos - 1) + 1 = n + 1
      BY <1>4, <1>6
    <3> QED
      BY <1>3, <1>4, <1>6, <3>2, <3>3 DEF At
  <2>4. SameLine(ScanLine(b, 1), ScanLine(text, n + 1), n)
    <3>1. n \in 0 .. Len(text) /\ Len(text) \in n .. Len(text) /\ 1 \in 1 .. Len(text) - n
      BY <1>4, <1>6, <2>1
    <3>2. n + 1 \in LineStarts(text)
      BY <1>3, <2>1 DEF At
    <3> HIDE DEF n, b
    <3>3. SameLine(ScanLine(SubSeq(text, n + 1, Len(text)), 1), ScanLine(text, n + 1), n)
      BY <1>1, <3>1, <3>2, LineIn
    <3> QED
      BY <2>3, <3>3
  <2> HIDE DEF n, b
  <2>5. Whole!Final(b, 1, st, line + 1) = Whole!Final(text, Here, st, line + 1)
    <3>1. Whole!Final(b, 1, st, line + 1) = Whole!Final(text, n + 1, st, line + 1)
      BY <2>1, <2>4, SameFinal
    <3> QED
      BY <1>4, <2>1, <3>1
  <2>6. out' = Whole!Parsed(Whole!Final(b, 1, st, line + 1).o) /\ st' = Whole!Final(b, 1, st, line + 1).st
    BY <1>9 DEF ReadEnd, ChunkFinish, b
  <2>7. Whole!AtEnd
    BY <1>1, <2>2 DEF Whole!AtEnd, Dropped, Here
  <2> QED
    BY <1>1, <1>5, <1>7, <2>1, <2>5, <2>6, <2>7 DEF Whole!TakeLast, Dropped, Here
<1> QED
  BY <1>8, <1>9

LEMMA FailRefines == Inv /\ ReadFails => Whole!Lose
<1> SUFFICES ASSUME Inv, ReadFails PROVE Whole!Lose
  OBVIOUS
<1>1. failed = FALSE /\ failed' = TRUE /\ out = Whole!Reading /\ text' = text
  BY DEF Inv, Staged, ReadFails, ChunkFinish
<1>2. out'.stage = "parsed"
  BY DEF ReadFails, ChunkFinish, Whole!Parsed
<1> QED
  BY <1>1, <1>2 DEF Whole!Lose, Whole!Lost, Whole!AllFine, Whole!Verdict, IsLost, Dropped

LEMMA ReportRefines == Inv /\ ParseExportHandleD => Whole!Report
<1> SUFFICES ASSUME Inv, ParseExportHandleD PROVE Whole!Report
  OBVIOUS
<1>1. /\ out.stage = "parsed" /\ failed' = failed /\ failed \in BOOLEAN
      /\ out' = Whole!Reported(IF failed THEN Whole!ReadError ELSE out.o)
      /\ text' = text /\ src' = src /\ buf' = buf /\ pos' = pos /\ st' = st /\ line' = line
  BY DEF Inv, Staged, ParseExportHandleD
<1>2. out'.stage = "reported"
  BY <1>1 DEF Whole!Reported
<1>3. ~ IsLost'
  BY <1>2 DEF IsLost
<1>4. CASE failed
  BY <1>1, <1>3, <1>4 DEF Whole!Report, Whole!Lost, Whole!AllFine, Whole!Verdict, IsLost, Dropped
<1>5. CASE ~ failed
  BY <1>1, <1>3, <1>5 DEF Whole!Report, IsLost, Dropped
<1> QED
  BY <1>4, <1>5

(* The reader loop is the parse of the whole text, whatever the cuts.      *)
(* parse_source, chunk_step, chunk_finish, feed_chunk against parse_bytes. *)
THEOREM ReadsWhole == SpecReader => ReadsTheWhole
<1>1. InitReader => Whole!Init
  BY StartsWhole
<1>2. Inv /\ [NextReader]_readVars => [Whole!Next]_Whole!parseVars
  <2> SUFFICES ASSUME Inv, [NextReader]_readVars PROVE [Whole!Next]_Whole!parseVars
    OBVIOUS
  <2>1. CASE FeedLine
    BY <2>1, FeedRefines DEF Whole!Next
  <2>2. CASE ChunkStep
    BY <2>2, StepStutters
  <2>3. CASE ReadEnd
    BY <2>3, EndRefines DEF Whole!Next
  <2>4. CASE ReadFails
    BY <2>4, FailRefines DEF Whole!Next
  <2>5. CASE ParseExportHandleD
    BY <2>5, ReportRefines DEF Whole!Next
  <2>6. CASE UNCHANGED readVars
    BY <2>6 DEF readVars, Whole!parseVars, Dropped, IsLost
  <2> QED
    BY <2>1, <2>2, <2>3, <2>4, <2>5, <2>6 DEF NextReader
<1> QED
  BY <1>1, <1>2, ReaderInv, PTL DEF SpecReader, ReadsTheWhole, Whole!Spec
=============================================================================
