------------------------------ MODULE ParseBytes ------------------------------
(***************************************************************************)
(* The parse of a text that is held whole (`parse_bytes` of                *)
(* frontend/export_c.rs), and the feed it shares with the streaming parse: *)
(* the complete lines one after the other, then the line that no newline   *)
(* ends.  It is what the reader loop of module Chunks has to come to,      *)
(* whatever the pieces the text is read in.                                *)
(*                                                                         *)
(* What a line says is not looked into: the recogniser and the semantic    *)
(* layer are parameters (Scan and Export give them in the run "export").   *)
(* Positions count from 1, so that 0 is free to be the code's "none".      *)
(***************************************************************************)
EXTENDS Integers, Sequences

CONSTANTS
  Texts,            \* the texts there may be
  EndOfLine,        \* the symbol that ends a line
  ScanLine(_, _),   \* scan_line_fwd: the record of the line at a position
                    \* and where the next one begins, 0 if the buffer ended
                    \* before the line did; or a refusal
  Apply(_, _),      \* apply_line: a record applied to a parse state
  StateInit         \* state_d_init

NewlineFrom(b, p) == \E k \in p .. Len(b) : b[k] = EndOfLine

(* What a parse says: a verdict, at a line; a refused line with the tag of *)
(* the refusal and its offset in the line.                                 *)
Verdict(v, n, tag, off) == [v |-> v, line |-> n, tag |-> tag, off |-> off]
AllFine == Verdict("ok", 0, "none", 0)
ReadError == Verdict("readError", 0, "none", 0)

Scanned(r) == r.tag = "ok"

(* The line at p is not all there: the buffer ended before it did, which a *)
(* refusal shows only by there being no newline behind it.                 *)
IsCut(b, p, r) == IF Scanned(r) THEN r.at = 0 ELSE ~ NewlineFrom(b, p)

Took(s, r) == IF Scanned(r) THEN Apply(s, r.v) ELSE [v |-> "unread", st |-> s]

Said(a, r, p, n) ==
  CASE ~ Scanned(r) -> Verdict(IF r.tag = "IndexOverflow" THEN "native" ELSE "internal",
                               n, r.tag, r.at - p)
    [] Scanned(r) /\ a.v = "ok" -> AllFine
    [] OTHER -> Verdict(a.v, n, "record", 0)

(* One turn of `feed_chunk`'s loop, on a line that is all there: n lines   *)
(* are behind it.  A recogniser that does not move on is an error.         *)
Turn(b, p, s, n) ==
  LET r == ScanLine(b, p)
      a == Took(s, r)
  IN  IF a.v = "ok" /\ r.at > p
        THEN [o |-> AllFine, st |-> a.st, line |-> n + 1, at |-> r.at]
        ELSE [o |-> IF a.v = "ok" THEN Verdict("internal", n + 1, "noProgress", 0)
                                  ELSE Said(a, r, p, n + 1),
              st |-> s, line |-> n, at |-> p]

(* `apply_final_line`. *)
Final(b, p, s, n) ==
  LET r == ScanLine(b, p)
      a == Took(s, r)
  IN  [o |-> Said(a, r, p, n), st |-> a.st]

-----------------------------------------------------------------------------
VARIABLES
  text,   \* the text
  at,     \* where its next line begins
  st,     \* the parse state
  line,   \* complete lines fed
  out     \* where the parse is, and what it says

parseVars == <<text, at, st, line, out>>

Reading     == [stage |-> "reading", o |-> AllFine]
Parsed(o)   == [stage |-> "parsed", o |-> o]
Lost        == [stage |-> "lost", o |-> AllFine]
Reported(o) == [stage |-> "reported", o |-> o]

Init ==
  /\ text \in Texts
  /\ at = 1 /\ st = StateInit /\ line = 0
  /\ out = Reading

AtEnd == at > Len(text) \/ IsCut(text, at, ScanLine(text, at))

TakeLine ==
  /\ out = Reading /\ ~ AtEnd
  /\ LET f == Turn(text, at, st, line)
     IN  /\ st' = f.st /\ line' = f.line /\ at' = f.at
         /\ out' = IF f.o = AllFine THEN out ELSE Parsed(f.o)
  /\ UNCHANGED text

(* `parse_bytes_final`: what is left, if anything is, is the last line.    *)
TakeLast ==
  /\ out = Reading /\ AtEnd
  /\ IF at > Len(text)
       THEN out' = Parsed(AllFine) /\ UNCHANGED st
       ELSE LET f == Final(text, at, st, line + 1)
            IN  out' = Parsed(f.o) /\ st' = f.st
  /\ UNCHANGED <<text, at, line>>

(* The text cannot be read to its end: what was parsed of it is dropped.   *)
Lose ==
  /\ out = Reading
  /\ out' = Lost
  /\ at' = 1 /\ st' = StateInit /\ line' = 0
  /\ UNCHANGED text

Report ==
  /\ \/ out.stage = "parsed" /\ out' = Reported(out.o)
     \/ out = Lost /\ out' = Reported(ReadError)
  /\ UNCHANGED <<text, at, st, line>>

Next == TakeLine \/ TakeLast \/ Lose \/ Report

Spec == Init /\ [][Next]_parseVars
=============================================================================
