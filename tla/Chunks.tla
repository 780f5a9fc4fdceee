-------------------------------- MODULE Chunks --------------------------------
(***************************************************************************)
(* The reader loop over a source that may fail: `parse_source`,            *)
(* `chunk_step`, `chunk_finish` and `feed_chunk` of frontend/export_c.rs,  *)
(* over `HandleSource` of the driver.  The text is never held whole: each  *)
(* piece that is read goes behind the tail of the pieces before it, the    *)
(* complete lines of that buffer are fed, and what is left is carried on.  *)
(***************************************************************************)
EXTENDS Integers, Sequences

CONSTANTS
  Symbol,         \* what a text is made of
  Texts, EndOfLine, ScanLine(_, _), Apply(_, _), StateInit,   \* as in ParseBytes
  ChunkSizes      \* how many symbols one read may bring, at most

VARIABLES
  text,     \* the file
  src,      \* what of it has not been read
  failed,   \* a read failed, and the source keeps that
  buf,      \* the bytes being fed
  pos,      \* where in buf the next line begins
  st,       \* the parse state
  line,     \* complete lines fed
  out       \* what the parse returned, and then what is reported

readVars == <<text, src, failed, buf, pos, st, line, out>>

(* The parse of the whole text that this one has to come to: the position  *)
(* is that in the text, and a parse that a failed read broke off is lost.  *)
IsLost == failed /\ out.stage = "parsed"
Dropped(x, y) == IF failed THEN x ELSE y

Whole == INSTANCE ParseBytes
           WITH at   <- Dropped(1, Len(text) - Len(src) - Len(buf) + pos),
                st   <- Dropped(StateInit, st),
                line <- Dropped(0, line),
                out  <- IF IsLost THEN [stage |-> "lost", o |-> [v |-> "ok", line |-> 0, tag |-> "none", off |-> 0]]
                        ELSE out

-----------------------------------------------------------------------------
(* The recogniser reads one line and nothing else.  Where its line is all  *)
(* there, or the buffer goes to the end of the text, it answers the same   *)
(* whatever buffer the line is in, and the next line begins behind the     *)
(* first newline; where it is not, it answers no record with an end.       *)
LineStarts(t) == {1} \cup {k + 1 : k \in {j \in 1 .. Len(t) : t[j] = EndOfLine}}

SameLine(r, q, n) ==   \* r is q, n positions earlier
  /\ r.tag = q.tag /\ r.v = q.v
  /\ r.at \in Nat /\ q.at \in Nat
  /\ IF r.tag = "ok" /\ (r.at = 0 \/ q.at = 0) THEN r.at = q.at ELSE r.at + n = q.at

ReadsOneLine(b, p, r) ==
  IF Whole!NewlineFrom(b, p)
  THEN r.tag = "ok" =>
         /\ r.at - 1 \in p .. Len(b) /\ b[r.at - 1] = EndOfLine
         /\ \A k \in p .. r.at - 2 : b[k] # EndOfLine
  ELSE r.tag = "ok" => r.at = 0

ASSUME TextsAssumption == Texts \subseteq Seq(Symbol)
ASSUME SizesAssumption == ChunkSizes \subseteq Nat \ {0}
ASSUME ScannerAssumption ==
  \A t \in Texts : \A p \in LineStarts(t) : \E q \in {ScanLine(t, p)} :
    \A a \in LineStarts(t) : \A e \in p .. Len(t) :
      a <= p =>
        \E b \in {SubSeq(t, a, e)} : \E r \in {ScanLine(b, p - a + 1)} :
          /\ ReadsOneLine(b, p - a + 1, r)
          /\ e = Len(t) \/ Whole!NewlineFrom(b, p - a + 1) => SameLine(r, q, a - 1)

-----------------------------------------------------------------------------
InitReader ==
  /\ text \in Texts
  /\ src = text /\ failed = FALSE
  /\ buf = <<>> /\ pos = 1
  /\ st = StateInit /\ line = 0
  /\ out = Whole!Reading

(* `feed_chunk` returns: no complete line is left in the buffer.           *)
Starved == pos > Len(buf) \/ Whole!IsCut(buf, pos, ScanLine(buf, pos))

FeedLine ==
  /\ out = Whole!Reading /\ ~ Starved
  /\ LET f == Whole!Turn(buf, pos, st, line)
     IN  /\ st' = f.st /\ line' = f.line /\ pos' = f.at
         /\ out' = IF f.o = Whole!AllFine THEN out ELSE Whole!Parsed(f.o)
  /\ UNCHANGED <<text, src, failed, buf>>

Least(a, b) == IF a <= b THEN a ELSE b

(* Mutant: what is left of the buffer is not carried on.                   *)
ChunkStepUncarried ==
  /\ out = Whole!Reading /\ Starved /\ src # <<>>
  /\ \E n \in ChunkSizes :
       LET got == Least(n, Len(src))
       IN  /\ buf' = SubSeq(src, 1, got)
           /\ src' = SubSeq(src, got + 1, Len(src))
  /\ pos' = 1
  /\ UNCHANGED <<text, failed, st, line, out>>

(* `next_chunk` brings bytes, and `chunk_step` puts them behind the tail.  *)
ChunkStep ==
  /\ out = Whole!Reading /\ Starved /\ src # <<>>
  /\ \E n \in ChunkSizes :
       LET got == Least(n, Len(src))
       IN  /\ buf' = SubSeq(buf, pos, Len(buf)) \o SubSeq(src, 1, got)
           /\ src' = SubSeq(src, got + 1, Len(src))
  /\ pos' = 1
  /\ UNCHANGED <<text, failed, st, line, out>>

(* The first empty chunk ends the stream: the tail, if any, is its last    *)
(* line.                                                                   *)
ChunkFinish ==
  /\ out = Whole!Reading /\ Starved
  /\ IF pos > Len(buf)
       THEN out' = Whole!Parsed(Whole!AllFine) /\ UNCHANGED st
       ELSE LET f == Whole!Final(SubSeq(buf, pos, Len(buf)), 1, st, line + 1)
            IN  out' = Whole!Parsed(f.o) /\ st' = f.st
  /\ UNCHANGED <<text, src, buf, pos, line>>

ReadEnd == src = <<>> /\ ChunkFinish /\ UNCHANGED failed

(* A failed read looks like the end to the loop; the source remembers.     *)
ReadFails == ChunkFinish /\ failed' = TRUE

(* `parse_export_handle_d`: a kept failure replaces whatever was parsed.   *)
ParseTrusted ==                         \* mutant: the failure is not looked at
  /\ out.stage = "parsed"
  /\ out' = Whole!Reported(out.o)
  /\ UNCHANGED <<text, src, failed, buf, pos, st, line>>
ParseExportHandleD ==
  /\ out.stage = "parsed"
  /\ out' = Whole!Reported(IF failed THEN Whole!ReadError ELSE out.o)
  /\ UNCHANGED <<text, src, failed, buf, pos, st, line>>

NextReader == FeedLine \/ ChunkStep \/ ReadEnd \/ ReadFails \/ ParseExportHandleD

SpecReader == InitReader /\ [][NextReader]_readVars

-----------------------------------------------------------------------------
(* Whatever the cuts between two reads, the loop does what the parse of    *)
(* the whole text does, line by line: no line is read twice, or cut, or    *)
(* joined with the next, errors name their line, the last line is read     *)
(* once; and a read that failed is reported instead of any verdict.        *)
(* parse_chunks: "the parse of a list of chunks is the parse of their      *)
(* concatenation, however it was cut".                                     *)
ReadsTheWhole == Whole!Spec

=============================================================================
