-------------------------------- MODULE Fold --------------------------------
(***************************************************************************)
(* The two-phase fold: arena/checker.rs (`install_fold_hooked`,            *)
(* `install_step`, `check_pending`), the environment and its index         *)
(* (arena/env.rs, promote.rs), the stages of an inductive block            *)
(* (inductives/) with their cache flushes, and the driver that runs phase  *)
(* B on the pool and turns its answer into a verdict (con-ron/driver.rs).  *)
(*                                                                         *)
(* Phase A installs the declarations in order, in place, and leaves the    *)
(* values of definitions, theorems and opaques to phase B, which checks    *)
(* each in any order against the prefix of the environment that was there  *)
(* when it was installed.  Terms and typing are CheckDecls's.              *)
(***************************************************************************)
EXTENDS Integers, Sequences

CONSTANTS Name, Stream

VARIABLES
  stream,   \* the declarations
  pos,      \* how many are installed, the fold position
  fe,       \* the environment and its index
  pend,     \* the pending checks
  at,       \* where phase A is: "idle" or a stage of the step
  mark,     \* the sizes of the environment when the step began
  vg,       \* whether the step hands on a value group
  displaced, \* the index rows the temporary pushes displaced
  cached,   \* the environment the cached results speak of, or NoCache
  outcome,  \* phase B: what check_pending returned, or "none"
  verdict

vars == <<stream, pos, fe, pend, at, mark, vg, displaced, cached, outcome, verdict>>
bracket == <<mark, vg, displaced>>

Spc == INSTANCE CheckDecls WITH ds <- stream

(* What the reader makes of a record: names where names belong, and        *)
(* projection tables for formers of the block only.                        *)
WellFormed(r) ==
  /\ r.kind \in Spc!ValueKind \cup {"axiom", "pinned", "block"}
  /\ r.kind # "block" => r.name \in Name
  /\ r.kind = "block" =>
       /\ r.inds \in Seq(Name) /\ r.ctors \in Seq(Name) /\ r.recs \in Seq(Name)
       /\ r.structs \in Seq(Spc!Formers(r))

ASSUME StreamAssumption ==
  \A s \in Stream : Len(s) \in Nat /\ \A i \in 1 .. Len(s) : WellFormed(s[i])

NoRow == <<>>
NoCache == <<>>

EmptyFE ==
  [consts |-> <<>>, tables |-> <<>>, vis |-> 0,
   idx |-> [n \in Name |-> NoRow], tbls |-> [n \in Name |-> 0]]

d == stream[pos + 1]

-----------------------------------------------------------------------------
(* The environment.  An index row is a counter and a slot; a slot is       *)
(* 1-based here.  A table is visible where its structure is.               *)
Find(f, vis, n) ==
  /\ f.idx[n] # NoRow
  /\ f.idx[n][1] < vis
  /\ f.idx[n][2] <= Len(f.consts)

FindTable(f, vis, n) ==
  Find(f, vis, n) /\ f.tbls[n] \in 1 .. Len(f.tables)

Shows(f, vis, n) ==
  IF ~Find(f, vis, n) THEN "Absent"
  ELSE LET info == f.consts[f.idx[n][2]].info
       IN  IF info = "Ind" /\ FindTable(f, vis, n) THEN "Struct" ELSE info

View(f, vis) == [n \in Name |-> Shows(f, vis, n)]

FirstAt(s, n) == CHOOSE i \in 1 .. Len(s) : s[i] = n /\ \A j \in 1 .. i - 1 : s[j] # n
LastAt(s, n) == CHOOSE i \in 1 .. Len(s) : s[i] = n /\ \A j \in i + 1 .. Len(s) : s[j] # n
Has(s, n) == \E i \in 1 .. Len(s) : s[i] = n

(* `ifenv_push` and `ifenv_push_temp`, one after the other.                *)
Push(f, ns, info) ==
  [f EXCEPT
    !.consts = @ \o [i \in 1 .. Len(ns) |-> [name |-> ns[i], info |-> info]],
    !.idx = [n \in Name |-> IF Has(ns, n)
                            THEN <<f.vis + LastAt(ns, n) - 1, Len(f.consts) + LastAt(ns, n)>>
                            ELSE @[n]],
    !.vis = @ + Len(ns)]

PushTables(f, ns) ==
  [f EXCEPT
    !.tables = @ \o ns,
    !.tbls = [n \in Name |-> IF Has(ns, n) THEN Len(f.tables) + LastAt(ns, n) ELSE @[n]]]

(* `ifenv_pop_temp` over the temporary pushes in reverse: the oldest row   *)
(* displaced under a name is put back last.                                *)
PopTemp(f, ns, rows) ==
  [f EXCEPT
    !.consts = SubSeq(@, 1, Len(@) - Len(ns)),
    !.idx = [n \in Name |-> IF Has(ns, n) THEN rows[n] ELSE @[n]],
    !.vis = @ - Len(ns)]

RestrictTo(f, vis) == [f EXCEPT !.vis = vis]

(* `promote_new`: the rows of the constants and tables the step installed  *)
(* are erased and written anew -- the constants walking down, so the       *)
(* oldest of a name is written last, the tables walking up.                *)
Reindexed(f, m) ==
  LET k == f.vis - m.vis
      start == Len(f.consts) - k
      new == [i \in 1 .. k |-> f.consts[start + i].name]
      newT == SubSeq(f.tables, m.tables + 1, Len(f.tables))
  IN  [f EXCEPT
        !.idx = [n \in Name |-> IF Has(new, n)
                                THEN <<m.vis + FirstAt(new, n) - 1, start + FirstAt(new, n)>>
                                ELSE @[n]],
        !.tbls = [n \in Name |-> IF Has(newT, n) THEN m.tables + LastAt(newT, n) ELSE @[n]]]

-----------------------------------------------------------------------------
(* Judgements.  A result in the caches is answered again without looking   *)
(* at the environment; a new one is computed against it and kept.          *)
Here == View(fe, fe.vis)
Answers == IF cached = NoCache THEN Here ELSE cached

Fresh(n) == ~Find(fe, fe.vis, n)
Resolves(t) == Spc!Resolves(Here, t)
Infers(t) == Resolves(t) /\ Spc!Types(Answers, t)

Header == d.pin /\ Fresh(d.name) /\ Resolves(d.ty)

(* Mutant: two constructors may share a name.                              *)
FormersOkWithTwins ==
  /\ d.pin
  /\ Spc!Distinct(d.inds)
  /\ \A n \in Spc!Formers(d) : Fresh(n)
  /\ Infers(d.ty)

(* What each stage of a step asks before it goes on.                       *)
FormersOk ==
  /\ d.pin
  /\ Spc!Distinct(d.ctors) /\ Spc!Distinct(d.inds)
  /\ \A n \in Spc!Formers(d) : Fresh(n)
  /\ Infers(d.ty)

CtorsOk == (\A n \in Spc!Ctors(d) : Fresh(n)) /\ Infers(d.flds)

RecsOk ==
  /\ Spc!Distinct(d.recs)
  /\ \A n \in Spc!Recs(d) : Fresh(n)
  /\ Infers(d.rty)

(* A rule is typed at the bare recursors; the domains it binds must        *)
(* resolve below them, at the bound of the constructors.                   *)
RulesOk ==
  /\ Infers(d.rule)
  /\ Spc!Resolves(View(fe, fe.vis - Len(d.recs)), d.dom)

TablesOk ==
  \A n \in Spc!Range1(d.structs) : ~Fresh(n) /\ ~FindTable(fe, fe.vis, n)

(* The certificate of a pinned operation.  Where the operation is already  *)
(* visible its own fast path would discharge it.                           *)
CertOk == d.cert \/ ~Fresh(d.name)

Passes ==
  CASE at = "value"  -> Header /\ (d.kind # "thm" => Resolves(d.val))
    [] at = "axiom"  -> Header /\ Infers(d.ty)
    [] at = "pinned" -> Header /\ Infers(d.ty) /\ Infers(d.val)
    [] at = "cert"   -> CertOk
    [] at = "formers" -> FormersOk
    [] at = "ctors"  -> CtorsOk
    [] at = "recs"   -> RecsOk
    [] at = "rules"  -> RulesOk
    [] at = "finish" -> TablesOk
    [] OTHER -> TRUE

-----------------------------------------------------------------------------
Init ==
  /\ stream \in Stream
  /\ pos = 0 /\ fe = EmptyFE /\ pend = <<>>
  /\ at = "idle" /\ mark = [vis |-> 0, tables |-> 0] /\ vg = FALSE
  /\ displaced = EmptyFE.idx /\ cached = NoCache
  /\ outcome = <<>> /\ verdict = Spc!Running

Stage(s) == verdict = Spc!Running /\ at = s
frame == <<stream, pos, pend, outcome, verdict>>

(* `install_step`: flush, open the bracket, and on to the arm of the kind. *)
OpenStep ==
  /\ Stage("idle") /\ pos < Len(stream)
  /\ at' = CASE d.kind \in Spc!ValueKind -> "value"
             [] d.kind = "block" -> "formers"
             [] OTHER -> d.kind
  /\ mark' = [vis |-> fe.vis, tables |-> Len(fe.tables)]
  /\ cached' = NoCache
  /\ UNCHANGED <<frame, fe, vg, displaced>>

InstallValue ==
  /\ Stage("value") /\ Passes
  /\ fe' = Push(fe, <<d.name>>, Spc!Stored(d))
  /\ vg' = TRUE /\ at' = "promote"
  /\ UNCHANGED <<frame, mark, displaced, cached>>

InstallAxiom ==
  /\ Stage("axiom") /\ Passes
  /\ fe' = Push(fe, <<d.name>>, "Axiom")
  /\ cached' = Answers /\ at' = "promote"
  /\ UNCHANGED <<frame, bracket>>

(* Mutant: the certificate is checked with the operation in view.          *)
InstallPinnedInView ==
  /\ Stage("pinned") /\ Passes
  /\ fe' = Push(fe, <<d.name>>, "Defn")
  /\ cached' = Answers /\ at' = "cert"
  /\ UNCHANGED <<frame, bracket>>

(* A pinned operation is checked whole, stored, and the index restricted   *)
(* to the bound of before for its certificate.                             *)
InstallPinned ==
  /\ Stage("pinned") /\ Passes
  /\ fe' = RestrictTo(Push(fe, <<d.name>>, "Defn"), fe.vis)
  /\ cached' = Answers /\ at' = "cert"
  /\ UNCHANGED <<frame, bracket>>

(* Mutant: the index is left restricted.                                   *)
CertifyLeftRestricted ==
  /\ Stage("cert") /\ Passes
  /\ cached' = Answers /\ at' = "promote"
  /\ UNCHANGED <<frame, bracket, fe>>

Certify ==
  /\ Stage("cert") /\ Passes
  /\ fe' = RestrictTo(fe, mark.vis + 1)
  /\ cached' = Answers /\ at' = "promote"
  /\ UNCHANGED <<frame, bracket>>

InstallFormers ==
  /\ Stage("formers") /\ Passes
  /\ fe' = Push(fe, d.inds, "Ind")
  /\ cached' = NoCache /\ at' = "ctors"
  /\ UNCHANGED <<frame, bracket>>

InstallCtors ==
  /\ Stage("ctors") /\ Passes
  /\ fe' = Push(fe, d.ctors, "Ctor")
  /\ cached' = NoCache /\ at' = "recs"
  /\ UNCHANGED <<frame, bracket>>

(* Mutant: the results about the constructors' environment are kept.       *)
PushBareRecsUnflushed ==
  /\ Stage("recs") /\ Passes
  /\ displaced' = fe.idx
  /\ fe' = Push(fe, d.recs, "Bare")
  /\ cached' = Answers /\ at' = "rules"
  /\ UNCHANGED <<frame, mark, vg>>

(* The recursors' types are checked, and the recursors pushed without      *)
(* rules, for the time the rules are checked.                              *)
PushBareRecs ==
  /\ Stage("recs") /\ Passes
  /\ displaced' = fe.idx
  /\ fe' = Push(fe, d.recs, "Bare")
  /\ cached' = NoCache /\ at' = "rules"
  /\ UNCHANGED <<frame, mark, vg>>

PopBareRecs ==
  /\ Stage("rules") /\ Passes
  /\ fe' = PopTemp(fe, d.recs, displaced)
  /\ cached' = NoCache /\ at' = "finish"
  /\ UNCHANGED <<frame, bracket>>

(* The recursors with their rules, and the structures' projection tables.  *)
InstallRecs ==
  /\ Stage("finish") /\ Passes
  /\ fe' = PushTables(Push(fe, d.recs, "Rec"), d.structs)
  /\ at' = "promote"
  /\ UNCHANGED <<frame, bracket, cached>>

(* Mutant: the bound is read after the push.                               *)
PendingAfter == [vg |-> d, pos |-> pos, vis |-> fe.vis]

Pending == [vg |-> d, pos |-> pos, vis |-> mark.vis]

(* The bracket's end: promote, drop the tier, record the pending check.    *)
CloseStep ==
  /\ Stage("promote")
  /\ fe' = Reindexed(fe, mark)
  /\ pend' = IF vg THEN Append(pend, Pending) ELSE pend
  /\ pos' = pos + 1
  /\ at' = "idle" /\ vg' = FALSE /\ cached' = NoCache
  /\ mark' = [vis |-> 0, tables |-> 0] /\ displaced' = EmptyFE.idx
  /\ UNCHANGED <<stream, outcome, verdict>>

(* A step that refuses its declaration ends the fold at its position, as   *)
(* does one that runs out of fuel or of room; nothing reads the            *)
(* environment afterwards.                                                 *)
RefuseStep ==
  /\ verdict = Spc!Running /\ ~Passes
  /\ verdict' = Spc!RefusedAt(pos)
  /\ UNCHANGED <<stream, pos, fe, pend, at, bracket, cached, outcome>>

StepAtLimit ==
  /\ verdict = Spc!Running /\ at # "check" /\ pos < Len(stream)
  /\ verdict' = Spc!LimitAt(pos)
  /\ UNCHANGED <<stream, pos, fe, pend, at, bracket, cached, outcome>>

-----------------------------------------------------------------------------
EnterCheck ==
  /\ Stage("idle") /\ pos = Len(stream)
  /\ at' = "check"
  /\ outcome' = [k \in 1 .. Len(pend) |-> "none"]
  /\ UNCHANGED <<stream, pos, fe, pend, bracket, cached, verdict>>

(* Mutant: the whole environment is in view.                               *)
CheckedAgainstAll(pc) ==
  LET E == View(fe, fe.vis) IN Spc!Types(E, pc.vg.ty) /\ Spc!Types(E, pc.vg.val)

(* `check_value_group` at the record's prefix view, caches empty.          *)
ChecksOut(pc) ==
  LET E == View(fe, pc.vis) IN Spc!Types(E, pc.vg.ty) /\ Spc!Types(E, pc.vg.val)

(* Some worker steps record k; ParallelAll is the pool's contract.         *)
CheckPending(k) ==
  /\ Stage("check") /\ outcome[k] = "none"
  /\ \E r \in {IF ChecksOut(pend[k]) THEN "ok" ELSE "refused", "limit"} :
       outcome' = [outcome EXCEPT ![k] = r]
  /\ UNCHANGED <<stream, pos, fe, pend, at, bracket, cached, verdict>>

(* The pool answers with the first record, in order, that is not "ok", or  *)
(* aborts; the record's fold position is the verdict's.                    *)
FirstBad(k) ==
  outcome[k] \notin {"none", "ok"} /\ \A j \in 1 .. k - 1 : outcome[j] = "ok"

PhaseBVerdict ==
  /\ Stage("check")
  /\ \/ (\A k \in DOMAIN outcome : outcome[k] = "ok") /\ verdict' = Spc!Accepted
     \/ \E k \in DOMAIN outcome :
          /\ FirstBad(k)
          /\ verdict' = IF outcome[k] = "refused" THEN Spc!RefusedAt(pend[k].pos)
                                                  ELSE Spc!LimitAt(pend[k].pos)
     \/ verdict' = Spc!Internal
  /\ UNCHANGED <<stream, pos, fe, pend, at, bracket, cached, outcome>>

Stopped == verdict # Spc!Running /\ UNCHANGED vars

Next ==
  \/ OpenStep \/ InstallValue \/ InstallAxiom \/ InstallPinned \/ Certify
  \/ InstallFormers \/ InstallCtors \/ PushBareRecs \/ PopBareRecs \/ InstallRecs
  \/ CloseStep \/ RefuseStep \/ StepAtLimit
  \/ EnterCheck \/ (\E k \in DOMAIN outcome : CheckPending(k)) \/ PhaseBVerdict
  \/ Stopped

Spec == Init /\ [][Next]_vars

-----------------------------------------------------------------------------
Stages ==
  {"idle", "value", "axiom", "pinned", "cert", "formers", "ctors", "recs", "rules",
   "finish", "promote", "check"}

(* What the environment must show at each stage: the declarations already  *)
(* installed, and of the one under way what its stage has put there.       *)
Due ==
  LET E == Spc!EnvAfter(stream)[pos]
  IN  CASE at = "ctors"   -> Spc!AtCtors(E, d)
        [] at \in {"recs", "finish"} -> Spc!AtRecs(E, d)
        [] at = "rules"   -> Spc!AtRules(E, d)
        [] at = "promote" -> Spc!After(E, d)
        [] OTHER -> E

(* Whatever was pushed, pushed for a time and popped, restricted and       *)
(* restored, erased and re-indexed, a lookup answers for every name what   *)
(* the stage is entitled to see: `ifenv_pop_temp`'s "the pop is EXACT".    *)
ViewExact == verdict = Spc!Running => Here = Due

(* Of the names in view none is stored twice, and its row is the slot and  *)
(* the counter of the constant that has it: the re-index walks down where  *)
(* the build walks up, and the two agree only so.                          *)
IndexExact ==
  /\ \A i, j \in 1 .. Len(fe.consts) : fe.consts[i].name = fe.consts[j].name => i = j
  /\ \A i \in 1 .. Len(fe.consts) : fe.idx[fe.consts[i].name] = <<i - 1, i>>

(* A pending record's bound shows, for as long as the run lasts, exactly   *)
(* the environment its declaration was installed in -- neither itself nor  *)
(* anything later, tables included.                                        *)
PrefixView ==
  \A k \in 1 .. Len(pend) :
    View(fe, pend[k].vis) = Spc!EnvAfter(stream)[pend[k].pos]

(* A result answered from the caches is the result the environment in view *)
(* would give: every change of it that inference follows is flushed.       *)
CacheFresh ==
  at \notin {"idle", "finish", "promote", "check"} => cached \in {NoCache, Here}

(* The verdict is one the one-pass checker justifies (OVERVIEW 6.3): what  *)
(* is accepted it accepts whole, and a refusal names its first refusal or  *)
(* the first declaration it could not install.                             *)
Implements == Spc!Spec

=============================================================================
