-------------------------------- MODULE Arena --------------------------------
(***************************************************************************)
(* The two-tier term arena and the brackets the checker works in:          *)
(* con-ron-core/src/arena/store.rs (tables, intern, freeze, thaw),         *)
(* promote.rs (the copy scratch -> persistent), core.rs (the brackets of   *)
(* caches and memos) and checker.rs (the install step, the phase boundary, *)
(* the per-record bracket).                                                *)
(*                                                                         *)
(* Names, levels, level lists and expressions are kept the same way, so    *)
(* one table stands for all of theirs: a row is a symbol with the handles  *)
(* of its children, and a handle is a tier and a row number.  The code has *)
(* a table for each constructor; here the constructor is the symbol.  An   *)
(* installed constant is told by the handle of its name, and the index of  *)
(* the environment is a map from those handles to slots.                   *)
(***************************************************************************)
EXTENDS Integers, Sequences, FiniteSets

CONSTANTS
  Sym,        \* the symbols: constructors with their scalar fields
  Arity,      \* how many children each has
  ExprSym,    \* those of expressions, whose intern may skip a probe
  PersCap,    \* IDX_CAP / WIDE_CAP of a persistent table
  ScrCap,     \* IDX_CAP / WIDE_CAP of a scratch table
  MaxHeld,    \* a bound on the constants, pending records and entries of
              \* caches and memos of a state together
  NoHandle

ASSUME ArenaAssumption ==
  /\ Arity \in [Sym -> Nat]
  /\ ExprSym \subseteq Sym
  /\ PersCap \in Nat /\ ScrCap \in Nat
  /\ MaxHeld \in Nat

P == "P"   \* TIER_P
S == "S"   \* TIER_S
PersHandle == {P} \X (Nat \ {0})
ScrHandle == {S} \X (Nat \ {0})
Handle == PersHandle \cup ScrHandle

ASSUME NoHandleAssumption == NoHandle \notin Handle

Node == [sym : Sym, kids : Seq(Handle)]

VARIABLES
  own,     \* the persistent rows the store itself holds
  tier,    \* the `PersTier` its readers are lent: frozen or not, and its rows
  scr,     \* the scratch rows
  on,      \* scratch_on
  env,     \* the handles of the installed constants, oldest first
  index,   \* the slot of each, under its handle
  pend,    \* the handles of the pending records
  since,   \* how many constants there were when the bracket was opened
  vg,      \* the value group an install step hands on, or NoHandle
  pmemo,   \* the promotion's memo
  caches,  \* the handles in the caches' entries, keys and values
  memos,   \* the handles in the walk memos' entries
  phase    \* what the run is doing

vars == <<own, tier, scr, on, env, index, pend, since, vg, pmemo, caches, memos, phase>>
tables == <<own, tier, scr, on>>
kept == <<env, index, pend>>
step == <<since, vg, pmemo>>
volatile == <<caches, memos>>

NoTier == [frozen |-> FALSE, rows |-> <<>>]
EmptyMemo == [h \in {} |-> NoHandle]
NoRows == [h \in {} |-> 0]
NoStep == since' = 0 /\ vg' = NoHandle /\ pmemo' = EmptyMemo

-----------------------------------------------------------------------------
(* Reading.  Every read of the persistent tier goes to the frozen tier if  *)
(* there is one, and to the store's own tables if not; a scratch handle is *)
(* readable only while the scratch tier is on.                             *)
PersRows == IF tier.frozen THEN tier.rows ELSE own

Valid(h) ==
  \/ h[1] = P /\ h[2] \in 1 .. Len(PersRows)
  \/ h[1] = S /\ on /\ h[2] \in 1 .. Len(scr)

View(h) == IF h[1] = P THEN PersRows[h[2]] ELSE scr[h[2]]

ValidHandles ==
  {<<P, i>> : i \in 1 .. Len(PersRows)}
    \cup (IF on THEN {<<S, i>> : i \in 1 .. Len(scr)} ELSE {})

Rows(t) == {t[i] : i \in 1 .. Len(t)}
Kids(n) == {n.kids[i] : i \in 1 .. Len(n.kids)}
HasScratchKid(n) == \E h \in Kids(n) : h[1] = S

NodesOver(H) ==
  UNION {{[sym |-> s, kids |-> k] : k \in [1 .. Arity[s] -> H]} : s \in Sym}

-----------------------------------------------------------------------------
(* `intern`: probe the persistent rows -- an expression with a scratch     *)
(* child cannot be among them, and is not looked for -- then the scratch   *)
(* rows if there are any, and on a miss append to the tier the store is    *)
(* in.  A hit changes nothing; a table at its capacity is an error of the  *)
(* operation that interns (OpenFails, StepFails, LeaveRecord).             *)
SkipsPersAlways(n) == on /\ n.sym \in ExprSym   \* mutant

SkipsPers(n) == on /\ n.sym \in ExprSym /\ HasScratchKid(n)

Misses(n) ==
  /\ SkipsPers(n) \/ n \notin Rows(PersRows)
  /\ on => n \notin Rows(scr)

Intern(n) ==
  /\ phase \in {"open", "install", "record"}
  /\ Misses(n)
  /\ IF on THEN /\ Len(scr) < ScrCap
                /\ scr' = Append(scr, n)
                /\ UNCHANGED own
           ELSE /\ Len(own) < PersCap
                /\ own' = Append(own, n)
                /\ UNCHANGED scr
  /\ UNCHANGED <<tier, on, kept, step, volatile, phase>>

Held == Len(env) + Len(pend) + Cardinality(caches) + Cardinality(memos)

(* A table of results keyed by handle (`Caches`) or a walk's memo          *)
(* (`Memos`) gets an entry about a handle the code holds.                  *)
FillCache(h) ==
  /\ phase \in {"install", "record"}
  /\ Held < MaxHeld
  /\ caches' = caches \cup {h}
  /\ UNCHANGED <<tables, kept, step, memos, phase>>

FillMemo(h) ==
  /\ phase \in {"install", "record"}
  /\ Held < MaxHeld
  /\ memos' = memos \cup {h}
  /\ UNCHANGED <<tables, kept, step, caches, phase>>

-----------------------------------------------------------------------------
(* Mutant: the memos of the bracket before are still there.                *)
OpenBracketKeepingMemos ==
  /\ phase = "open"
  /\ phase' = "install"
  /\ caches' = {} /\ UNCHANGED memos
  /\ tier' = [frozen |-> TRUE, rows |-> own]
  /\ own' = <<>> /\ scr' = <<>> /\ on' = TRUE
  /\ since' = Len(env)
  /\ UNCHANGED <<kept, vg, pmemo>>

(* The install bracket.  `flush_caches`, then `enter_scratch`: the memos   *)
(* are reset and the store is frozen -- its tables move out into the tier, *)
(* and the scratch rows start empty.                                       *)
OpenBracket ==
  /\ phase = "open"
  /\ phase' = "install"
  /\ caches' = {} /\ memos' = {}
  /\ tier' = [frozen |-> TRUE, rows |-> own]
  /\ own' = <<>> /\ scr' = <<>> /\ on' = TRUE
  /\ since' = Len(env)
  /\ UNCHANGED <<kept, vg, pmemo>>

(* Mutant: the tier's tables are not moved back.                           *)
DropScratchWithoutThaw ==
  /\ caches' = {}
  /\ UNCHANGED own
  /\ tier' = NoTier
  /\ scr' = <<>> /\ on' = FALSE
  /\ UNCHANGED memos

(* `drop_scratch`: flush the caches, move the tables back, and drop the    *)
(* scratch rows.  The memos stay, unread until the next bracket resets     *)
(* them.                                                                   *)
DropScratch ==
  /\ caches' = {}
  /\ own' = tier.rows
  /\ tier' = NoTier
  /\ scr' = <<>> /\ on' = FALSE
  /\ UNCHANGED memos

(* `ifenv_push`: the step installs a constant the guards found undeclared, *)
(* whatever tier its name is in, and its row under that name.              *)
Install(h) ==
  /\ phase = "install"
  /\ h \notin DOMAIN index
  /\ Held < MaxHeld
  /\ env' = Append(env, h)
  /\ index' = [g \in DOMAIN index \cup {h} |-> IF g = h THEN Len(env) + 1 ELSE index[g]]
  /\ UNCHANGED <<tables, pend, step, volatile, phase>>

(* `install_step_go` returns, with a value group or without one, and its   *)
(* promotion begins at an empty memo.                                      *)
StepReturns(v) ==
  /\ phase = "install"
  /\ v # NoHandle => Held < MaxHeld
  /\ phase' = "promote"
  /\ vg' = v
  /\ pmemo' = EmptyMemo
  /\ UNCHANGED <<tables, kept, since, volatile>>

(* `promote_*`.  A persistent handle is itself; a scratch one is in the    *)
(* memo, or is viewed, its children promoted, and the node rebuilt over    *)
(* them interned in the tier: the persistent rows only are probed.  The    *)
(* code walks depth first from the value group and the new constants; here *)
(* the order is any in which children come first.                          *)
Done(h) == h[1] = P \/ h \in DOMAIN pmemo
Promoted(h) == IF h[1] = P THEN h ELSE pmemo[h]
PromotedNodeShallow(n) == n   \* mutant: its children stay where they are
PromotedNode(n) == [n EXCEPT !.kids = [i \in DOMAIN n.kids |-> Promoted(n.kids[i])]]

Memoise(h, r) ==
  pmemo' = [g \in DOMAIN pmemo \cup {h} |-> IF g = h THEN r ELSE pmemo[g]]

(* Mutants: a new row's handle is the row before it; a node is looked for  *)
(* in the scratch tier too, and found there.                               *)
PromoteNodeOffByOne(i) ==
  LET n == scr[i]
      m == PromotedNode(n)
  IN  /\ phase = "promote"
      /\ ~ Done(<<S, i>>)
      /\ \A h \in Kids(n) : Done(h)
      /\ m \notin Rows(tier.rows)
      /\ Len(tier.rows) \in 1 .. PersCap - 1
      /\ tier' = [tier EXCEPT !.rows = Append(@, m)]
      /\ Memoise(<<S, i>>, <<P, Len(tier.rows)>>)
      /\ UNCHANGED <<own, scr, on, kept, since, vg, volatile, phase>>

PromoteNode(i) ==
  LET n == scr[i]
      m == PromotedNode(n)
  IN  /\ phase = "promote"
      /\ ~ Done(<<S, i>>)
      /\ \A h \in Kids(n) : Done(h)
      /\ \/ \E j \in 1 .. Len(tier.rows) :
              /\ tier.rows[j] = m
              /\ Memoise(<<S, i>>, <<P, j>>)
              /\ UNCHANGED tier
         \/ /\ m \notin Rows(tier.rows)
            /\ Len(tier.rows) < PersCap
            /\ tier' = [tier EXCEPT !.rows = Append(@, m)]
            /\ Memoise(<<S, i>>, <<P, Len(tier.rows) + 1>>)
      /\ UNCHANGED <<own, scr, on, kept, since, vg, volatile, phase>>

(* `erase_installed`: the rows of what the step installed are removed,     *)
(* under the names they were pushed with, before the drop hands those      *)
(* scratch handles to the next step; `index_promoted`: they are put back   *)
(* under the promoted names, walking down, so the lowest slot of a name is *)
(* written last.                                                           *)
New == since + 1 .. Len(env)
Moved == {Promoted(env[i]) : i \in New}
SlotOf(h) ==
  CHOOSE i \in New : /\ Promoted(env[i]) = h
                     /\ \A j \in New : Promoted(env[j]) = h => i <= j

ReindexedUnerased ==   \* mutant: the rows under the old names are left
  [h \in DOMAIN index \cup Moved |-> IF h \in Moved THEN SlotOf(h) ELSE index[h]]

Reindexed ==
  [h \in (DOMAIN index \ {env[i] : i \in New}) \cup Moved |->
     IF h \in Moved THEN SlotOf(h) ELSE index[h]]

(* Mutant: the promoted constants are not written back into their slots.   *)
CloseBracketNotWrittenBack ==
  /\ phase = "promote"
  /\ vg # NoHandle => Done(vg)
  /\ \A i \in New : Done(env[i])
  /\ pend' = IF vg = NoHandle THEN pend ELSE Append(pend, Promoted(vg))
  /\ DropScratch /\ NoStep
  /\ phase' = "open"
  /\ UNCHANGED <<env, index>>

(* The value group and every new constant are promoted: the constants are  *)
(* written back into their slots and indexed under what they are now, the  *)
(* bracket is closed, and the record is made pending.                      *)
CloseBracket ==
  /\ phase = "promote"
  /\ vg # NoHandle => Done(vg)
  /\ \A i \in New : Done(env[i])
  /\ index' = Reindexed
  /\ env' = [i \in 1 .. Len(env) |-> IF i > since THEN Promoted(env[i]) ELSE env[i]]
  /\ pend' = IF vg = NoHandle THEN pend ELSE Append(pend, Promoted(vg))
  /\ DropScratch /\ NoStep
  /\ phase' = "open"

(* The step fails -- a guard, a type error, a table that is full -- before *)
(* or in the promotion: the bracket is closed all the same, the fold's     *)
(* environment and its records are gone, and the run is over.              *)
StepFails ==
  /\ phase \in {"install", "promote"}
  /\ DropScratch /\ NoStep
  /\ env' = <<>> /\ index' = NoRows /\ pend' = <<>>
  /\ phase' = "failed"

OpenFails ==
  /\ phase = "open"
  /\ phase' = "failed"
  /\ env' = <<>> /\ index' = NoRows /\ pend' = <<>>
  /\ UNCHANGED <<tables, step, volatile>>

-----------------------------------------------------------------------------
(* The phase boundary: `freeze_tier` moves the tables out of the store,    *)
(* and a worker is on a state of its own (`worker_state`): no rows, the    *)
(* scratch tier on, empty caches and memos.                                *)
FreezeTier ==
  /\ phase = "open"
  /\ phase' = "checks"
  /\ tier' = [frozen |-> TRUE, rows |-> own]
  /\ own' = <<>> /\ scr' = <<>> /\ on' = TRUE
  /\ caches' = {} /\ memos' = {}
  /\ UNCHANGED <<kept, step>>

(* `check_pending`: `enter_record`, the check, and `leave_record`, whether *)
(* the check succeeds or not.                                              *)
EnterRecord ==
  /\ phase = "checks" /\ pend # <<>>
  /\ phase' = "record"
  /\ memos' = {}
  /\ scr' = <<>>
  /\ UNCHANGED <<own, tier, on, kept, step, caches>>

LeaveRecordWithoutFlush ==   \* mutant
  /\ phase = "record"
  /\ phase' = "checks"
  /\ scr' = <<>>
  /\ UNCHANGED <<own, tier, on, kept, step, volatile>>

LeaveRecord ==
  /\ phase = "record"
  /\ phase' = "checks"
  /\ caches' = {}
  /\ scr' = <<>>
  /\ UNCHANGED <<own, tier, on, kept, step, memos>>

(* The pool has returned; `thaw_tier` undoes the boundary.                 *)
ThawTier ==
  /\ phase = "checks"
  /\ phase' = "checked"
  /\ own' = tier.rows
  /\ tier' = NoTier
  /\ scr' = <<>> /\ on' = FALSE
  /\ caches' = {} /\ memos' = {}
  /\ UNCHANGED <<kept, step>>

-----------------------------------------------------------------------------
Init ==
  /\ own = <<>> /\ tier = NoTier /\ scr = <<>> /\ on = FALSE
  /\ env = <<>> /\ index = NoRows /\ pend = <<>>
  /\ since = 0 /\ vg = NoHandle /\ pmemo = EmptyMemo
  /\ caches = {} /\ memos = {}
  /\ phase = "open"

Next ==
  \/ \E n \in NodesOver(ValidHandles) : Intern(n)
  \/ \E h \in ValidHandles : FillCache(h) \/ FillMemo(h) \/ Install(h)
  \/ \E v \in ValidHandles \cup {NoHandle} : StepReturns(v)
  \/ \E i \in 1 .. Len(scr) : PromoteNode(i)
  \/ OpenBracket \/ CloseBracket \/ StepFails \/ OpenFails
  \/ FreezeTier \/ EnterRecord \/ LeaveRecord \/ ThawTier

Spec == Init /\ [][Next]_vars

-----------------------------------------------------------------------------
Phases == {"open", "install", "promote", "checks", "record", "checked", "failed"}

TypeOK ==
  /\ own \in Seq(Node) /\ scr \in Seq(Node)
  /\ tier \in [frozen : BOOLEAN, rows : Seq(Node)]
  /\ on \in BOOLEAN
  /\ env \in Seq(Handle) /\ pend \in Seq(Handle)
  /\ DOMAIN index \subseteq Handle
  /\ \A h \in DOMAIN index : index[h] \in Nat
  /\ since \in Nat
  /\ vg \in Handle \cup {NoHandle}
  /\ DOMAIN pmemo \subseteq ScrHandle
  /\ \A h \in DOMAIN pmemo : pmemo[h] \in PersHandle
  /\ caches \in SUBSET Handle /\ memos \in SUBSET Handle
  /\ phase \in Phases

(* What a handle stands for: the tree of symbols below it.                 *)
Dangling == <<>>

Term ==
  LET T[h \in ValidHandles] ==
        LET below == [i \in DOMAIN View(h).kids |->
                        IF View(h).kids[i] \in ValidHandles
                          THEN T[View(h).kids[i]] ELSE Dangling]
        IN  <<View(h).sym, below>>
  IN  T

TermOf(h) == IF h \in ValidHandles THEN Term[h] ELSE Dangling

(* The entries a running computation can read: the caches always, the      *)
(* walk memos inside a bracket only.                                       *)
Readable ==
  caches \cup (IF phase \in {"install", "promote", "record"} THEN memos ELSE {})

(* Nothing the run holds dangles: no constant, no pending record, and no   *)
(* cached result or memo that can still be read names a row that is gone,  *)
(* whatever order brackets are opened, failed and closed in; and outside   *)
(* the brackets everything kept is persistent.                             *)
NoneDangles ==
  /\ \A i \in 1 .. Len(env) : Valid(env[i])
  /\ \A i \in 1 .. Len(pend) : Valid(pend[i]) /\ pend[i][1] = P
  /\ \A h \in Readable : Valid(h)
  /\ phase \in {"open", "checks", "record", "checked"} =>
       \A i \in 1 .. Len(env) : env[i][1] = P

(* A persistent row never names a scratch row, nor a later one: dropping   *)
(* the scratch tier leaves every persistent handle meaning what it meant.  *)
PersClosed ==
  \A i \in 1 .. Len(PersRows) : \A h \in Kids(PersRows[i]) :
    h[1] = P /\ h[2] < i

(* The store's flags and tables follow the phase; what a bracket works on  *)
(* is gone when it is closed.                                              *)
Bracketed ==
  /\ phase \in {"install", "promote", "checks", "record"} =>
       tier.frozen /\ on /\ own = <<>>
  /\ phase \in {"open", "checked", "failed"} =>
       ~ tier.frozen /\ ~ on /\ scr = <<>> /\ caches = {}
  /\ phase = "checks" => scr = <<>> /\ caches = {}
  /\ phase \notin {"install", "promote"} => since = 0
  /\ phase # "promote" => vg = NoHandle /\ pmemo = EmptyMemo

(* A scratch row names live rows only, and no later scratch row.           *)
ScrClosed ==
  \A i \in 1 .. Len(scr) : \A h \in Kids(scr[i]) :
    \/ h[1] = P /\ h[2] <= Len(PersRows)
    \/ h[1] = S /\ h[2] < i

(* What the promotion has remembered and been handed is live, and what was *)
(* installed before the bracket is persistent.                             *)
StepHeld ==
  /\ vg # NoHandle => Valid(vg)
  /\ \A h \in DOMAIN pmemo : pmemo[h][2] <= Len(PersRows)
  /\ since <= Len(env)
  /\ \A i \in 1 .. since : env[i][1] = P

(* No two rows are equal, within a tier and -- but for a promotion, which  *)
(* copies the one into the other -- across the two.                        *)
HashConsed ==
  /\ \A i, j \in 1 .. Len(PersRows) : PersRows[i] = PersRows[j] => i = j
  /\ \A i, j \in 1 .. Len(scr) : scr[i] = scr[j] => i = j
  /\ phase # "promote" =>
       \A i \in 1 .. Len(PersRows), j \in 1 .. Len(scr) : PersRows[i] # scr[j]

(* What the promotion remembers for a scratch row is a copy: the same      *)
(* symbol, over what it remembers for the children.                        *)
Copied ==
  \A h \in DOMAIN pmemo :
    /\ Valid(h)
    /\ \A k \in Kids(View(h)) : Done(k)
    /\ View(pmemo[h]) = PromotedNode(View(h))

(* The invariant the proofs go by: hash-consing holds at every step of     *)
(* every bracket, and with it the tiers' closure, that nothing dangles and *)
(* that a promotion copies.                                                *)
Inv == TypeOK /\ Bracketed /\ PersClosed /\ ScrClosed /\ StepHeld
         /\ NoneDangles /\ HashConsed /\ Copied

(* Equal terms have equal handles, across both tiers, except while a       *)
(* bracket is promoting -- there are as many terms as handles: the checker *)
(* compares terms by comparing handles, and skips the persistent probe for *)
(* a node with a scratch child.                                            *)
Canonical ==
  phase # "promote" =>
    Cardinality({Term[h] : h \in ValidHandles}) = Cardinality(ValidHandles)

(* The row of each constant is its own slot, under the handle it has now,  *)
(* and there is no other row.                                              *)
Indexed ==
  /\ \A i \in 1 .. Len(env) : env[i] \in DOMAIN index /\ index[env[i]] = i
  /\ \A h \in DOMAIN index : \E i \in 1 .. Len(env) : env[i] = h

(* The index follows the constants as a promotion moves them: it has the   *)
(* row of each and no other, none under a scratch name the next bracket    *)
(* would give to something else; and, where no promotion is half way, a    *)
(* handle is found exactly if it stands for what an installed constant's   *)
(* name stands for.                                                        *)
IndexFollows ==
  /\ Indexed
  /\ phase # "promote" =>
       \A h \in ValidHandles :
         h \in DOMAIN index <=> \E i \in 1 .. Len(env) : TermOf(env[i]) = TermOf(h)

(* A promotion began over some number b of persistent rows, and these and  *)
(* the scratch rows are apart: no scratch row equals one of them, and what *)
(* a scratch row or a constant names in the persistent tier is among them; *)
(* the rows since are the ones the promotion remembers.                    *)
Apart(b) ==
  /\ \A i \in 1 .. b, j \in 1 .. Len(scr) : PersRows[i] # scr[j]
  /\ \A j \in 1 .. Len(scr) : \A h \in Kids(scr[j]) : h[1] = P => h[2] <= b
  /\ \A i \in 1 .. Len(env) : env[i][1] = P => env[i][2] <= b
  /\ \A i \in b + 1 .. Len(PersRows) : \E h \in DOMAIN pmemo : pmemo[h] = <<P, i>>

PromotedApart == phase = "promote" => \E b \in 0 .. Len(PersRows) : Apart(b)

(* The invariant the proof about the index goes by.                        *)
IndexInv == Inv /\ Indexed /\ PromotedApart

(* What is promoted stands for the same term as before.                    *)
PromotionExact ==
  phase = "promote" =>
    \A h \in DOMAIN pmemo : pmemo[h][1] = P /\ TermOf(pmemo[h]) = TermOf(h)

(* A step never changes what a constant, a pending record or a readable    *)
(* cache entry stands for -- not the promotion that rewrites the constant, *)
(* not the drop of the tier it was made in, not the freezing of the store. *)
MeaningKept ==
  [][/\ \A i \in 1 .. Len(env) :
          i <= Len(env') => TermOf(env[i])' = TermOf(env[i])
     /\ \A i \in 1 .. Len(pend) :
          i <= Len(pend') => TermOf(pend[i])' = TermOf(pend[i])
     /\ \A h \in Readable : h \in Readable' => TermOf(h)' = TermOf(h)]_vars

(* Persistent handles keep their bits: the persistent rows are only ever   *)
(* appended to, through every bracket, failure, freeze and thaw.           *)
PersOnlyGrows ==
  [][/\ Len(PersRows) <= Len(PersRows')
     /\ \A i \in 1 .. Len(PersRows) : PersRows'[i] = PersRows[i]]_vars

(* A record is checked from the same state whatever was checked before it, *)
(* so its verdict is the record's own: no row, cache entry or memo of the  *)
(* record before, which may have failed half way, is there to be read.     *)
RecordStartsClean ==
  [][phase = "checks" /\ phase' = "record" =>
       scr' = <<>> /\ caches' = {} /\ memos' = {}]_vars

=============================================================================
