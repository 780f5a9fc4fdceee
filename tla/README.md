# A TLA+ development of con-ron

con-ron checks a stream of Lean declarations that was exported from Lean. It
reads the export, puts every name, level and expression into an arena, and
checks the declarations in two phases: phase A installs them one after the
other and leaves the values of definitions, theorems and opaques for later;
phase B checks those values on a pool of threads. The repository proves the
core correct in Lean against a pure checker; its `OVERVIEW.md` lists what that
proof trusts (the pool, the observer, the reader's I/O). The modules here state
and check what the Rust code itself has to get right for that to make sense:
orders, brackets, bounds, caches and concurrency, and what the algorithms they
serve are to compute. All paths below are under `src/crates/`.

## 1. Inventory

| component | source | state it keeps | operations | what makes it right |
|---|---|---|---|---|
| worker pool | `con-ron/src/pool.rs` | claim counter, limit, per-lane results | `parallel_all`, `worker`, `merge_results`, `first_failure` | no index twice, none skipped below the first failure, the answer is the in-order walk's, the call comes back |
| driver | `con-ron/src/driver.rs` | the run | `check_decls_driver`, `phase_b_verdict`, heartbeat, chunked reads | freeze and thaw match; an index of the pool is turned into the right declaration; a read error is no end of file |
| fold | `con-ron-core/src/arena/checker.rs`, `checker_split.rs` | position, environment, pending records | `install_step*`, `install_fold_hooked`, `check_pending`, `freeze_tier`, `thaw_tier` | the two phases give the one-pass verdict |
| one-pass checker | `arena/check_decl.rs`, `decl_check.rs`, `checker_base.rs` | none | `check_decl` and one function for each kind | each judgement in the environment it is entitled to; what the core will compute or believe without looking is right |
| inductive blocks | `arena/inductives/*` | none beyond the environment | formers, constructors, classes, positivity, recursors, tables | positivity; rules that compute within their type; large elimination only where it tells nothing apart |
| environment | `arena/env.rs`, `fenv.rs` | constants, tables, index, visibility bound | find, push, push and pop for a time, restrict | a lookup answers for the prefix below the bound |
| arena | `arena/store.rs`, `handle.rs` | persistent and scratch tables, scratch flag, frozen tier | intern, view, freeze, thaw, clear | hash-consing across tiers, nothing dangles |
| promotion | `arena/promote.rs` | memo of one bracket | copy to the persistent tier, re-index | the copy means the same |
| checker state | `arena/core_state.rs`, `monad.rs`, brackets in `core.rs` | result caches, walk memos | fill, flush, reset, enter, leave | a cached answer is the answer |
| typing core | `arena/core.rs`, `prop_read.rs` | fills the caches | whnf, infer (two grades), is_def_eq | the answers of the typing rules, whatever the caches hold |
| term operations | `arena/expr_ops.rs` | walk memos | instantiate, abstract, lift, substitute levels | equal to plain recursion in spite of cut-offs, memos and fuel |
| pins, basis, axioms | `arena/basis.rs`, `std_axioms.rs`, `canon.rs`, ..., `kernel/basis_*.rs`, `trust_*.rs` | none | comparison with fixed data | what is recognised is what the core knows |
| term kernel | `kernel/*` | none | trees, levels, decoding of the pins | level order is the order of values |
| export reader | `frontend/*` | index tables, declarations, the rest of a line | scan, chunks, `prepare` | chunk borders do not show; a record is what is written; grounds come before their use |
| hash map | `con-ron-core/src/ron/hashmap2.rs` | slots, epoch, load, high-water mark | insert, find, remove, clear, clear_fit | a finite map |
| naturals, first map | `ron/nat.rs`, `hashmap.rs`, `ptr.rs` | none | limb arithmetic | equals arithmetic on numbers |
| command line | `con-ron/src/bin`, `keys.rs`, `render.rs` | none | flags, printing, exit codes | pure I/O |
| dump tool | `con-ron-dump` | the tables of a reader or of the writer | read a pin file, write one | what is written is read back |

How they interact. The driver reads the export in chunks, has it reordered, and
calls the fold; the fold calls the one-pass checker's stages, which call the
typing core, which reads the environment and the arena and fills the caches.
Phase A owns the arena; at the boundary the persistent tables move into a value
that every worker borrows, and a worker has only scratch tables, caches and
memos of its own. The pool knows nothing of all this: it calls three closures.
The maps of the arena, the index and the caches are `hashmap2.rs`.

What is hard: Relaxed atomics and panics in the pool; brackets that must be
closed on every path, with tables moved out and back; caches that do not record
the environment, the grade or the mode their answers depend on; memos left half
filled by a walk that failed; bounds that saturate; bounds read at one moment
and used at another; an index rewritten in an order of its own; stamps that
wrap; chunk borders anywhere; and gates behind which the core computes or
believes without looking again. The list, line by line, is `hazards` in
`PROJECT.json`.

## 2. Modules

| module | models | role |
|---|---|---|
| `ParallelAll` | the contract of `pool.rs` | abstract |
| `Pool`, `PoolProofs` | `parallel_all` and `worker`, thread by thread | implements `ParallelAll`; theorems |
| `FiniteMap` | a partial map | abstract |
| `HashMap2`, `HashProofs` | the open-addressed table | checked and proved in step with `FiniteMap`; theorems |
| `Arena`, `ArenaProofs` | tiers, interning, promotion, brackets, phases | theorems |
| `CheckDecls` | the one-pass checker, and which verdicts it justifies | abstract |
| `Fold`, `FoldProofs` | the two-phase fold, block stages, phase B, the verdict | implements `CheckDecls`; theorems |
| `LeastNumber` | the least number principle; no code | lemmas of the proofs |
| `Level` | levels and "is Prop" (`kernel/level.rs`, `prop_when.rs`) | pure |
| `Term` | expressions and what `expr_ops.rs` computes on them | pure |
| `ExprWalks` | how it computes: cut-offs, memos, fuel | checked against `Term` |
| `CoreEnv`, `Core` | the typing core with its knots and caches, `prop_read.rs` | checked against `TypingRules` |
| `TypingRules` | typing and conversion by normal forms; no code | reference |
| `Positivity`, `BlockInstall`, `Recursors`, `Blocks` | `checker_base.rs` and `arena/inductives/*`, phase by phase | over `TypingRules` |
| `BasisPins`, `DeclCheck` | the basis and axiom tables, certificates, and `check_decl` | over `TypingRules` |
| `ParseBytes` | the parse of a text held whole (`parse_bytes`) | abstract |
| `Chunks`, `ChunksProofs` | the reader loop over chunks and read errors | implements `ParseBytes`; theorems |
| `Scan`, `Export` | the recogniser of a line; records, tables, blocks | the parameters of `Chunks` |
| `Prepare` | prelude first; what a record references and is certified over | the parameters of `Hoist` |
| `Hoist`, `HoistProofs` | the hoist of grounds before pinned operations | theorems |
| `PinsText`, `PinsDump` | the decoder of the pinned text; the reader and the writer of pin files | checked against each other |
| `Limbs`, `LimbsProofs` | `ron/nat.rs`, the word size a parameter | theorems |
| `MC...` | constants, sample exports and queries, and the reference definitions the runs compare with | |

**Pool.** A lane is a thread, or the calling thread when the system refused
every thread. Each access of shared memory is an action: `ClaimIndex`
(`fetch_add`), `PassGate` (`limit.load`), `StepOk`/`StepErrs`, `LowerLimit`
(`fetch_min`), `RunAfter`. The loads are Relaxed, so `PassGate` may read any
value the limit ever held (`held`): more than the hardware allows. `Panic` may
end a lane wherever a closure runs; its results are gone. The caller spawns,
may be refused, joins in order, merges, and walks the table.

**HashMap2.** A table is a record and every operation an operator from table to
table, with the probe, the doubling, the backward shift, the epoch and the
decaying high-water mark of the code. The hash of a key is a number picked in
`Init`. `MCHashMap2` performs each operation on the table and on the abstract
map at once and compares all lookups afterwards.

**Arena.** A row is a symbol and the handles of its children, a handle a tier
and a row number. The store's tables (`own`), the tier readers borrow (`tier`),
the scratch rows (`scr`) and the flag (`on`) are those of `EStore` and
`PersTier`. The phases follow `install_step`, `freeze_tier`, `check_pending` and
`thaw_tier`. `StepFails` is every early return of the bracket. The code has one
table for each constructor and for names, levels and level lists; they are kept
the same way, so one table stands for all, and `ExprSym` says for which symbols
the persistent probe may be skipped. The walk of promotion is any order in which
children come first. A constant is told by the handle of its name, which may be a
scratch handle until its bracket is closed, and `index` has the slot of each under
that handle: `Install` writes a row, and `Reindexed` is `erase_installed` and
`index_promoted`, the rows under the old handles erased and the new ones written.

**Fold.** A constant is its name and what a lookup shows (axiom, definition,
former, structure, recursor with or without rules, ...). The environment is a
record with the code's vector, index rows `(counter, slot)`, table map and
bound. `OpenStep` ... `CloseStep` are the stages of one `install_step`;
`Certify`, `PushBareRecs`, `PopBareRecs` and `Reindexed` are the ones that turn
the environment back. A term is the set of showings it is content with for each
name it depends on: that is all its typing asks of the environment, and it lets
a term tell an unfoldable definition from an axiom, a structure from a former,
and a recursor with rules from one without. `cached` is the environment the
cached results speak of: while it is there, judgements are answered from it, so
a missing flush changes verdicts.

What `Fold` and `CheckDecls` leave out: the kinds of error collapse into
"refused", and fuel and table capacities into a "limit" that may be met
anywhere; guards that look at the declaration alone (reserved names, universe
parameters, scoping, pinned shapes) are its flag `pin`, and are whole in
`DeclCheck`; the rules of all recursors of a block are checked as one (at their
own bound, the domains they bind at the lower one); names are persistent
handles. Phase B steps a record at once: a worker's state is private
(`RecordStartsClean` of `Arena`), and order and answer are the pool's contract.
`Internal` stands for both `Panicked` and an unwinding caller.

**Term, ExprWalks.** A hash-consed handle is its tree. `Term` gives each
operation by structural recursion. `ExprWalks` is the same operation as the
code runs it: the word of a node with its two saturating bounds (`SatRange`),
the cut-offs that read it, the memo keyed by node and cursor, the table that two
abstraction walks share, the lowering walk that instantiation runs inside
itself, and fuel; a walk that fails leaves its table filled.

**Core.** The functions of `core.rs` in their order of evaluation, each from the
caches to the caches and a result, with every early return and every memo that
is probed and filled (checked and unchecked inference, full and cheap
reduction, the lanes of conversion). `TypingRules` says what the answers should
be without caches, fuel, order or shortcuts; it is not code. Handles are trees;
the loops' own fuel of 2^62 never runs out and is left out.

**Blocks.** One action for each phase of a block, in the code's order, over a
stored environment: the shape (`Read`), the formers, the constructors, the
classes, positivity, the generated recursors and their rules, and what is stored
with the projection tables. A
rejected block ends the export. The judgements are those of `TypingRules`, by
which the run `core` checks the core; caches and the temporary pushes inside a
block are in `Fold`.

**DeclCheck.** One action for each kind of record (`Defn`, `Thm`, `Opaque`,
`Axiom`, `QuotD`, `Basis`, `Ind`), each the whole of its function: header, gates,
judgements, the environment it stores and how it fails; `Ask` is the core asked
for an operation it computes on literals. What a block
outside the basis stores is given with the record, as module `Blocks` finds it.
The certified definitions that pinned operations are compared with
(`INatOpPinSet`) are a parameter; the theorems they bring are stored constants.
`sorryAx` is accepted without being stored, as in the code.

**Chunks, ParseBytes.** `parse_bytes` feeds the whole text: each complete line
(`TakeLine`), then what is left (`TakeLast`). The loop never holds the text: `src`
is what is unread, `buf` and `pos` the buffer being fed. `FeedLine` is a turn of
`feed_chunk`, `ChunkStep` a read that brings bytes behind the carried tail, `ReadEnd` and
`ReadFails` the empty read with `chunk_finish`, `ParseExportHandleD` what the driver
does with the answer. What a line says is not looked into there: the recogniser
and the semantic layer are constants, which the run `export` gives by `Scan` and
`Export`. The guard of the total size (`size_error`) is left out.

**Scan, Export.** The recogniser reads a symbol where the code reads a byte; the
text of a key and a run of ordinary characters in a literal are one symbol. The
twenty-odd object readers of the code are one loop at one table for each kind
of record. `Export` applies a line to the state. **Prepare** works on whole records; **Hoist**
is two loops over their indices, `target` the code's table of what moves, `todo` its
stack, `place` and `from` its two cursors.

**PinsText, PinsDump.** `Decode` goes through the text with a position and fails
at the first symbol out of place; a record's constructors are one loop at one
table (`NameShapes`, `LevelShapes`, `ExprShapes`) for the record functions of the
code. `ParsePins` cuts lines and tokens first, and `DumpPins` writes a node under
the next free id of its table. Three programs were written for one format, and
only one of them is inside the trusted core.

**Limbs.** The arithmetic of `nat.rs` limb by limb with words of `2^LogBits` bits.
A helper that hands a carry from limb to limb is `Threaded`; the two that recurse
on numbers (`push_zeros_nat`, `gcd`) are recursive functions. The state is two
registers, and each operation is an action that keeps its result in the first if
it is short enough (`MaxLimbs`); the properties are about every operation at every
state. The bitwise operations of a word are given by its bits.

How they compose: `Pool` implements `ParallelAll`, whose answer `Fold` uses in
`PhaseBVerdict` (the first record in order that is not "ok"); `Fold` works with
handles that never dangle and never change meaning, which is what `Arena`
shows; both rely on finite maps, which is what `HashMap2` shows (`TableIsMap`). `Blocks` and
`DeclCheck` stand on `TypingRules`, which the run `core` compares the core with;
`Core` stands on `Term`, which the run `exprwalks` compares the walks with, and
on the level order, which `levels` compares with the values.

## 3. Runs

| run | checks | states |
|---|---|---|
| `pool` | `ClaimedOnce`, `NoneSkippedBelowLimit`, `AnswerIsTheWalk`, refinement `Implements`, liveness `Returns` | 54 thousand |
| `hashmap2` | `ProbesEnd`, `NoFutureStamp`, `Agrees` | 82 thousand, up to symmetry |
| `arena` | `NoneDangles`, `Canonical`, `PromotionExact`, `IndexFollows`; `MeaningKept`, `PersOnlyGrows`, `RecordStartsClean` as action properties | 208 thousand |
| `fold` | `ViewExact`, `IndexExact`, `PrefixView`, `CacheFresh`, refinement `Implements` | 84 thousand |
| `levels` | `LeqExact`, `ZeronessExact` | 393 thousand, up to symmetry |
| `core` | `AnswersByTheRules`; `MemosTransparent`, `EntriesByTheRules` as action properties | 1204 |
| `limbs` | `ArithmeticExact` | 4096 |
| `exprwalks` | `WalksExact` | 69 thousand |
| `blocks` | `PositivityExact`, `EliminatorsTyped`, `ProofsEliminateAlike` | 605 |
| `export` | `ReadExact`, `RecordsExact`, `BlockExact`, `PinReadersAgree`, refinement `ReadsTheWhole` | 134 thousand |
| `prepare` | `GroundsFirst`, `PreparedExact` | 843 thousand |
| `decl_check` | `FastPathSound`, `CertsDetermine`, `AxiomsTrue` | 460 |

What the runs show, the bounds, and why they are enough to meet the cases that
matter.

- `pool`: four indices and two workers. Two lanes race for every claim, fail in
  both orders, read a limit lowered twice, die with results, and are refused in
  part or altogether. The claim counter needs no bound: a lane stops at its first
  claim past the end. The theorems cover the rest.
- `hashmap2`: four keys, `MinCapacity = 4` (a load of three), so the fourth
  distinct key doubles the array; hashes 0, 3, 6, 7 collide, wrap at slot 3 and
  part when doubled. `EpochMax = 2` wraps the stamp after two clears.
  `FitDecay = 2` and `FitSlack = 1` make `clear_fit` drop a doubled array.
  `Pow2Fuel = 2` is the fuel of `pow2_at_least`, and never runs out. Keys and
  values are symmetric: `Init` picks every assignment of hashes.
- `arena`: a leaf that is interned like a name and a binary expression; three
  persistent and two scratch rows, so that sharing, mixed children and full tables
  all occur. A state holds two handles (`MaxHeld`) among constants, pending
  records, cache entries and memo entries together: two constants of one bracket or
  of two, one of them installed under the scratch handle the other had, or a
  constant beside a record or an entry. A scratch handle of one bracket is given to
  another name in the next one, which is what a stale index row needs. A promotion
  onto a row that is there does not occur, here or for any bounds (`PromotionAppends`).
  Brackets may be opened any number of times. The run may end (a failure, or the
  end), so deadlock is not checked.
- `fold`: all streams of at most three out of nineteen declarations, chosen so
  that a value unfolds, projects from or fires the rules of something before it,
  proves itself, meets its name twice, or carries a bad certificate; blocks with
  a constructor named twice, or as its former or recursor, and a mutual block
  with two formers, two recursors and two structures. With three declarations a
  record can see one constant before it and miss one after it.
- `levels`: every pair of levels of at most four constructors in all
  (`MaxNodes`) over two parameters, `max` and `imax` of zero and of compound levels
  among them, that is every nesting of the cases the
  comparison splits on: `imax` below `max` and `succ` on either side, the
  parameter that is split tried at zero and at a successor. Values up to five
  (`MaxValue`) separate any two such levels: they add at most four to a
  parameter.
- `core`: one environment with what each rule of the core needs, and pairs of
  questions (`MaxQueries`) asked in both modes, of caches that hold what the
  first left there: well-typed and ill-typed terms, convertible and not, with
  literals, eta, units, proofs, rule K, projections, `eagerReduce`. Errors end the
  record, and the next one may ask the same. The fuel of the knots is never used
  up. Every entry a question adds is compared as well, so the open terms met
  inside a question are questions of their own.
- `limbs`: words of two bits (`LogBits = 1`), numbers of at most three limbs, reached by the
  operations themselves; so all-ones and zero limbs, carries out of the top and
  shifts by more than a word all occur. Powers are taken at every exponent of a word;
  shifts to the left by a number are compared up to six words (`MaxShift`), as the
  result has to fit the integers of the checker.
- `exprwalks`: bounds saturate at three; terms that share a subterm at several
  cursors, below, at and above saturation. A second call finds the tables as the
  first left them, with fuel that ran out at each of three places.
- `blocks`: thirty-four exports: numbers, lists, trees over lists and over a
  container nested in itself (its lists are met at the hole of its own unfinished
  frame, and so walked and not remembered), mutual and
  reflexive types, equality, connectives, a dependent pair; and blocks each wrong in
  one way, in positivity (also a container accepted at one argument and met again at
  another, where it is not), universes, indices, a recursor's minors or hypotheses.
- `export`: files of up to four lines out of sixteen, in chunks of 1 and 15 symbols
  in any mixture (so a border falls at every place in a line, at its end and behind
  it, and a chunk may end several lines), ended by a newline or not, a read failing
  at every point; every kind of record with its
  members in several orders, one left out or one flaw; blocks with records in any
  order and one number wrong. The reference reads the lines one at a time.
  Pin texts: three lists, one of which uses every constructor, as the writer writes
  them; and that one with one symbol deleted, a space or a `3` inserted, or a
  newline or a `1` put in its place, at every position. Ids go up to `PinIdMax`
  (29, above the ids that occur), and no digit follows a number above `AccMax` (3),
  so edits reach both limits.
- `prepare`: every stream of at most seven out of thirteen declarations in which a
  record's names are declared once and before their use (or by the prelude), three of
  them copies of prelude records, one of which references a record of the stream and
  is put ahead of it; so that an operation comes
  before its grounds, before what they are built from, or before another operation
  with grounds of its own. The hoist is taken step by step; its loop over the
  worklist may take the records in any order.
- `decl_check`: exports that rightly declare each of the fifteen operations;
  definitions of another operation or off by a case; pins out of order, with a proof
  short or a proof too many; axioms over families with a constructor more or a
  field less. Operations are asked for on operands up to three (`AskedUpTo`) where
  they come to at most sixteen (`AnsweredUpTo`): the stored definitions unfold
  numbers in unary.

Deadlock is not checked in `levels`, `exprwalks`, `blocks`, `export`, `prepare` and
`decl_check`: a behaviour there ends with its input. States of these runs are
inputs and what was made of them, so they are few and slow.

Fairness. Only `Returns` needs any: `WF` on the caller's steps and on each
lane's. The operating system runs every thread, and the closures the driver
passes return or panic, since the typing core runs on fuel. A lane that skips
indices still claims one each time round, so it comes to an end. No other
component waits for another: the rest of the program is sequential calls on
fuel.

Every property has a mutant in `PROJECT.json`: a definition changed the way a
plausible bug would, under which TLC finds the property violated.

## 4. Proofs

The theorems hold for every value of the constants that the named assumptions
allow. `SizeAssumption` of `Pool`: two naturals. `ArenaAssumption`: arities and
capacities are naturals; `NoHandleAssumption`: the mark is no handle.
`SizeAssumption` of `HashMap2`: the least capacity is at least four (the code's is
32), so that a load limit of three quarters leaves a slot; the others are
naturals, and the mark of an absent value is no value. `StreamAssumption` of
`Fold`: every stream is a sequence of well-formed declarations (`WellFormed`),
that is what the type `IDeclaration` holds: of one of its kinds, named; a block's
formers, constructors and recursors are sequences of names, and its projection
tables belong to formers of the block. It asks nothing that a check of the fold
would have to find out. `LogBitsAssumption` and `MaxLimbsAssumption` of `Limbs`: a
word has at least two bits, and a number has at most as many limbs as a word counts
(2^64 of them are more than any memory holds), which `shift_right_nat` rests on where
it answers zero. Of `Chunks`: `TextsAssumption` (texts are sequences of symbols),
`SizesAssumption` (a read brings at least one byte or is the end), and
`ScannerAssumption`, which is what the loop asks of `scan_line_fwd`: in any piece of
a text that begins with a line, it finds the end of the next line at its first
newline, and where the newline is there, or the piece goes to the end of the text, it
answers the same record or the same refusal as in the whole text, shifted by where
the piece begins. Where the newline is missing, it may answer a refusal or no end, as
the bytes happen to be cut. Nothing is assumed of `apply_line`, and a recogniser that
finds no progress or refuses is covered. TLC evaluates `ScannerAssumption` for the
modelled recogniser at every border of every text of the run `export`.

- **Pool.** `Inv` is inductive: types, `ClaimedOnce`, `NoneSkippedBelowLimit`,
  `LimitIsFailure` (a value the limit holds is `N` or a failed index, and no
  failure is below all of them), `CallerKnows` (where lanes can stand, seen from
  the caller), `AnswerIsTheWalk`. When the caller walks the table every lane is
  at rest with `next >= N` or there is no lane lost, so below the least failure
  every index was pushed (`NoneSkippedBelowLimit`) and at it a failure was
  (`LimitIsFailure`): the walk meets no gap. The theorem `Refinement` shows that
  each action is a step of `ParallelAll` (a push is `Try`, `Return` is `Return`,
  `LaneUnwound` is `Abort`) or a stutter.
- **Arena.** `Inv` joins to the types what a phase says of the tables
  (`Bracketed`), that persistent and scratch rows name earlier rows only
  (`PersClosed`, `ScrClosed`), what a step holds on to (`StepHeld`),
  `NoneDangles`, hash-consing (`HashConsed`), and that what a promotion remembers
  is a copy (`Copied`). Hash-consing is needed with the
  closure: the probe of the persistent rows may be skipped for a node with a
  scratch child because no persistent row has one. From it follow `NoneDangles`,
  `PersClosed`, and the action properties `PersOnlyGrows` and
  `RecordStartsClean`. What a handle stands for (`Term`) is recursion over the rows
  of a state, and these are ranked, persistent rows first (`RowsRanked`); so the
  recursion has a solution (`TreesExist`, `TermTrees`), two states agree on the
  handles live in both (`TreesAgree`, `TermsKept`), and different rows are
  different terms (`TreesDiffer`): hence `Canonical`. A promoted handle means what
  it meant (`PromotedMeans`, by the least row that would fail): hence
  `PromotionExact`, and with `TermsKept` the action property `MeaningKept`.
  The index needs more: it is written under promoted handles, so two names must not
  be promoted to one. `IndexInv` adds to `Inv` that the index has the row of each
  constant and no other (`Indexed`), and of a promotion (`PromotedApart`) that it
  began over some number of persistent rows which no scratch row equals, that
  scratch rows and constants name no persistent row above these, and that those
  above are the ones it remembers. So a copy never equals a row that was there
  before it (`PromotionAppends`: the probe of `PersTier::intern_e` never hits
  during a promotion), two scratch rows have two copies (`PromotedDiffer`), and
  `Reindexed` gives each constant its slot: hence `IndexFollows`, whose second half is
  `TermsAreHandles` read the other way.
- **Hash map.** `Inv` says that the table is `Kept` at some capacity: typed,
  `Unbroken` (no free slot between the home of a live key and its slot), `Once`,
  `Past` (no stamp of the future), the count exact, the load limit that of the
  array and not exceeded. Slots are a circle (`Around`, `Dist`), and the code's
  remainders walk it (`Mods`). A table within its load limit has a free slot
  (`KeptHasRoom`), so a probe ends, on the key where it is live and else on the
  slot where it belongs (`ProbeEnds`, `ProbeOf`). One lemma for each operation then
  says what it keeps and what is bound after it. The hard one is `RepairKeeps`: during
  the walk (`Walking`) the hole is the only gap any way to a live slot has, no way
  to a slot already visited passes it, and a free slot is still to come; the last
  is what makes the walk end within one round, and the first free slot it meets
  separates the hole from everything not visited (`WalkEnds`). `ResizeKeeps` counts
  the live slots below an index. `KeptSays` draws `ProbesEnd` and `NoFutureStamp`
  from the invariant. `TableIsMap` adds to it that the table binds
  what the abstract map binds (`Same`), whence `Agrees`.
- **Fold.** `Inv` joins to the types what each stage of a step says of its own
  variables (`KindOK`), `IndexInv` (index rows, table rows and the vectors agree:
  `Exact`), `ViewInv` (at every stage the environment is the prefix the step began
  in, with what the stage has pushed for a time on top), `OnTop`, `Passed` (what
  the stages before this one have asked and found good), `CacheFresh`, `Installed`
  (the prefix is the one-pass checker's environment after as many declarations),
  `PendingInv` (a record's bound is the length of the prefix it was installed in,
  its install step passed, and its value is the declaration's) and `OutcomeInv`.
  `Passed` is needed because the abstract checker judges a declaration in one step
  and the code asks stage by stage; `OnTop` because what is popped must be what
  was pushed. The lemmas before it say what the operators keep: `PopPush` (displaced rows
  come back), `ReindexKeeps` (two walks over the installed rows, one down and one
  up), restriction to a bound. `FoldImplements` maps each action to a step of
  `CheckDecls` or a stutter: stages stutter, and the verdict is the one step that
  shows.

- **Limbs.** `ArithmeticIsExact` is for every word size: what TLC tries with two bits
  holds with 64. `Registers` (both registers in normal form, at most `MaxLimbs` limbs)
  is inductive, as every operation returns the normal form of its result. A
  carry or a borrow is an equation limb by limb (`CarryIs`, `BorrowIs`, `MulDigit`,
  `ShlDigit`, `ShrDigit`) that `Ripple` sums up. The or of two words with no bit in
  common is their sum (`OrDisjoint`), which is what the shifts use it for. `CmpIs` shows
  that longer is greater and that a value has one normal form. Division
  keeps, bit by bit, `quotient * b + remainder =` the part of the dividend read so far,
  with the remainder below `b` (`BitDone`, `LimbDone`), so that no quotient bit is
  shifted out of its limb. `gcd` and `push_zeros_nat` recurse on a number that shrinks:
  `RecShrinks` says that such a recursion has a solution, and the least number principle
  what it is (`GcdIs`, `ShiftLeftNatIs`). `ArithmeticExact` asks for shifts to the left
  by at most six words, `ShiftLeftNatIs` for all.

- **Chunks.** `Inv` says that the buffer is a piece of the text which begins with a
  line and that what is unread follows it (`InPlace`), that a read fails only as the
  last (`Staged`), and that the lines counted are the newlines behind the position in
  the text (`Counted`, hence `LinesCounted`: an error names its line). `ReadsWhole`
  maps each action to a step of `ParseBytes`: a turn on a line that is all there is
  the same turn in the text (`LineIn`, `SameTurn`), a read moves the buffer and leaves
  the position in the text where it was (`StepKeeps`), the tail carried to the end is
  the tail of the text (`PieceOfPiece`, `SameFinal`), and a failed read loses the parse.
  So the loop does what the code's comment on `parse_chunks` says, for every text and
  every way to cut it, and with bytes for symbols as well.
- **Hoist.** `HoistProofs` asks nothing of the records: what they declare, reference
  and are certified over are parameters. `Inv` says of the first half that what a moved
  record references, and every ground of what was looked at, is moved as far or still
  in the worklist (`UsesClosed`, `GroundsClosed`), and that each move has a reason
  (`Reasons`); a record is bound for one place once and never further up again,
  because later records have later places (`CloseInv`). Of the second half it says
  that what is listed is sorted by place, moved records before the one that stays,
  then by the old order (`Sorted`, the order `hoist_key` and `hoist_lt` of the
  code's comment specify), and which records are listed (`Listing`); a record
  listed last is above all of these (`ListedLast`). When all are listed, coming
  earlier is being less (`EarlierIsLess`), and `GroundsComeFirst` follows by cases. The
  theorem says less of an operation that is itself moved, because the code does: what
  it references goes with it, but a ground of its own certificate that the stream had
  between its new place and its old one stays behind unless it is referenced.
  `PreparedExact` adds that where the definition of an operation references its
  grounds, as in the run, they come before it wherever it goes.

Induction. The provers have no induction on an operator, but the well-foundedness of
`<` is a theorem of the library about sets, and from it comes `LeastNumber`: a set
of naturals that is not empty has a least member, and what holds of 0 and passes
from each number to the next holds up to any bound. With these the recursive functions
of the models (`EnvAfter`, the doubling, the copying of a resize, the walk of
`repair`, the term below a handle, the loops over limbs, Euclid's recursion) are shown to be well defined (`...Unfolds`,
`TreesExist`) and followed step by step.

Only model-checked: liveness (`Returns`) and the algorithms on terms. `Level`, `Term` and what extends
them, the recogniser, the semantic layer of the reader and `Prepare` are recursive over
terms, levels or texts and declare their recursion as such: they are for
TLC, and no theorem stands in a module that reaches them. So `ReadExact`, that what
the loop makes of a file is what its lines say, is checked, and that the loop
makes of it what the whole parse does is proved.

## 5. Not modelled

- *Data*: the text of the pinned definitions (`kernel/pins_text.rs`, 26 thousand
  lines of bytes, whose decoder is modelled), the prelude's text, decimal digits to
  limbs (`nat_decimal.rs`), interning the pins at the start. The decoded pins are
  a parameter of `DeclCheck` and are varied.
- *Layout*: the bits of a handle and of a derived word other than its bounds and
  flag, hashes, `ptr.rs`. A handle is a pair of tier and row in `Arena`, a tree
  elsewhere, so that fields running into each other at a capacity (`handle.rs`) is
  out of sight.
- *Bytes inside a symbol*: in the run `export`, a chunk that ends inside a key, a
  literal or a character of several bytes (`ReadsWhole` covers these borders for a
  recogniser of bytes that meets `ScannerAssumption`); the guard of the offsets' width
  and of the total size.
- *The heartbeat*: the lines printed from the workers and their lock; it has no
  effect on the verdict.
- *`hashmap.rs`*: the first map, used by the reader and the kernel as a finite
  map, which is what it is there.
- The command line; of the dump tool the allocator, the decimal chunks and the
  census of shared nodes; the Lean proof and the scripts.

## 6. Plan

Done: every component of the checker's logic but what section 5 lists; proofs
for pool, arena, hash map, fold, limbs, the reader loop and the hoist. Next, in order of weight:

1. *Layout lemmas*: packing and unpacking a handle.
2. *Bytes*: the recogniser byte by byte; the heartbeat as a counter under a lock.
