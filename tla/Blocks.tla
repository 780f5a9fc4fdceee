------------------------------- MODULE Blocks -------------------------------
(***************************************************************************)
(* The inductive blocks of an export, checked one after another and stored *)
(* (check_ind_decl of arena/check_decl.rs and                              *)
(* arena/inductives/block_tail.rs).  A block goes through the phases in    *)
(* the order of the code; the first failure ends its record, and the fold  *)
(* with it, and leaves the environment of the blocks before.  The first    *)
(* recursor to be stored and every rule are checked in the environment of  *)
(* the constructors.                                                       *)
(***************************************************************************)
EXTENDS Recursors

CONSTANTS Basis,       \* the environment the export starts in
          Exports      \* sequences of blocks [n_p, infos], each an export

VARIABLES env,         \* what is stored
          todo,        \* the blocks still to check
          at,          \* the phase the first of them is in, or how the fold ended
          work         \* what its phases have found

vars == <<env, todo, at, work>>

Block   == todo[1].infos
p       == work.p
Nothing == [p |-> <<>>]

Init ==
  /\ env = Basis /\ todo \in Exports
  /\ at = "read" /\ work = Nothing

(* A phase that finds r goes on with it, and one that finds nothing has    *)
(* rejected the block.                                                     *)
Found(cond, more) == IF cond THEN <<more>> ELSE <<>>
Phase(name, next, r) ==
  /\ at = name
  /\ \E o \in {r} : IF o = <<>> THEN at' = "rejected: " \o name /\ UNCHANGED work
                    ELSE at' = next /\ work' = o[1] @@ work
  /\ UNCHANGED <<env, todo>>

(* The declared number of parameters is one the types have.                *)
PiSortTeleLen(ty) ==
  LET q == PiBinders(ty, <<>>) IN IF Is("sort", q.rest) THEN <<Len(q.doms)>> ELSE <<>>
IndParamsOk(n_p, ci) ==
  CASE ci.kind = "ind"  -> LET n == PiSortTeleLen(ci.ty) IN n = <<>> \/ n_p <= n[1]
    [] ci.kind = "ctor" -> ci.np = n_p
    [] OTHER -> TRUE
DupFree(q) ==
  Found(NameNodup(CvNames(AllCtors(q))) /\ NameNodup(ShapeNames(q)), [p |-> q, raw |-> BlockRawRec(q)])
Recognised(n_p, q) == IF q = <<>> THEN <<>> ELSE DupFree(q[1])
Read ==
  /\ todo # <<>>
  /\ Phase("read", "inds",
       IF \E i \in DOMAIN Block : ~IndParamsOk(todo[1].n_p, Block[i]) THEN <<>>
       ELSE Recognised(todo[1].n_p, BlockPartsOf(todo[1].n_p, Block)))

IndsFound(r) == IF r = <<>> THEN <<>> ELSE <<[p |-> r[1].p, env1 |-> r[1].env, cvs |-> r[1].cvs]>>
Inds == Phase("inds", "ctors", IndsFound(CheckBlockInds(env, p, work.raw)))

SortsFound(r) == IF r = <<>> THEN <<>> ELSE <<[sortss |-> r[1]]>>
Ctors == Phase("ctors", "classes", SortsFound(CheckBlockCtors(work.env1, work.env1, p, work.cvs)))

(* The classes are read off the recursors before positivity is checked.    *)
ClassesFound(x, holes, rd, ms) ==
  IF ms = <<>> THEN <<>>
  ELSE <<[x |-> x, holes |-> holes, slots |-> rd.slots, cls |-> rd.cls, classes |-> ms[1]]>>
ClassesRead(x, holes, rd) ==
  IF holes = <<>> \/ rd = <<>> THEN <<>>
  ELSE ClassesFound(x, holes[1], rd[1], CheckBlockClasses(x, p, rd[1].slots))
ClassesIn(x) == IF x = <<>> THEN <<>> ELSE ClassesRead(x[1], NestHoles(x[1]), ClassRead(p, work.env1))
Classes == Phase("classes", "positivity", ClassesIn(BlockNestCtx(work.env1, p, work.cvs)))

PosFound(r) == IF r = <<>> THEN <<>> ELSE <<[outss |-> r[1].outss, ns |-> r[1].ns]>>
PositivityOf == Phase("positivity", "seeds", PosFound(CheckBlockPositivity(work.x, p)))

SeedsFound(r) == IF r = <<>> THEN <<>> ELSE <<[tbl |-> r[1].nfs]>>
Seeds ==
  Phase("seeds", "indices",
        SeedsFound(NestSeeds(work.x, ClassSeeds(work.x, work.holes, work.classes), work.ns)))

Indices ==
  Phase("indices", "headers",
        Found(CheckBlockIdxSorts(work.env1, p, work.cvs), [env2 |-> ConsBlockCtors(p, work.env1)]))

(* The recursors, in the environment with the constructors.                *)
Context == [env |-> work.env2, x |-> work.x, p |-> p, cvs |-> work.cvs,
            classes |-> work.classes, slots |-> work.slots, cls |-> work.cls]
Headers ==
  Phase("headers", "normal forms",
        Found(RecHeadersOk(work.env2, p, BlockSplit(Block)[1], work.classes, BlockNestedBit(p, work.outss)),
              [g |-> Context]))
GFound(r) == IF r = <<>> THEN <<>> ELSE <<[g |-> r[1]]>>
NormalForms == Phase("normal forms", "minors", GFound(ClassesNfs(work.g, work.tbl)))
Minors      == Phase("minors", "types", GFound(ClassCtors(work.g)))
TysFound(tys) == Found(ClassRecTysOk(work.g, tys), [tys |-> tys])
RecTypes    == Phase("types", "rules", TysFound(GenRecTys(work.g)))
RulesFound(rules) == Found(CheckRules(work.g, work.tys, rules), [rules |-> rules])
Rules ==
  Phase("rules", "store", IF CallsHaveRecs(work.g) THEN RulesFound(GenRules(work.g)) ELSE <<>>)

(* Everything is stored together; an error in a table rejects the block.   *)
Stores(r) ==
  IF r = <<>> THEN at' = "rejected: store" /\ UNCHANGED <<env, todo, work>>
  ELSE /\ env' = r[1] /\ todo' = Tail(todo) /\ work' = Nothing
       /\ at' = IF Tail(todo) = <<>> THEN "done" ELSE "read"
Store ==
  /\ at = "store"
  /\ \E r \in {CheckBlockTables(p, work.sortss, 1, ConsBlockRecs(work.g, work.tys, work.rules, 1, work.env2))} :
       Stores(r)

Next ==
  \/ Read \/ Inds \/ Ctors \/ Classes \/ PositivityOf \/ Seeds \/ Indices
  \/ Headers \/ NormalForms \/ Minors \/ RecTypes \/ Rules \/ Store

Spec == Init /\ [][Next]_vars
=============================================================================
