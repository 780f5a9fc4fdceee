------------------------------- MODULE Prepare -------------------------------
(***************************************************************************)
(* The parsed stream made ready for the hoist (frontend/prepare.rs): the   *)
(* prelude's declarations go first.  And what the hoist of module Hoist    *)
(* reads off a record (frontend/nat_op_ground.rs, core.rs): the constants  *)
(* it references, and what a pinned Nat operation is certified over.       *)
(*                                                                         *)
(* A record is its names, its kind and the expressions in it.  A name      *)
(* handle is a string.                                                     *)
(***************************************************************************)
EXTENDS Term, SequencesExt

CONSTANTS
    Prelude,        \* the prelude's records, in order
    Exported,       \* the records an export may declare
    MaxStream       \* bound: records in a stream

IDeclarationNames(d) == Range(d.names)
Declares(n, d)       == n \in IDeclarationNames(d)

-----------------------------------------------------------------------------
(* The prelude (prepare.rs) *)

PreludeKey(d) == IF d.names = << >> THEN "anonymous" ELSE d.names[1]

(* The first record that declares n and is not picked yet, or one past the *)
(* end.                                                                    *)
PickIdx(n, ds, picked) ==
    LET k == SelectInSeq([i \in DOMAIN ds |-> i],
                         LAMBDA i : i \notin picked /\ Declares(n, ds[i]))
    IN  IF k = 0 THEN Len(ds) + 1 ELSE k

(* For every prelude record the stream's own copy of it, if it has one. *)
FrontOf(ps, ds) ==
    FoldLeft(LAMBDA picks, p : Append(picks, PickIdx(PreludeKey(p), ds, Range(picks))), << >>, ps)

PreparedFront(ps, ds, picks) ==
    [j \in DOMAIN ps |-> IF picks[j] <= Len(ds) THEN ds[picks[j]] ELSE ps[j]]
PreparedRestAll(ds, picks) == ds      \* mutant: what was picked comes again
PreparedRest(ds, picks) ==
    LET rest == SelectSeq([i \in DOMAIN ds |-> i], LAMBDA i : i \notin Range(picks))
    IN  [k \in DOMAIN rest |-> ds[rest[k]]]
PreparedStream(ps, ds) ==
    LET picks == FrontOf(ps, ds)
    IN  PreparedFront(ps, ds, picks) \o PreparedRest(ds, picks)

-----------------------------------------------------------------------------
(* The pinned Nat operations, and what the certificate of each is spelled  *)
(* over (core.rs)                                                          *)

NatOpNames     == {"pred", "add", "sub", "mul", "pow", "beq", "ble"}
NatDivModNames == {"div", "mod", "gcd", "land", "lor", "xor", "shiftLeft", "shiftRight"}

NatOpDeps(c) ==
    CASE c = "sub"                -> {"pred", "sub"}
      [] c = "mul"                -> {"add", "mul"}
      [] c = "pow"                -> {"add", "mul", "pow"}
      [] c \in {"div", "mod"}     -> {"pred", "sub", "ble", c}
      [] c = "gcd"                -> {"ble", "mod", "gcd"}
      [] c \in {"land", "xor"}    -> {"add", "mul", "ble", "div", "mod", c}
      [] c = "lor"                -> {"add", "sub", "mul", "ble", "div", "mod", "lor"}
      [] c = "shiftLeft"          -> {"sub", "mul", "ble", c}
      [] c = "shiftRight"         -> {"sub", "ble", "div", c}
      [] c \in {"pred", "add", "beq", "ble"} -> {c}
      [] OTHER                    -> {}

IsNatOpRecord(d) == d.kind = "defn" /\ d.names[1] \in NatDivModNames \cup NatOpNames

(* What the certificate of a record asks for, the operation itself left    *)
(* out.                                                                    *)
OpGrounds(d) == IF IsNatOpRecord(d) THEN NatOpDeps(d.names[1]) \ {d.names[1]} ELSE {}

(* The constants an expression references: a projection names its          *)
(* structure, and a free variable's type is entered.                       *)
RECURSIVE UsedConsts(_)
UsedConsts(e) ==
    (IF e[1] \in {"const", "proj"} THEN {e[2]} ELSE {})
    \cup (IF Is("fvar", e) THEN UsedConsts(e[3]) ELSE {})
    \cup UNION {UsedConsts(k) : k \in Range(Kids(e))}

DeclUsedConsts(d) ==
    IF d.kind = "quot" THEN {} ELSE UNION {UsedConsts(e) : e \in Range(d.terms)}

-----------------------------------------------------------------------------
(* The stream as the parse pushes it: every record after the ones it       *)
(* references, unless the prelude has them.                                *)

VARIABLE stream

Named(ds) == UNION {IDeclarationNames(d) : d \in Range(ds)}

InitStream == stream = << >>

PushDecl(d) ==
    /\ Len(stream) < MaxStream
    /\ IDeclarationNames(d) \cap Named(stream) = {}
    /\ DeclUsedConsts(d) \subseteq Named(stream) \cup Named(Prelude) \cup IDeclarationNames(d)
    /\ stream' = Append(stream, d)

NextStream == \E d \in Exported : PushDecl(d)

SpecStream == InitStream /\ [][NextStream]_stream
=============================================================================
