----------------------------- MODULE CheckDecls -----------------------------
(***************************************************************************)
(* What checking a stream of declarations means, with no index, no cache,  *)
(* no phases and no pool: one declaration after the other, each checked    *)
(* whole against the environment of those before it (check_decl.rs,        *)
(* `check_decl`, and the stages it calls in checker_base.rs, decl_check.rs *)
(* and inductives/).  Fold is the two-phase checker the program runs, and  *)
(* implements this module.                                                 *)
(*                                                                         *)
(* A term is abstracted to the names it depends on and, for each, what the *)
(* environment may show there for its typing to succeed: t[n] is the set   *)
(* of showings the term is content with.  Inference, reduction and         *)
(* conversion ask nothing else of the environment.                         *)
(***************************************************************************)
EXTENDS Integers, Sequences

CONSTANTS
  Name,
  Stream    \* the streams of declarations considered

(* What a name shows.  An opaque is stored as an axiom, a recursor of a    *)
(* block being checked is there without its rules ("Bare"), and a former   *)
(* with a projection table is a structure.                                 *)
Showing == {"Absent", "Axiom", "Thm", "Defn", "Ind", "Struct", "Ctor", "Bare", "Rec"}

ValueKind == {"defn", "thm", "opaque"}   \* checked in two halves by Fold

VARIABLES ds, verdict

vars == <<ds, verdict>>

-----------------------------------------------------------------------------
Nothing == [n \in Name |-> "Absent"]
With(E, ns, s) == [n \in Name |-> IF n \in ns THEN s ELSE E[n]]
Range1(s) == {s[i] : i \in 1 .. Len(s)}
Distinct(s) == \A i, j \in 1 .. Len(s) : s[i] = s[j] => i = j

(* `consts_resolve` and `infer_type_core` with `is_def_eq_core`.           *)
Resolves(E, t) == \A n \in DOMAIN t : E[n] # "Absent"
Types(E, t) == Resolves(E, t) /\ \A n \in DOMAIN t : E[n] \in t[n]
AllFresh(E, ns) == \A n \in ns : E[n] = "Absent"

-----------------------------------------------------------------------------
(* The environment a block's four stages run in.                           *)
Formers(d) == Range1(d.inds)
Ctors(d) == Range1(d.ctors)
Recs(d) == Range1(d.recs)

AtCtors(E, d) == With(E, Formers(d), "Ind")
AtRecs(E, d) == With(AtCtors(E, d), Ctors(d), "Ctor")
AtRules(E, d) == With(AtRecs(E, d), Recs(d), "Bare")
AtEnd(E, d) ==
  With(With(AtRecs(E, d), Recs(d), "Rec"), Range1(d.structs), "Struct")

GoodBlock(E, d) ==
  /\ Distinct(d.ctors) /\ Distinct(d.inds) /\ Distinct(d.recs)
  /\ AllFresh(E, Formers(d)) /\ Types(E, d.ty)
  /\ AllFresh(AtCtors(E, d), Ctors(d)) /\ Types(AtCtors(E, d), d.flds)
  /\ AllFresh(AtRecs(E, d), Recs(d)) /\ Types(AtRecs(E, d), d.rty)
  /\ Types(AtRules(E, d), d.rule) /\ Resolves(AtRecs(E, d), d.dom)

-----------------------------------------------------------------------------
(* One declaration.  What it leaves in the environment depends on its      *)
(* statement alone; whether it is accepted splits into the half that is    *)
(* looked at when it is installed and the half that is a check of the      *)
(* value.                                                                  *)
Stored(d) ==
  CASE d.kind \in {"defn", "pinned"} -> "Defn"
    [] d.kind = "thm" -> "Thm"
    [] d.kind \in {"opaque", "axiom"} -> "Axiom"

After(E, d) == IF d.kind = "block" THEN AtEnd(E, d) ELSE With(E, {d.name}, Stored(d))

Installs(E, d) ==
  /\ d.pin
  /\ IF d.kind = "block" THEN GoodBlock(E, d)
     ELSE /\ AllFresh(E, {d.name}) /\ Resolves(E, d.ty)
          /\ d.kind \in {"defn", "opaque"} => Resolves(E, d.val)
          /\ d.kind = "axiom" => Types(E, d.ty)
          /\ d.kind = "pinned" => Types(E, d.ty) /\ Types(E, d.val) /\ d.cert

ValueChecks(E, d) == d.kind \in ValueKind => Types(E, d.ty) /\ Types(E, d.val)

Accepts(E, d) == Installs(E, d) /\ ValueChecks(E, d)

(* The environment after i declarations of a stream.                       *)
EnvAfter(s) ==
  LET env[i \in 0 .. Len(s)] == IF i = 0 THEN Nothing ELSE After(env[i - 1], s[i])
  IN  env

Refused(s) == {i \in 1 .. Len(s) : ~Accepts(EnvAfter(s)[i - 1], s[i])}

-----------------------------------------------------------------------------
Running == [kind |-> "running", at |-> 0]
Accepted == [kind |-> "accepted", at |-> 0]
RefusedAt(p) == [kind |-> "refused", at |-> p]
LimitAt(p) == [kind |-> "limit", at |-> p]
Internal == [kind |-> "internal", at |-> 0]

(* A position is 0-based.  A refusal names the first declaration refused,  *)
(* or the first that cannot even be installed.  A limit of the             *)
(* implementation -- fuel, a table at its capacity -- may be met anywhere. *)
Justified(s, v) ==
  LET bad == {i \in 1 .. Len(s) : ~Installs(EnvAfter(s)[i - 1], s[i])}
  IN  \/ v = Accepted /\ Refused(s) = {}
      \/ \E p \in Refused(s) :
           /\ v = RefusedAt(p - 1)
           /\ \/ \A i \in Refused(s) : p <= i
              \/ p \in bad /\ \A i \in bad : p <= i
      \/ \E p \in 1 .. Len(s) : v = LimitAt(p - 1)
      \/ v = Internal

Init == ds \in Stream /\ verdict = Running

Decide == verdict = Running /\ Justified(ds, verdict') /\ UNCHANGED ds

Spec == Init /\ [][Decide]_vars

=============================================================================
