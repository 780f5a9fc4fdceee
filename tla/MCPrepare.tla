------------------------------ MODULE MCPrepare ------------------------------
(***************************************************************************)
(* Every order in which an export can declare a few Nat operations, the    *)
(* things their certificates need, and records that only use them.         *)
(***************************************************************************)
EXTENDS Prepare, Hoist

Use(n) == Cnst(n, << >>)
NatTy  == Use("Nat")
Fn(e)  == Lam(NatTy, e)

(* An operation's own definition mentions only some of its grounds. *)
Op(name, uses) ==
    [names |-> <<name>>, kind |-> "defn",
     terms |-> <<Pi(NatTy, NatTy)>> \o [i \in DOMAIN uses |-> Fn(App(Use(uses[i]), BVar(0)))]]
Thm(name, uses) == [Op(name, uses) EXCEPT !.kind = "thm"]
Block(names) == [names |-> names, kind |-> "ind", terms |-> <<Srt(LZero)>>]

PreludeNat  == Block(<<"Nat", "Nat.zero", "Nat.succ", "Nat.rec">>)
PreludeQuot == [names |-> <<"Quot">>, kind |-> "quot", terms |-> << >>]
ThePrelude  == <<PreludeNat, PreludeQuot>>

(* The stream's own Nat has its members in another order. *)
OwnNat == Block(<<"Nat.zero", "Nat", "Nat.succ", "Nat.rec">>)

(* Or it mentions a record of the stream, which it is then put ahead of.   *)
OwnNatOver(n) == [PreludeNat EXCEPT !.terms = Append(@, Use(n))]

TheExported ==
    {OwnNat, OwnNatOver("helper"), PreludeQuot, Op("pred", << >>), Op("sub", <<"pred">>), Op("ble", << >>),
     Op("mod", <<"sub">>), Op("gcd", <<"mod">>), Op("helper", << >>),
     Op("add", <<"helper">>), Op("mul", <<"add">>), Op("shiftLeft", << >>),
     Thm("mod_lt", <<"mod", "helper">>)}

TheRecords == Range(ThePrelude) \cup TheExported

-----------------------------------------------------------------------------
(* The stream is pushed until the hoist of what it is prepared to begins.  *)
InitMC == InitStream /\ ds = PreparedStream(ThePrelude, stream) /\ InitHoist

Push ==
    /\ stage = "targets" /\ at = 0
    /\ NextStream
    /\ ds' = PreparedStream(ThePrelude, stream')
    /\ UNCHANGED <<stage, at, todo, target, place, from, order>>

NextMC == Push \/ (NextHoist /\ UNCHANGED stream)

SpecMC == InitMC /\ [][NextMC]_<<stream, hoistVars>>

-----------------------------------------------------------------------------
(* The prepared stream is the stream and what it lacks of the prelude,     *)
(* each record once; the prelude's names come first, in the stream's own   *)
(* copy where it has one; and where the definition of an operation         *)
(* references the grounds its own certificate needs, as these do, no       *)
(* record comes before one it references, and no operation, moved or not,  *)
(* before a ground that is anywhere in the stream.  Only a copy that is    *)
(* put first may have left behind what it references.                      *)
(* prepared_stream, hoist_close, hoist_order.                              *)
PreparedExact ==
    stage = "done" =>
        LET out    == [p \in DOMAIN order |-> ds[order[p]]]
            declarer(n) == {d \in Range(out) : Declares(n, d)}
            own(p) == {d \in Range(stream) : Declares(p.names[1], d)}
            lack   == {p \in Range(ThePrelude) : own(p) = {}}
            needs(d) == (DeclUsedConsts(d) \ IDeclarationNames(d)) \cup OpGrounds(d)
            front  == {out[j] : j \in DOMAIN ThePrelude}
            before(a, b) == \E i, j \in DOMAIN out : i < j /\ out[i] = a /\ out[j] = b
        IN  /\ Len(out) = Len(stream) + Cardinality(lack)
            /\ Range(out) = Range(stream) \cup lack
            /\ \A j \in DOMAIN ThePrelude :
                  LET p == ThePrelude[j]
                  IN  out[j] \in (IF own(p) = {} THEN {p} ELSE own(p))
            /\ \A d \in Range(out) : \A n \in needs(d) : \A b \in declarer(n) :
                  before(b, d) \/ (d \in front /\ b \notin front)
=============================================================================
