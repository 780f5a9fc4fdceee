------------------------------ MODULE MCLevels ------------------------------
(***************************************************************************)
(* A pair of levels under construction, up to MaxNodes constructors in     *)
(* all, over two universe parameters: every pair the comparison can be     *)
(* asked about, up to that size.                                           *)
(***************************************************************************)
EXTENDS Level, FiniteSets, TLC

CONSTANTS u, v,        \* the universe parameters
          MaxNodes,    \* bound on the constructors of the pair
          MaxValue     \* valuations give the parameters 0 .. MaxValue

ASSUME BoundsAssumption == {MaxNodes, MaxValue} \subseteq Nat

VARIABLES l, r

Leaves == {LZero, LParam(u), LParam(v)}

RECURSIVE Nodes(_)
Nodes(x) == CASE x[1] \in {"zero", "param"} -> 0
              [] LIs("succ", x) -> 1 + Nodes(x[2])
              [] OTHER          -> 1 + Nodes(x[2]) + Nodes(x[3])

Valuations == [{u, v} -> 0 .. MaxValue]

(* The levels of n constructors, and what one more makes of x, joined on   *)
(* either side with a level of at most n.                                  *)
Joins(x, y) == {LMax(x, y), LMax(y, x), LIMax(x, y), LIMax(y, x)}
RECURSIVE Built(_)
Built(n) ==
  IF n = 0 THEN Leaves
  ELSE {LSucc(x) : x \in Built(n - 1)}
       \cup UNION {UNION {Joins(x, y) : x \in Built(k), y \in Built(n - 1 - k)} : k \in 0 .. n - 1}
Wrap(x, n) == {LSucc(x)} \cup UNION {UNION {Joins(x, y) : y \in Built(k)} : k \in 0 .. n}

Renamings == Permutations({u, v})

Left == MaxNodes - Nodes(l) - Nodes(r)

Init == l \in Leaves /\ r \in Leaves
GrowLeft  == Left > 0 /\ l' \in Wrap(l, Left - 1) /\ UNCHANGED r
GrowRight == Left > 0 /\ r' \in Wrap(r, Left - 1) /\ UNCHANGED l
Next == GrowLeft \/ GrowRight
Spec == Init /\ [][Next]_<<l, r>>

(* leq answers exactly the order of the levels' values at every valuation: *)
(* the case splits on imax, the simplifications and the running difference *)
(* lose nothing, and it never gives up on these levels.                    *)
LeqExact == Leq(l, r) = <<\A val \in Valuations : Eval(l, val) <= Eval(r, val)>>

(* zeroness_of says exactly at which valuations a sort is Prop, and        *)
(* subst_pw moves that through the substitution p |-> r that unfolding a   *)
(* universe-polymorphic definition performs.                               *)
PwHolds(pw, val) == pw # Never /\ \A i \in DOMAIN pw[2] : val[pw[2][i]] = 0
ZeronessExact ==
  \A p \in {u, v} :
    LET pw    == SubstPw(<<p>>, <<r>>, ZeronessOf(l))
        moved == LSubst(<<p>>, <<r>>, l)
    IN  \A val \in Valuations : PwHolds(pw, val) <=> Eval(moved, val) = 0
=============================================================================
