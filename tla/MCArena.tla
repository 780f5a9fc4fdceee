------------------------------ MODULE MCArena ------------------------------
(* Arena with one leaf, interned as a name is, and a binary expression.    *)
EXTENDS Arena, TLC

MCArity == ("x" :> 0) @@ ("app" :> 2)
MCSym == {"x", "app"}
MCExprSym == {"app"}

=============================================================================
