------------------------------- MODULE MCFold -------------------------------
(* Fold over every stream of at most three of these declarations.          *)
EXTENDS Fold, TLC

Value(k, n, ty, val) == [kind |-> k, pin |-> TRUE, name |-> n, ty |-> ty, val |-> val]
Pinned(n, cert) ==
  [kind |-> "pinned", pin |-> TRUE, name |-> n, ty |-> <<>>, val |-> <<>>, cert |-> cert]
Block(ctors, rule, structs) ==
  [kind |-> "block", pin |-> TRUE, inds |-> <<"T">>, ctors |-> ctors, recs |-> <<"rec">>,
   ty |-> <<>>, flds |-> ("T" :> {"Ind"}), rty |-> ("T" :> {"Ind"}),
   rule |-> rule, dom |-> ("T" :> {"Ind"}), structs |-> structs]

BareRule == ("rec" :> {"Bare"}) @@ ("T" :> {"Ind"})

(* A mutual block over T and x, a structure each, with two recursors.      *)
Mutual ==
  [Block(<<"mk">>, BareRule @@ ("y" :> {"Bare"}), <<"T", "x">>) EXCEPT
     !.inds = <<"T", "x">>, !.recs = <<"rec", "y">>]

Decls ==
  { Value("defn", "x", <<>>, <<>>),
    Value("defn", "y", <<>>, "x" :> {"Defn"}),            \* unfolds x
    Value("opaque", "x", <<>>, <<>>),
    Value("thm", "y", "x" :> {"Defn", "Axiom"}, "x" :> {"Defn"}),
    Value("thm", "y", <<>>, "y" :> {"Thm"}),              \* a proof by itself
    Value("thm", "x", <<>>, "T" :> {"Struct"}),           \* projects from T
    Value("opaque", "y", <<>>, "rec" :> {"Rec"}),         \* fires rec's rules
    [kind |-> "axiom", pin |-> TRUE, name |-> "mk", ty |-> "x" :> {"Axiom"}],
    [kind |-> "axiom", pin |-> FALSE, name |-> "x", ty |-> <<>>],
    Pinned("x", TRUE), Pinned("y", FALSE),
    Block(<<"mk">>, BareRule, <<"T">>),
    Block(<<"mk">>, BareRule, <<>>),
    Block(<<"mk", "mk">>, BareRule, <<>>),
    Block(<<"T">>, BareRule, <<>>),
    Block(<<"rec">>, BareRule, <<>>),
    Block(<<"mk">>, "rec" :> {"Rec"}, <<>>),
    [Block(<<"mk">>, BareRule, <<>>) EXCEPT !.dom = "rec" :> {"Bare"}],
    Mutual }

MCName == {"x", "y", "T", "mk", "rec"}
MCStream == UNION {[1 .. n -> Decls] : n \in 0 .. 3}

=============================================================================
