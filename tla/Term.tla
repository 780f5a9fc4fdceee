-------------------------------- MODULE Term --------------------------------
(***************************************************************************)
(* Expressions as the checker's core sees them, and what the operations of *)
(* arena/expr_ops.rs compute on them.  A hash-consed handle is its tree    *)
(* (module Arena shows that equal trees have equal handles), so eq2 on     *)
(* handles is equality here, a view is the tuple itself and re-interning   *)
(* an unchanged node is the identity.  Walk fuel (2^62) never runs out.    *)
(*                                                                         *)
(*   <<"bvar", i>>  <<"sort", u>>  <<"fvar", i, type>>  <<"const", n, us>> *)
(*   <<"app", f, a>>  <<"lam", dom, body>>  <<"pi", dom, body>>            *)
(*   <<"let", type, value, body>>  <<"proj", s, i, e>>                     *)
(*   <<"lit", n>>  a natural number   <<"str", code points>>               *)
(***************************************************************************)
EXTENDS Level

BVar(i)       == <<"bvar", i>>
Srt(u)        == <<"sort", u>>
FVar(i, ty)   == <<"fvar", i, ty>>
Cnst(n, us)   == <<"const", n, us>>
App(f, a)     == <<"app", f, a>>
Lam(ty, b)    == <<"lam", ty, b>>
Pi(ty, b)     == <<"pi", ty, b>>
LetE(ty, v, b) == <<"let", ty, v, b>>
Lit(n)        == <<"lit", n>>
Prj(s, i, e)  == <<"proj", s, i, e>>

Is(tag, e) == e[1] = tag
IsConstNamed(n, e) == e[1] = "const" /\ e[2] = n

(* The application spine: its head, its arguments in order, and back.      *)
RECURSIVE GetAppFn(_), GetAppArgs(_), MkAppN(_, _)
GetAppFn(e)   == IF Is("app", e) THEN GetAppFn(e[2]) ELSE e
GetAppArgs(e) == IF Is("app", e) THEN Append(GetAppArgs(e[2]), e[3]) ELSE <<>>
MkAppN(f, args) ==
  IF args = <<>> THEN f ELSE MkAppN(App(f, Head(args)), Tail(args))

TakeN(s, n) == SubSeq(s, 1, IF n < Len(s) THEN n ELSE Len(s))
DropN(s, n) == SubSeq(s, n + 1, Len(s))

(* The subterms a walk enters, and the binders it opens over each of them. *)
(* A free variable's type is not entered, nor are levels.                  *)
Kids(e) ==
  CASE e[1] \in {"app", "lam", "pi"} -> <<e[2], e[3]>>
    [] e[1] = "let"                  -> <<e[2], e[3], e[4]>>
    [] e[1] = "proj"                 -> <<e[4]>>
    [] OTHER                         -> <<>>
Opened(e, i) ==
  IF \/ e[1] \in {"lam", "pi"} /\ i = 2
     \/ e[1] = "let" /\ i = 3
  THEN 1 ELSE 0
Rebuild(e, kids) ==
  CASE e[1] \in {"app", "lam", "pi"} -> <<e[1], kids[1], kids[2]>>
    [] e[1] = "let"                  -> <<"let", kids[1], kids[2], kids[3]>>
    [] e[1] = "proj"                 -> <<"proj", e[2], e[3], kids[1]>>

(* Replace the Len(vs) innermost bound variables at depth d, the last of   *)
(* vs by the innermost; a variable bound further out moves down.  The      *)
(* replacements of every caller are closed.                                *)
RECURSIVE InstList(_, _, _)
InstList(e, vs, d) ==
  IF Is("bvar", e)
  THEN IF e[2] < d THEN e
       ELSE IF e[2] - d < Len(vs) THEN vs[Len(vs) - (e[2] - d)]
       ELSE BVar(e[2] - Len(vs))
  ELSE IF Kids(e) = <<>> THEN e
  ELSE Rebuild(e, [i \in DOMAIN Kids(e) |-> InstList(Kids(e)[i], vs, d + Opened(e, i))])
Instantiate(e, vs) == InstList(e, vs, 0)
Inst1(e, v) == InstList(e, <<v>>, 0)

(* inst_spine: one instantiation per argument, the outermost binder first. *)
RECURSIVE InstSpine(_, _, _)
InstSpine(args, t, e) ==
  IF args = <<>> THEN e
  ELSE InstSpine(Tail(args), IF t = 0 THEN 0 ELSE t - 1, InstList(e, <<Head(args)>>, t))

(* Bind the free variables d .. d+k-1, the last one innermost.             *)
RECURSIVE AbsRange(_, _, _, _)
AbsRange(e, d, k, c) ==
  IF Is("fvar", e)
  THEN IF d <= e[2] /\ e[2] < d + k THEN BVar(c + (d + k - 1 - e[2])) ELSE e
  ELSE IF Kids(e) = <<>> THEN e
  ELSE Rebuild(e, [i \in DOMAIN Kids(e) |-> AbsRange(Kids(e)[i], d, k, c + Opened(e, i))])
AbstractRange(e, d, k) == AbsRange(e, d, k, 0)

(* Universe parameters lps replaced by the levels us, in a free variable's *)
(* type as well.                                                           *)
RECURSIVE InstLp(_, _, _)
InstLp(lps, us, e) ==
  CASE e[1] = "sort"  -> Srt(LSubst(lps, us, e[2]))
    [] e[1] = "const" -> Cnst(e[2], [i \in DOMAIN e[3] |-> LSubst(lps, us, e[3][i])])
    [] e[1] = "fvar"  -> FVar(e[2], InstLp(lps, us, e[3]))
    [] e[1] \in {"bvar", "lit", "str"} -> e
    [] OTHER -> Rebuild(e, [i \in DOMAIN Kids(e) |-> InstLp(lps, us, Kids(e)[i])])

(* What the derived words answer: is there a free variable, are the loose  *)
(* bound variables below k.                                                *)
RECURSIVE HasFVar(_), LooseBounded(_, _)
HasFVar(e) == Is("fvar", e) \/ \E i \in DOMAIN Kids(e) : HasFVar(Kids(e)[i])
LooseBounded(k, e) ==
  IF Is("bvar", e) THEN e[2] < k
  ELSE \A i \in DOMAIN Kids(e) : LooseBounded(k + Opened(e, i), Kids(e)[i])

(* Every free variable lies below d, and each one's type below the         *)
(* variable itself; the free variables met in a term and in their types;   *)
(* fab has no other than e.                                                *)
RECURSIVE WScoped(_, _), FVarLeaves(_)
WScoped(d, e) ==
  IF Is("fvar", e) THEN e[2] < d /\ WScoped(e[2], e[3])
  ELSE \A i \in DOMAIN Kids(e) : WScoped(d, Kids(e)[i])
FVarLeaves(e) ==
  IF Is("fvar", e) THEN {e} \cup FVarLeaves(e[3])
  ELSE UNION {FVarLeaves(Kids(e)[i]) : i \in DOMAIN Kids(e)}
LeafGuard(fab, e) == FVarLeaves(fab) \subseteq FVarLeaves(e)

RECURSIVE PiResult(_), PeelPis(_, _), BinderDom(_, _)
PiResult(e) == IF Is("pi", e) THEN PiResult(e[3]) ELSE e
PeelPis(k, e) == IF k = 0 THEN <<e>> ELSE IF Is("pi", e) THEN PeelPis(k - 1, e[3]) ELSE <<>>
BinderDom(k, e) ==
  IF ~Is("pi", e) THEN <<>> ELSE IF k = 0 THEN <<e[2]>> ELSE BinderDom(k - 1, e[3])
=============================================================================
