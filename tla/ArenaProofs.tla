----------------------------- MODULE ArenaProofs -----------------------------
(* Arena's invariant, for every symbol set, every capacity and every       *)
(* length of a run.  Inv is inductive: a lemma for each action proves that *)
(* it keeps it.  From it, and by induction on the rows of a state, what    *)
(* the handles stand for: that terms are equal as their handles are, that  *)
(* a promotion copies, and that no step changes what is kept.              *)
EXTENDS Arena, TLAPS, LeastNumber, FiniteSetTheorems

(* A handle is a tier and a row number.                                    *)
LEMMA HandleShape ==
  /\ \A h \in Handle : h = <<h[1], h[2]>> /\ h[1] \in {P, S} /\ h[2] \in Nat \ {0}
  /\ \A h \in PersHandle : h[1] = P
  /\ \A h \in ScrHandle : h[1] = S
  /\ P # S
BY DEF Handle, PersHandle, ScrHandle, P, S

(* A node over live handles is a node, and each of its kids is live.       *)
LEMMA NodeOverValid ==
  ASSUME TypeOK, NEW n \in NodesOver(ValidHandles)
  PROVE  n \in Node /\ \A h \in Kids(n) : h \in Handle /\ Valid(h)
<1> USE ArenaAssumption
<1>1. ValidHandles \subseteq Handle
  BY SMTT(30) DEF TypeOK, ValidHandles, Handle, PersHandle, ScrHandle, PersRows, Node
<1>2. \A h \in ValidHandles : Valid(h)
  BY DEF ValidHandles, Valid, P, S
<1>3. PICK s \in Sym : \E k \in [1 .. Arity[s] -> ValidHandles] : n = [sym |-> s, kids |-> k]
  BY DEF NodesOver
<1>4. PICK k \in [1 .. Arity[s] -> ValidHandles] : n = [sym |-> s, kids |-> k]
  BY <1>3
<1>5. Arity[s] \in Nat
  OBVIOUS
<1>6. k \in Seq(Handle) /\ Len(k) = Arity[s]
  BY <1>1, <1>5
<1>7. \A h \in Kids(n) : h \in ValidHandles
  BY <1>4, <1>5, <1>6 DEF Kids
<1> QED
  BY <1>1, <1>2, <1>4, <1>6, <1>7 DEF Node

LEMMA InitInv == Init => Inv
<1> SUFFICES ASSUME Init PROVE Inv
  OBVIOUS
<1>1. TypeOK
  <2>1. DOMAIN pmemo = {}
    BY DEF Init, EmptyMemo
  <2>2. tier \in [frozen : BOOLEAN, rows : Seq(Node)]
    BY DEF Init, NoTier
  <2>3. own \in Seq(Node) /\ scr \in Seq(Node) /\ env \in Seq(Handle) /\ pend \in Seq(Handle)
    BY DEF Init
  <2>4. /\ on \in BOOLEAN /\ since \in Nat /\ vg \in Handle \cup {NoHandle}
        /\ caches \in SUBSET Handle /\ memos \in SUBSET Handle
    BY DEF Init
  <2>5. phase \in Phases
    BY DEF Init, Phases
  <2>6. DOMAIN index = {}
    BY DEF Init, NoRows
  <2> QED
    BY <2>1, <2>2, <2>3, <2>4, <2>5, <2>6 DEF TypeOK
<1>2. Bracketed
  BY DEF Init, Bracketed, NoTier, EmptyMemo
<1>3. PersClosed /\ ScrClosed /\ StepHeld /\ NoneDangles /\ HashConsed /\ Copied
  BY DEF Init, PersClosed, ScrClosed, StepHeld, NoneDangles, HashConsed, Copied, PersRows,
         NoTier, EmptyMemo, Readable
<1> QED
  BY <1>1, <1>2, <1>3 DEF Inv

(* Interning keeps the invariant.  The one hard case is a node whose probe *)
(* of the persistent rows was skipped: it has a scratch child, and no      *)
(* persistent row has.                                                     *)
LEMMA InternStep ==
  ASSUME Inv, NEW n \in NodesOver(ValidHandles), Intern(n)
  PROVE  Inv'
<1> USE DEF Inv
<1>1. n \in Node /\ \A h \in Kids(n) : h \in Handle /\ Valid(h)
  BY NodeOverValid
<1>2. n \notin Rows(PersRows)
  <2>1. CASE SkipsPers(n)
    <3>1. PICK g \in Kids(n) : g[1] = S
      BY <2>1 DEF SkipsPers, HasScratchKid
    <3> QED
      BY <3>1 DEF PersClosed, Rows, P, S
  <2> QED
    BY <2>1 DEF Intern, Misses
<1>3. CASE on
  <2>1. /\ scr' = Append(scr, n)
        /\ UNCHANGED <<own, tier, on, env, index, pend, since, vg, pmemo, caches, memos, phase>>
    BY <1>3 DEF Intern, kept, step, volatile
  <2>2. PersRows' = PersRows
    BY <2>1 DEF PersRows
  <2>3. phase \in {"install", "record"}
    BY <1>3 DEF Intern, Bracketed
  <2>4. /\ Len(scr') = Len(scr) + 1
        /\ \A i \in 1 .. Len(scr) : scr'[i] = scr[i]
        /\ scr'[Len(scr) + 1] = n
    BY <2>1, <1>1 DEF TypeOK
  <2>5. TypeOK'
    BY <2>1, <1>1 DEF TypeOK
  <2>6. Bracketed'
    BY <2>1, <2>3 DEF Bracketed
  <2>7. PersClosed'
    BY <2>2 DEF PersClosed
  <2>8. ScrClosed'
    <3> SUFFICES ASSUME NEW i \in 1 .. Len(scr'), NEW h \in Kids(scr'[i])
                 PROVE  \/ h[1] = P /\ h[2] <= Len(PersRows)
                        \/ h[1] = S /\ h[2] < i
      BY <2>2 DEF ScrClosed, Kids
    <3>1. CASE i \in 1 .. Len(scr)
      BY <3>1, <2>4 DEF ScrClosed
    <3>2. CASE i = Len(scr) + 1
      <4>1. h \in Handle /\ Valid(h)
        BY <3>2, <2>4, <1>1
      <4> QED
        BY <4>1, <3>2 DEF Valid
    <3> QED
      BY <3>1, <3>2, <2>4 DEF TypeOK
  <2>9. \A h : Valid(h) => Valid(h)'
    BY <2>1, <2>2, <2>4 DEF Valid, TypeOK
  <2>10. StepHeld' /\ NoneDangles'
    BY <2>1, <2>2, <2>9 DEF StepHeld, NoneDangles, Readable
  <2>11. HashConsed'
    <3>1. n \notin Rows(scr)
      BY <1>3 DEF Intern, Misses
    <3> QED
      BY <3>1, <2>1, <2>2, <2>4, <1>2 DEF HashConsed, Rows, TypeOK
  <2>12. phase' # "promote"
    BY <2>1, <2>3
  <2>13. Copied'
    BY <2>6, <2>12 DEF Bracketed, Copied, EmptyMemo
  <2> QED
    BY <2>5, <2>6, <2>7, <2>8, <2>10, <2>11, <2>13
<1>4. CASE ~ on
  <2>1. /\ own' = Append(own, n)
        /\ UNCHANGED <<scr, tier, on, env, index, pend, since, vg, pmemo, caches, memos, phase>>
    BY <1>4 DEF Intern, kept, step, volatile
  <2>2. phase = "open" /\ ~ tier.frozen /\ scr = <<>>
    BY <1>4 DEF Intern, Bracketed
  <2>3. PersRows = own /\ PersRows' = own'
    BY <2>1, <2>2 DEF PersRows
  <2>4. /\ Len(own') = Len(own) + 1
        /\ \A i \in 1 .. Len(own) : own'[i] = own[i]
        /\ own'[Len(own) + 1] = n
    BY <2>1, <1>1 DEF TypeOK
  <2>5. TypeOK'
    BY <2>1, <1>1 DEF TypeOK
  <2>6. Bracketed'
    BY <2>1, <2>2 DEF Bracketed
  <2>7. PersClosed'
    <3> SUFFICES ASSUME NEW i \in 1 .. Len(own'), NEW h \in Kids(own'[i])
                 PROVE  h[1] = P /\ h[2] < i
      BY <2>3 DEF PersClosed, Kids
    <3>1. CASE i \in 1 .. Len(own)
      BY <3>1, <2>3, <2>4 DEF PersClosed
    <3>2. CASE i = Len(own) + 1
      <4>1. h \in Handle /\ Valid(h)
        BY <3>2, <2>4, <1>1
      <4> QED
        BY <4>1, <3>2, <2>2, <2>3, <1>4, HandleShape DEF Valid
    <3> QED
      BY <3>1, <3>2, <2>4 DEF TypeOK
  <2>8. ScrClosed'
    BY <2>1, <2>2 DEF ScrClosed
  <2>9. \A h : Valid(h) => Valid(h)'
    BY <2>1, <2>3, <2>4 DEF Valid, TypeOK
  <2>10. StepHeld' /\ NoneDangles'
    BY <2>1, <2>2, <2>3, <2>9 DEF StepHeld, NoneDangles, Readable, Bracketed, EmptyMemo
  <2>11. HashConsed'
    <3>1. \A i \in 1 .. Len(own) : own[i] # n
      BY <1>2, <2>3 DEF Rows
    <3>2. \A i, j \in 1 .. Len(own) : own[i] = own[j] => i = j
      BY <2>3 DEF HashConsed
    <3>3. Len(own) \in Nat
      BY DEF TypeOK
    <3>4. \A i, j \in 1 .. Len(own') : own'[i] = own'[j] => i = j
      BY <3>1, <3>2, <3>3, <2>4
    <3> QED
      BY <3>4, <2>1, <2>2, <2>3 DEF HashConsed
  <2>12. phase' # "promote"
    BY <2>1, <2>2
  <2>13. Copied'
    BY <2>6, <2>12 DEF Bracketed, Copied, EmptyMemo
  <2> QED
    BY <2>5, <2>6, <2>7, <2>8, <2>10, <2>11, <2>13
<1> QED
  BY <1>3, <1>4

(* A step of a bracket that touches no row: a cache or memo entry, a       *)
(* constant installed, the step's body returning.                          *)
LEMMA TablesKept ==
  ASSUME Inv, UNCHANGED tables
  PROVE  /\ PersRows' = PersRows
         /\ PersClosed' /\ ScrClosed'
         /\ \A h : Valid(h)' <=> Valid(h)
<1>1. UNCHANGED <<own, tier, scr, on>>
  BY DEF tables
<1>2. PersRows' = PersRows
  BY <1>1 DEF PersRows
<1> QED
  BY <1>1, <1>2 DEF Inv, PersClosed, ScrClosed, Valid

LEMMA ValidIsHandle ==
  ASSUME TypeOK, NEW h \in ValidHandles
  PROVE  h \in Handle /\ Valid(h)
<1>1. h \in Handle
  BY DEF TypeOK, ValidHandles, Handle, PersHandle, ScrHandle, PersRows, Node
<1>2. Valid(h)
  BY DEF ValidHandles, Valid, P, S
<1> QED
  BY <1>1, <1>2

LEMMA FillStep ==
  ASSUME Inv, NEW h \in ValidHandles, FillCache(h) \/ FillMemo(h)
  PROVE  Inv'
<1> USE DEF Inv
<1>1. h \in Handle /\ Valid(h)
  BY ValidIsHandle
<1>2. /\ UNCHANGED <<own, tier, scr, on, env, index, pend, since, vg, pmemo, phase>>
      /\ phase \in {"install", "record"}
      /\ caches' \subseteq caches \cup {h} /\ memos' \subseteq memos \cup {h}
  BY DEF FillCache, FillMemo, tables, kept, step
<1>3. /\ PersRows' = PersRows
      /\ PersClosed' /\ ScrClosed'
      /\ \A g : Valid(g)' <=> Valid(g)
  BY <1>2, TablesKept DEF tables
<1>4. TypeOK'
  BY <1>1, <1>2 DEF TypeOK
<1>5. Bracketed'
  BY <1>2 DEF Bracketed
<1>6. StepHeld' /\ HashConsed'
  BY <1>2, <1>3 DEF StepHeld, HashConsed
<1>7. NoneDangles'
  BY <1>1, <1>2, <1>3 DEF NoneDangles, Readable
<1>8. phase' # "promote"
  BY <1>2
<1>9. Copied'
  BY <1>5, <1>8 DEF Bracketed, Copied, EmptyMemo
<1> QED
  BY <1>3, <1>4, <1>5, <1>6, <1>7, <1>9

LEMMA InstallStep ==
  ASSUME Inv, NEW h \in ValidHandles, Install(h)
  PROVE  Inv'
<1> USE DEF Inv
<1>1. h \in Handle /\ Valid(h)
  BY ValidIsHandle
<1>2. /\ UNCHANGED <<own, tier, scr, on, pend, since, vg, pmemo, caches, memos, phase>>
      /\ phase = "install"
      /\ env' = Append(env, h)
      /\ index' = [g \in DOMAIN index \cup {h} |-> IF g = h THEN Len(env) + 1 ELSE index[g]]
  BY DEF Install, tables, step, volatile
<1>3. /\ PersRows' = PersRows
      /\ PersClosed' /\ ScrClosed'
      /\ \A g : Valid(g)' <=> Valid(g)
  BY <1>2, TablesKept DEF tables
<1>4. /\ Len(env') = Len(env) + 1
      /\ \A i \in 1 .. Len(env) : env'[i] = env[i]
      /\ env'[Len(env) + 1] = h
  BY <1>1, <1>2 DEF TypeOK
<1>5. TypeOK'
  <2>1. DOMAIN index' \subseteq Handle /\ \A g \in DOMAIN index' : index'[g] \in Nat
    BY <1>1, <1>2 DEF TypeOK
  <2> QED
    BY <1>1, <1>2, <2>1 DEF TypeOK
<1>6. Bracketed' /\ HashConsed'
  BY <1>2, <1>3 DEF Bracketed, HashConsed
<1>7. StepHeld'
  BY <1>2, <1>3, <1>4 DEF StepHeld, TypeOK
<1>8. NoneDangles'
  BY <1>1, <1>2, <1>3, <1>4 DEF NoneDangles, Readable, TypeOK
<1>9. phase' # "promote"
  BY <1>2
<1>10. Copied'
  BY <1>6, <1>9 DEF Bracketed, Copied, EmptyMemo
<1> QED
  BY <1>3, <1>5, <1>6, <1>7, <1>8, <1>10

LEMMA StepReturnsStep ==
  ASSUME Inv, NEW v \in ValidHandles \cup {NoHandle}, StepReturns(v)
  PROVE  Inv'
<1> USE DEF Inv
<1>1. v # NoHandle => v \in Handle /\ Valid(v)
  BY ValidIsHandle
<1>2. /\ UNCHANGED <<own, tier, scr, on, env, index, pend, since, caches, memos>>
      /\ phase = "install" /\ phase' = "promote"
      /\ vg' = v /\ pmemo' = EmptyMemo
  BY DEF StepReturns, tables, kept, volatile
<1>3. /\ PersRows' = PersRows
      /\ PersClosed' /\ ScrClosed'
      /\ \A g : Valid(g)' <=> Valid(g)
  BY <1>2, TablesKept DEF tables
<1>4. DOMAIN pmemo' = {}
  BY <1>2 DEF EmptyMemo
<1>5. TypeOK'
  BY <1>1, <1>2, <1>4 DEF TypeOK, Phases
<1>6. Bracketed' /\ HashConsed'
  BY <1>2, <1>3 DEF Bracketed, HashConsed
<1>7. StepHeld'
  BY <1>1, <1>2, <1>3, <1>4 DEF StepHeld
<1>8. NoneDangles'
  BY <1>2, <1>3 DEF NoneDangles, Readable
<1>9. Copied'
  BY <1>4 DEF Copied
<1> QED
  BY <1>3, <1>5, <1>6, <1>7, <1>8, <1>9

(* A step that leaves no scratch row and moves the persistent ones at      *)
(* most: a bracket opened or closed, the store frozen or thawed.           *)
LEMMA ScratchGone ==
  ASSUME Inv, scr' = <<>>, PersRows' = PersRows
  PROVE  /\ PersClosed' /\ ScrClosed' /\ HashConsed'
         /\ \A h : h[1] = P /\ Valid(h) => Valid(h)'
<1>1. PersClosed' /\ \A h : h[1] = P /\ Valid(h) => Valid(h)'
  BY DEF Inv, PersClosed, Valid, P, S
<1>2. ScrClosed' /\ HashConsed'
  BY DEF Inv, ScrClosed, HashConsed
<1> QED
  BY <1>1, <1>2

LEMMA OpenStep ==
  ASSUME Inv, OpenBracket \/ FreezeTier
  PROVE  Inv'
<1> USE DEF Inv
<1>1. /\ phase = "open" /\ phase' \in {"install", "checks"}
      /\ caches' = {} /\ memos' = {} /\ own' = <<>> /\ scr' = <<>> /\ on' = TRUE
      /\ tier' = [frozen |-> TRUE, rows |-> own]
      /\ UNCHANGED <<env, index, pend, vg, pmemo>>
      /\ \/ phase' = "install" /\ since' = Len(env)
         \/ since' = since
  BY DEF OpenBracket, FreezeTier, kept, step
<1>2. PersRows' = PersRows
  BY <1>1 DEF PersRows, Bracketed
<1>3. /\ PersClosed' /\ ScrClosed' /\ HashConsed'
      /\ \A h : h[1] = P /\ Valid(h) => Valid(h)'
  BY <1>1, <1>2, ScratchGone
<1>4. since' \in Nat
  BY <1>1 DEF TypeOK
<1>5. tier' \in [frozen : BOOLEAN, rows : Seq(Node)]
  BY <1>1 DEF TypeOK
<1>6. TypeOK'
  BY <1>1, <1>4, <1>5 DEF TypeOK, Phases
<1>7. Bracketed'
  BY <1>1 DEF Bracketed
<1>8. vg = NoHandle /\ DOMAIN pmemo = {}
  BY <1>1 DEF Bracketed, EmptyMemo
<1>9. StepHeld'
  BY <1>1, <1>2, <1>8 DEF StepHeld, NoneDangles, TypeOK
<1>10. NoneDangles'
  BY <1>1, <1>3 DEF NoneDangles, Readable
<1>11. phase' # "promote"
  BY <1>1
<1>12. Copied'
  BY <1>7, <1>11 DEF Bracketed, Copied, EmptyMemo
<1> QED
  BY <1>3, <1>6, <1>7, <1>9, <1>10, <1>12

(* What drop_scratch keeps, whatever else the step does.                   *)
LEMMA DropKeeps ==
  ASSUME Inv, phase \in {"install", "promote"}, DropScratch
  PROVE  /\ PersRows' = PersRows
         /\ PersClosed' /\ ScrClosed' /\ HashConsed'
         /\ \A h : h[1] = P /\ Valid(h) => Valid(h)'
         /\ ~ tier'.frozen /\ ~ on' /\ scr' = <<>> /\ caches' = {}
         /\ own' \in Seq(Node) /\ tier' \in [frozen : BOOLEAN, rows : Seq(Node)]
<1> USE DEF Inv
<1>1. /\ caches' = {} /\ own' = tier.rows /\ scr' = <<>> /\ on' = FALSE
      /\ tier' = [frozen |-> FALSE, rows |-> <<>>]
  BY DEF DropScratch, NoTier
<1>2. tier.frozen
  BY DEF Bracketed
<1>3. PersRows' = PersRows
  BY <1>1, <1>2 DEF PersRows
<1>4. own' \in Seq(Node) /\ tier' \in [frozen : BOOLEAN, rows : Seq(Node)]
  BY <1>1 DEF TypeOK
<1> QED
  BY <1>1, <1>3, <1>4, ScratchGone

(* A promoted handle is persistent and live.                               *)
LEMMA PromotedHandle ==
  ASSUME Inv, NEW h \in Handle, Valid(h), Done(h)
  PROVE  Promoted(h) \in PersHandle /\ Promoted(h)[1] = P /\ Valid(Promoted(h))
<1> USE DEF Inv
<1>1. CASE h[1] = P
  BY <1>1, HandleShape DEF Promoted, Handle, PersHandle, ScrHandle, P, S
<1>2. CASE h[1] # P
  <2>1. h \in DOMAIN pmemo /\ Promoted(h) = pmemo[h]
    BY <1>2 DEF Done, Promoted
  <2>2. pmemo[h] \in PersHandle /\ pmemo[h][2] <= Len(PersRows)
    BY <2>1 DEF TypeOK, StepHeld
  <2> QED
    BY <2>1, <2>2 DEF PersHandle, Valid
<1> QED
  BY <1>1, <1>2

(* The copy of a node whose children are promoted names live persistent    *)
(* rows only.                                                              *)
LEMMA PromotedNodeKids ==
  ASSUME Inv, NEW n \in Node, \A h \in Kids(n) : Valid(h) /\ Done(h)
  PROVE  /\ PromotedNode(n) \in Node
         /\ \A h \in Kids(PromotedNode(n)) : h[1] = P /\ h[2] \in 1 .. Len(PersRows)
<1> DEFINE m == PromotedNode(n)
<1>1. n.sym \in Sym /\ n.kids \in Seq(Handle) /\ n = [sym |-> n.sym, kids |-> n.kids]
  BY DEF Node
<1>2. m = [sym |-> n.sym, kids |-> [i \in DOMAIN n.kids |-> Promoted(n.kids[i])]]
  BY <1>1 DEF PromotedNode
<1>3. \A i \in DOMAIN n.kids : n.kids[i] \in Handle /\ Valid(n.kids[i]) /\ Done(n.kids[i])
  BY <1>1 DEF Kids
<1>4. \A i \in DOMAIN n.kids : /\ Promoted(n.kids[i]) \in PersHandle
                               /\ Promoted(n.kids[i])[1] = P
                               /\ Valid(Promoted(n.kids[i]))
  BY <1>3, PromotedHandle
<1>5. m.kids \in [1 .. Len(n.kids) -> Handle] /\ Len(n.kids) \in Nat
  BY <1>1, <1>2, <1>4 DEF Handle
<1>6. m.kids \in Seq(Handle) /\ Len(m.kids) = Len(n.kids)
  BY <1>5
<1>7. m \in Node
  BY <1>1, <1>2, <1>6 DEF Node
<1>8. \A h \in Kids(m) : \E i \in DOMAIN n.kids : h = Promoted(n.kids[i])
  BY <1>1, <1>2, <1>6 DEF Kids
<1>9. \A h \in Kids(m) : h[1] = P /\ h[2] \in 1 .. Len(PersRows)
  BY <1>4, <1>8 DEF Valid, P, S
<1> HIDE DEF m
<1> QED
  BY <1>7, <1>9 DEF m

(* Promoting a node appends at most one persistent row, whose children are *)
(* before it, and remembers a live persistent handle for it.               *)
LEMMA PromoteStep ==
  ASSUME Inv, NEW i \in 1 .. Len(scr), PromoteNode(i)
  PROVE  Inv'
<1> USE DEF Inv
<1> DEFINE n == scr[i]
           m == PromotedNode(n)
<1>1. /\ phase = "promote" /\ tier.frozen /\ on
      /\ UNCHANGED <<own, scr, on, env, index, pend, since, vg, caches, memos, phase>>
      /\ \A h \in Kids(n) : Done(h)
  BY DEF PromoteNode, Bracketed, kept, volatile
<1>2. n \in Node
  BY DEF TypeOK
<1>3. \A h \in Kids(n) : h \in Handle
  BY <1>2 DEF Kids, Node
<1>4. \A h \in Kids(n) : Valid(h)
  BY <1>1, <1>3, HandleShape DEF ScrClosed, Valid, TypeOK, Handle, PersHandle, ScrHandle
<1>5. /\ m \in Node
      /\ \A h \in Kids(m) : h[1] = P /\ h[2] \in 1 .. Len(PersRows)
  BY <1>1, <1>2, <1>4, PromotedNodeKids
<1>6. PersRows = tier.rows /\ Len(tier.rows) \in Nat /\ tier.rows \in Seq(Node)
  BY <1>1 DEF PersRows, TypeOK
<1>7. \E k : /\ \/ k \in 1 .. Len(tier.rows) /\ tier.rows[k] = m /\ UNCHANGED tier
                \/ /\ k = Len(tier.rows) + 1
                   /\ m \notin Rows(tier.rows)
                   /\ tier' = [tier EXCEPT !.rows = Append(@, m)]
             /\ Memoise(<<S, i>>, <<P, k>>)
  BY DEF PromoteNode
<1>8. PICK k : /\ \/ k \in 1 .. Len(tier.rows) /\ tier.rows[k] = m /\ UNCHANGED tier
                  \/ /\ k = Len(tier.rows) + 1
                     /\ m \notin Rows(tier.rows)
                     /\ tier' = [tier EXCEPT !.rows = Append(@, m)]
               /\ Memoise(<<S, i>>, <<P, k>>)
  BY <1>7
<1> HIDE DEF m, n
<1>9. /\ tier' \in [frozen : BOOLEAN, rows : Seq(Node)] /\ tier'.frozen
      /\ PersRows' = tier'.rows
      /\ Len(PersRows) <= Len(PersRows') /\ Len(PersRows') \in Nat
      /\ \A j \in 1 .. Len(PersRows) : PersRows'[j] = PersRows[j]
      /\ k \in Nat \ {0} /\ k <= Len(PersRows') /\ PersRows'[k] = m
  <2>1. CASE k \in 1 .. Len(tier.rows) /\ tier.rows[k] = m /\ UNCHANGED tier
    BY <2>1, <1>1, <1>6 DEF TypeOK, PersRows
  <2>2. CASE k = Len(tier.rows) + 1 /\ tier' = [tier EXCEPT !.rows = Append(@, m)]
    <3>1. /\ tier'.frozen /\ tier'.rows = Append(tier.rows, m)
          /\ tier' \in [frozen : BOOLEAN, rows : Seq(Node)]
      <4>1. Append(tier.rows, m) \in Seq(Node)
        BY <1>5, <1>6
      <4>2. tier \in [frozen : BOOLEAN, rows : Seq(Node)]
        BY DEF TypeOK
      <4> QED
        BY <4>1, <4>2, <2>2, <1>1
    <3>2. PersRows' = Append(PersRows, m)
      BY <3>1, <1>6 DEF PersRows
    <3>3. PersRows \in Seq(Node) /\ Len(PersRows) \in Nat
      BY <1>6
    <3>4. /\ Len(PersRows') = Len(PersRows) + 1
          /\ \A j \in 1 .. Len(PersRows) : PersRows'[j] = PersRows[j]
          /\ PersRows'[Len(PersRows) + 1] = m
      BY <3>2, <3>3, <1>5
    <3> QED
      BY <2>2, <3>1, <3>2, <3>3, <3>4, <1>6
  <2> QED
    BY <2>1, <2>2, <1>8
<1>10. /\ DOMAIN pmemo' = DOMAIN pmemo \cup {<<S, i>>}
       /\ \A g \in DOMAIN pmemo' : pmemo'[g] = IF g = <<S, i>> THEN <<P, k>> ELSE pmemo[g]
  BY <1>8 DEF Memoise
<1>11. \A h : Valid(h) => Valid(h)'
  BY <1>1, <1>6, <1>9 DEF Valid
<1>12. TypeOK'
  <2>1. <<S, i>> \in ScrHandle /\ <<P, k>> \in PersHandle
    BY <1>9 DEF ScrHandle, PersHandle, TypeOK
  <2>2. /\ DOMAIN pmemo' \subseteq ScrHandle
        /\ \A g \in DOMAIN pmemo' : pmemo'[g] \in PersHandle
    BY <2>1, <1>10 DEF TypeOK
  <2> QED
    BY <2>2, <1>1, <1>9 DEF TypeOK
<1>13. Bracketed'
  BY <1>1, <1>9 DEF Bracketed
<1>14. PersClosed'
  <2> SUFFICES ASSUME NEW j \in 1 .. Len(PersRows'), NEW h \in Kids(PersRows'[j])
               PROVE  h[1] = P /\ h[2] < j
    BY DEF PersClosed, Kids
  <2>1. CASE j \in 1 .. Len(PersRows)
    BY <2>1, <1>9 DEF PersClosed
  <2>2. CASE j \notin 1 .. Len(PersRows)
    <3>1. j = Len(PersRows) + 1 /\ PersRows'[j] = m
      BY <2>2, <1>5, <1>6, <1>8, <1>9
    <3> QED
      BY <3>1, <1>5, <1>6
  <2> QED
    BY <2>1, <2>2
<1>15. ScrClosed'
  <2>1. \A j \in 1 .. Len(scr) : \A h \in Kids(scr[j]) : h[2] \in Nat
    <3> SUFFICES ASSUME NEW j \in 1 .. Len(scr), NEW h \in Kids(scr[j]) PROVE h \in Handle
      BY HandleShape
    <3>1. scr[j] \in Node
      BY DEF TypeOK
    <3> QED
      BY <3>1 DEF Node, Kids
  <2> QED
    BY <2>1, <1>1, <1>6, <1>9 DEF ScrClosed
<1>16. StepHeld'
  <2>1. \A g \in DOMAIN pmemo' : pmemo'[g][2] <= Len(PersRows')
    <3>1. \A g \in DOMAIN pmemo : pmemo[g][2] \in Nat /\ pmemo[g][2] <= Len(PersRows)
      BY DEF TypeOK, StepHeld, PersHandle
    <3> QED
      BY <3>1, <1>6, <1>9, <1>10
  <2> QED
    BY <2>1, <1>1, <1>11 DEF StepHeld
<1>17. NoneDangles'
  BY <1>1, <1>11 DEF NoneDangles, Readable
<1>18. HashConsed'
  <2>1. CASE UNCHANGED tier
    BY <2>1, <1>1, <1>6, <1>9 DEF HashConsed
  <2>2. CASE m \notin Rows(tier.rows) /\ tier' = [tier EXCEPT !.rows = Append(@, m)]
    <3>1. \A j \in 1 .. Len(PersRows) : PersRows[j] # m
      BY <2>2, <1>6 DEF Rows
    <3>2. PersRows'[Len(PersRows) + 1] = m /\ Len(PersRows') = Len(PersRows) + 1
      BY <2>2, <1>5, <1>6, <1>9 DEF TypeOK
    <3>3. \A j, l \in 1 .. Len(PersRows) : PersRows[j] = PersRows[l] => j = l
      BY DEF HashConsed
    <3>4. ASSUME NEW j \in 1 .. Len(PersRows'), NEW l \in 1 .. Len(PersRows'),
                 PersRows'[j] = PersRows'[l]
          PROVE  j = l
      <4>1. Len(PersRows) \in Nat
        BY <1>6
      <4>2. /\ j \in 1 .. Len(PersRows) \/ j = Len(PersRows) + 1
            /\ l \in 1 .. Len(PersRows) \/ l = Len(PersRows) + 1
        BY <4>1, <3>2
      <4> QED
        BY SMTT(30), <4>2, <3>1, <3>2, <3>3, <3>4, <1>9
    <3> QED
      BY <3>4, <1>1 DEF HashConsed
  <2> QED
    BY <2>1, <2>2, <1>8
<1>19. Copied'
  <2>1. <<S, i>> \notin DOMAIN pmemo
    BY HandleShape DEF PromoteNode, Done
  <2>2. \A g : Done(g) => Done(g)' /\ Promoted(g)' = Promoted(g)
    BY <2>1, <1>10 DEF Done, Promoted
  <2>3. ASSUME NEW q \in Node, \A h \in Kids(q) : Done(h)
        PROVE  PromotedNode(q)' = PromotedNode(q) /\ \A h \in Kids(q) : Done(h)'
    <3>1. \A j \in DOMAIN q.kids : Promoted(q.kids[j])' = Promoted(q.kids[j])
      <4>1. q.kids \in Seq(Handle)
        BY DEF Node
      <4> QED
        BY <4>1, <2>2, <2>3 DEF Kids
    <3> QED
      BY <3>1, <2>2, <2>3 DEF PromotedNode
  <2>4. ASSUME NEW g \in DOMAIN pmemo
        PROVE  /\ Valid(g)' /\ View(g)' = View(g) /\ View(g) \in Node
               /\ \A h \in Kids(View(g)) : Done(h)
               /\ View(pmemo[g])' = PromotedNode(View(g))
    <3>1. g \in ScrHandle /\ pmemo[g] \in PersHandle /\ pmemo'[g] = pmemo[g]
      BY <2>1, <1>10 DEF TypeOK
    <3>2. /\ Valid(g) /\ \A h \in Kids(View(g)) : Done(h)
          /\ View(pmemo[g]) = PromotedNode(View(g))
      BY DEF Copied
    <3>3. View(g)' = View(g) /\ View(g) \in Node
      BY <3>1, <3>2, <1>1, HandleShape DEF View, Valid, TypeOK
    <3>4. pmemo[g][1] = P /\ pmemo[g][2] \in 1 .. Len(PersRows)
      BY <3>1, <1>6 DEF StepHeld, PersHandle
    <3>5. PersRows'[pmemo'[g][2]] = PromotedNode(View(g)) /\ pmemo'[g][1] = P
      BY <3>1, <3>2, <3>4, <1>9 DEF View
    <3> QED
      BY <3>2, <3>3, <3>5, <1>11 DEF View
  <2>5. PICK q \in Node : q = n
    BY <1>2
  <2>6. /\ Valid(<<S, i>>)' /\ View(<<S, i>>)' = q
        /\ View(pmemo[<<S, i>>])' = PromotedNode(q)
        /\ \A h \in Kids(q) : Done(h)
    <3>1. q = scr[i]
      BY <2>5 DEF n
    <3>2. pmemo'[<<S, i>>] = <<P, k>> /\ PersRows'[k] = PromotedNode(q)
      BY <2>5, <1>9, <1>10 DEF m
    <3>3. \A h \in Kids(q) : Done(h)
      BY <2>5, <1>1
    <3> QED
      BY <3>1, <3>2, <3>3, <1>1, HandleShape DEF View, Valid
  <2>7. ASSUME NEW g \in DOMAIN pmemo'
        PROVE  (/\ Valid(g)
                /\ \A h \in Kids(View(g)) : Done(h)
                /\ View(pmemo[g]) = PromotedNode(View(g)))'
    <3>1. CASE g = <<S, i>>
      BY <3>1, <2>3, <2>6
    <3>2. CASE g # <<S, i>>
      <4>1. g \in DOMAIN pmemo
        BY <3>2, <1>10
      <4> QED
        BY <4>1, <2>3, <2>4
    <3> QED
      BY <3>1, <3>2
  <2> QED
    BY <2>7 DEF Copied
<1> QED
  BY <1>12, <1>13, <1>14, <1>15, <1>16, <1>17, <1>18, <1>19

(* The slot a promoted name is indexed at is one that is promoted to it.   *)
LEMMA SlotIs ==
  ASSUME Len(env) \in Nat, since \in Nat, NEW h \in Moved
  PROVE  SlotOf(h) \in New /\ Promoted(env[SlotOf(h)]) = h
<1> DEFINE At == {i \in New : Promoted(env[i]) = h}
<1>1. New \subseteq Nat
  BY DEF New
<1>2. PICK x \in New : Promoted(env[x]) = h
  BY DEF Moved
<1>3. PICK i \in At : \A j \in At : i <= j
  <2>1. x \in At /\ At \subseteq Nat
    BY <1>1, <1>2
  <2> HIDE DEF At
  <2> QED
    BY <2>1, LeastOf
<1>4. i \in New /\ Promoted(env[i]) = h /\ \A j \in New : Promoted(env[j]) = h => i <= j
  BY <1>3
<1> QED
  BY <1>4 DEF SlotOf

LEMMA CloseStep ==
  ASSUME Inv, CloseBracket
  PROVE  Inv'
<1> USE DEF Inv
<1>1. /\ phase = "promote" /\ phase' = "open"
      /\ vg # NoHandle => Done(vg)
      /\ \A i \in since + 1 .. Len(env) : Done(env[i])
      /\ index' = Reindexed
      /\ env' = [i \in 1 .. Len(env) |-> IF i > since THEN Promoted(env[i]) ELSE env[i]]
      /\ pend' = IF vg = NoHandle THEN pend ELSE Append(pend, Promoted(vg))
      /\ DropScratch
      /\ since' = 0 /\ vg' = NoHandle /\ pmemo' = EmptyMemo
  BY DEF CloseBracket, NoStep, New
<1>2. /\ PersRows' = PersRows
      /\ PersClosed' /\ ScrClosed' /\ HashConsed'
      /\ \A h : h[1] = P /\ Valid(h) => Valid(h)'
      /\ ~ tier'.frozen /\ ~ on' /\ scr' = <<>> /\ caches' = {}
      /\ own' \in Seq(Node) /\ tier' \in [frozen : BOOLEAN, rows : Seq(Node)]
  BY <1>1, DropKeeps
<1>3. Len(env) \in Nat /\ since \in Nat
  BY DEF TypeOK
<1>4. \A i \in 1 .. Len(env) :
        env'[i] \in Handle /\ env'[i][1] = P /\ Valid(env'[i])
  <2> SUFFICES ASSUME NEW i \in 1 .. Len(env)
               PROVE  env'[i] \in Handle /\ env'[i][1] = P /\ Valid(env'[i])
    OBVIOUS
  <2>1. env[i] \in Handle /\ Valid(env[i])
    BY DEF TypeOK, NoneDangles
  <2>2. CASE i > since
    <3>1. env'[i] = Promoted(env[i]) /\ Done(env[i])
      BY <2>2, <1>1, <1>3
    <3> QED
      BY <3>1, <2>1, PromotedHandle DEF Handle
  <2>3. CASE ~ i > since
    <3>1. env'[i] = env[i] /\ i \in 1 .. since
      BY <2>3, <1>1, <1>3
    <3> QED
      BY <3>1, <2>1 DEF StepHeld
  <2> QED
    BY <2>2, <2>3
<1>5. env' \in Seq(Handle) /\ Len(env') = Len(env)
  <2>1. env' \in [1 .. Len(env) -> Handle]
    BY <1>1, <1>4
  <2> QED
    BY <2>1, <1>3
<1>6. /\ pend' \in Seq(Handle)
      /\ \A i \in 1 .. Len(pend') : Valid(pend'[i]) /\ pend'[i][1] = P
  <2>1. CASE vg = NoHandle
    BY <2>1, <1>1 DEF TypeOK, NoneDangles
  <2>2. CASE vg # NoHandle
    <3>1. vg \in Handle /\ Valid(vg) /\ Done(vg)
      BY <2>2, <1>1 DEF TypeOK, StepHeld
    <3>2. Promoted(vg) \in Handle /\ Promoted(vg)[1] = P /\ Valid(Promoted(vg))
      BY <3>1, PromotedHandle DEF Handle
    <3>3. pend' = Append(pend, Promoted(vg)) /\ pend \in Seq(Handle)
      BY <2>2, <1>1 DEF TypeOK
    <3> QED
      BY <3>2, <3>3 DEF NoneDangles
  <2> QED
    BY <2>1, <2>2
<1>7. DOMAIN pmemo' = {}
  BY <1>1 DEF EmptyMemo
<1>8. on' \in BOOLEAN /\ memos' = memos
  BY <1>1 DEF DropScratch
<1>9. TypeOK'
  <2>1. /\ own' \in Seq(Node) /\ scr' \in Seq(Node)
        /\ tier' \in [frozen : BOOLEAN, rows : Seq(Node)]
    BY <1>2
  <2>2. env' \in Seq(Handle) /\ pend' \in Seq(Handle) /\ since' \in Nat
    BY <1>1, <1>5, <1>6
  <2>3. vg' \in Handle \cup {NoHandle} /\ caches' \in SUBSET Handle /\ memos' \in SUBSET Handle
    BY <1>1, <1>2, <1>8 DEF TypeOK
  <2>4. Moved \subseteq Handle
    <3>1. \A i \in New : Promoted(env[i]) \in Handle
      BY <1>1, <1>3, <1>4 DEF New
    <3> QED
      BY <3>1 DEF Moved
  <2>5. \A h \in Moved : SlotOf(h) \in Nat
    BY <1>3, SlotIs DEF New
  <2>6. DOMAIN index' \subseteq Handle /\ \A h \in DOMAIN index' : index'[h] \in Nat
    BY <1>1, <2>4, <2>5 DEF Reindexed, TypeOK
  <2> QED
    BY <2>1, <2>2, <2>3, <2>6, <1>1, <1>7, <1>8 DEF TypeOK, Phases
<1>10. Bracketed'
  BY <1>1, <1>2 DEF Bracketed
<1>11. StepHeld'
  BY <1>1, <1>3, <1>5, <1>7 DEF StepHeld
<1>12. NoneDangles'
  BY <1>1, <1>2, <1>4, <1>5, <1>6 DEF NoneDangles, Readable
<1>13. Copied'
  BY <1>7 DEF Copied
<1> QED
  BY <1>2, <1>9, <1>10, <1>11, <1>12, <1>13

LEMMA FailStep ==
  ASSUME Inv, StepFails \/ OpenFails
  PROVE  Inv'
<1> USE DEF Inv
<1>1. env' = <<>> /\ index' = NoRows /\ pend' = <<>> /\ phase' = "failed" /\ memos' = memos
  BY DEF StepFails, OpenFails, DropScratch, volatile
<1>2. since' = 0 /\ vg' = NoHandle /\ pmemo' = EmptyMemo
  BY DEF StepFails, OpenFails, NoStep, step, Bracketed
<1>3. /\ PersClosed' /\ ScrClosed' /\ HashConsed'
      /\ ~ tier'.frozen /\ ~ on' /\ scr' = <<>> /\ caches' = {}
      /\ own' \in Seq(Node) /\ tier' \in [frozen : BOOLEAN, rows : Seq(Node)]
  <2>1. CASE StepFails
    BY <2>1, DropKeeps DEF StepFails
  <2>2. CASE OpenFails
    <3>1. UNCHANGED <<own, tier, scr, on, caches>> /\ phase = "open"
      BY <2>2 DEF OpenFails, tables, volatile
    <3>2. PersRows' = PersRows /\ scr' = <<>>
      BY <3>1 DEF PersRows, Bracketed
    <3> QED
      BY <3>1, <3>2, ScratchGone DEF TypeOK, Bracketed
  <2> QED
    BY <2>1, <2>2
<1>4. on' \in BOOLEAN
  BY DEF StepFails, OpenFails, DropScratch, TypeOK, tables
<1>5. DOMAIN pmemo' = {}
  BY <1>2 DEF EmptyMemo
<1>6. TypeOK'
  <2>1. DOMAIN index' = {}
    BY <1>1 DEF NoRows
  <2> QED
    BY <1>1, <1>2, <1>3, <1>4, <1>5, <2>1 DEF TypeOK, Phases
<1>7. Bracketed'
  BY <1>1, <1>2, <1>3 DEF Bracketed
<1>8. StepHeld' /\ NoneDangles'
  BY <1>1, <1>2, <1>3, <1>5 DEF StepHeld, NoneDangles, Readable
<1>9. Copied'
  BY <1>5 DEF Copied
<1> QED
  BY <1>3, <1>6, <1>7, <1>8, <1>9

LEMMA RecordStep ==
  ASSUME Inv, EnterRecord \/ LeaveRecord
  PROVE  Inv'
<1> USE DEF Inv
<1>1. /\ UNCHANGED <<own, tier, on, env, index, pend, since, vg, pmemo>>
      /\ scr' = <<>>
      /\ caches' \subseteq caches /\ memos' \subseteq memos
      /\ \/ phase = "checks" /\ phase' = "record" /\ memos' = {}
         \/ phase = "record" /\ phase' = "checks" /\ caches' = {}
  BY DEF EnterRecord, LeaveRecord, kept, step
<1>2. PersRows' = PersRows
  BY <1>1 DEF PersRows
<1>3. /\ PersClosed' /\ ScrClosed' /\ HashConsed'
      /\ \A h : h[1] = P /\ Valid(h) => Valid(h)'
  BY <1>1, <1>2, ScratchGone
<1>4. TypeOK'
  BY <1>1 DEF TypeOK, Phases
<1>5. Bracketed'
  BY <1>1 DEF Bracketed
<1>6. vg = NoHandle /\ DOMAIN pmemo = {} /\ since = 0
  BY <1>1 DEF Bracketed, EmptyMemo
<1>7. StepHeld'
  BY <1>1, <1>2, <1>6 DEF StepHeld, TypeOK
<1>8. caches' = {} /\ Readable' = {}
  BY <1>1 DEF Bracketed, Readable
<1>9. NoneDangles'
  BY <1>1, <1>3, <1>8 DEF NoneDangles
<1>10. phase' # "promote"
  BY <1>1
<1>11. Copied'
  BY <1>5, <1>10 DEF Bracketed, Copied, EmptyMemo
<1> QED
  BY <1>3, <1>4, <1>5, <1>7, <1>9, <1>11

LEMMA ThawStep ==
  ASSUME Inv, ThawTier
  PROVE  Inv'
<1> USE DEF Inv
<1>1. /\ phase = "checks" /\ phase' = "checked"
      /\ own' = tier.rows /\ tier' = [frozen |-> FALSE, rows |-> <<>>]
      /\ scr' = <<>> /\ on' = FALSE /\ caches' = {} /\ memos' = {}
      /\ UNCHANGED <<env, index, pend, since, vg, pmemo>>
  BY DEF ThawTier, NoTier, kept, step
<1>2. PersRows' = PersRows
  BY <1>1 DEF PersRows, Bracketed
<1>3. /\ PersClosed' /\ ScrClosed' /\ HashConsed'
      /\ \A h : h[1] = P /\ Valid(h) => Valid(h)'
  BY <1>1, <1>2, ScratchGone
<1>4. own' \in Seq(Node) /\ tier' \in [frozen : BOOLEAN, rows : Seq(Node)]
  BY <1>1 DEF TypeOK
<1>5. TypeOK'
  BY <1>1, <1>4 DEF TypeOK, Phases
<1>6. Bracketed'
  BY <1>1 DEF Bracketed
<1>7. vg = NoHandle /\ DOMAIN pmemo = {} /\ since = 0
  BY <1>1 DEF Bracketed, EmptyMemo
<1>8. StepHeld' /\ NoneDangles'
  BY <1>1, <1>2, <1>3, <1>7 DEF StepHeld, NoneDangles, Readable, TypeOK
<1>9. phase' # "promote"
  BY <1>1
<1>10. Copied'
  BY <1>6, <1>9 DEF Bracketed, Copied, EmptyMemo
<1> QED
  BY <1>3, <1>5, <1>6, <1>8, <1>10

LEMMA NextInv == Inv /\ [Next]_vars => Inv'
<1> SUFFICES ASSUME Inv, [Next]_vars PROVE Inv'
  OBVIOUS
<1>1. CASE \E n \in NodesOver(ValidHandles) : Intern(n)
  BY <1>1, InternStep
<1>2. CASE \E h \in ValidHandles : FillCache(h) \/ FillMemo(h) \/ Install(h)
  BY <1>2, FillStep, InstallStep
<1>3. CASE \E v \in ValidHandles \cup {NoHandle} : StepReturns(v)
  BY <1>3, StepReturnsStep
<1>4. CASE \E i \in 1 .. Len(scr) : PromoteNode(i)
  BY <1>4, PromoteStep
<1>5. CASE OpenBracket \/ FreezeTier
  BY <1>5, OpenStep
<1>6. CASE CloseBracket
  BY <1>6, CloseStep
<1>7. CASE StepFails \/ OpenFails
  BY <1>7, FailStep
<1>8. CASE EnterRecord \/ LeaveRecord
  BY <1>8, RecordStep
<1>9. CASE ThawTier
  BY <1>9, ThawStep
<1>10. CASE UNCHANGED vars
  <2>1. UNCHANGED <<own, tier, scr, on, env, index, pend, since, vg, pmemo, caches, memos, phase>>
    BY <1>10 DEF vars
  <2>2. PersRows' = PersRows /\ PersClosed' /\ ScrClosed' /\ \A h : Valid(h)' <=> Valid(h)
    BY <2>1, TablesKept DEF tables
  <2>3. TypeOK' /\ Bracketed'
    BY <2>1 DEF Inv, TypeOK, Bracketed
  <2>4. StepHeld' /\ NoneDangles' /\ HashConsed'
    BY <2>1, <2>2 DEF Inv, StepHeld, NoneDangles, HashConsed, Readable
  <2>5. Copied'
    <3>1. \A h : View(h)' = View(h) /\ (Done(h)' <=> Done(h)) /\ Promoted(h)' = Promoted(h)
      BY <2>1, <2>2 DEF View, Done, Promoted
    <3>2. \A n : PromotedNode(n)' = PromotedNode(n)
      BY <3>1 DEF PromotedNode
    <3>3. Copied /\ pmemo' = pmemo
      BY <2>1 DEF Inv
    <3>4. \A h : Valid(h)' <=> Valid(h)
      BY <2>2
    <3> QED
      BY ONLY <3>1, <3>2, <3>3, <3>4 DEF Copied
  <2> QED
    BY <2>2, <2>3, <2>4, <2>5 DEF Inv
<1> QED
  BY <1>1, <1>2, <1>3, <1>4, <1>5, <1>6, <1>7, <1>8, <1>9, <1>10 DEF Next

-----------------------------------------------------------------------------
(* Inv holds in every reachable state: the store stays hash-consed and     *)
(* closed through every bracket, promotion, failure, freeze and thaw.      *)
THEOREM Invariance == Spec => []Inv
<1>1. Init => Inv
  BY InitInv
<1>2. Inv /\ [Next]_vars => Inv'
  BY NextInv
<1> QED
  BY <1>1, <1>2, PTL DEF Spec

(* The tables, the handles kept and the brackets' state have their types,  *)
(* and what a promotion remembers is always persistent.                    *)
THEOREM TypeCorrect == Spec => []TypeOK
<1>1. Inv => TypeOK
  BY DEF Inv
<1> QED
  BY <1>1, Invariance, PTL

(* No constant, pending record, or readable cache or memo entry names a    *)
(* row that is gone.                                                       *)
THEOREM NothingDangles == Spec => []NoneDangles
<1>1. Inv => NoneDangles
  BY DEF Inv
<1> QED
  BY <1>1, Invariance, PTL

(* The persistent rows are closed under children, so drop_scratch takes    *)
(* nothing a persistent handle stands for.                                 *)
THEOREM PersistentClosed == Spec => []PersClosed
<1>1. Inv => PersClosed
  BY DEF Inv
<1> QED
  BY <1>1, Invariance, PTL

(* A step appends to the persistent rows at most, wherever it moves them.  *)
LEMMA RowsOnlyGrow ==
  ASSUME Inv, Inv', [Next]_vars
  PROVE  /\ Len(PersRows) <= Len(PersRows')
         /\ \A i \in 1 .. Len(PersRows) : PersRows'[i] = PersRows[i]
<1> DEFINE Grows == /\ Len(PersRows) <= Len(PersRows')
                    /\ \A i \in 1 .. Len(PersRows) : PersRows'[i] = PersRows[i]
<1> SUFFICES Grows
  OBVIOUS
<1>0. PersRows \in Seq(Node) /\ Len(PersRows) \in Nat
  BY DEF Inv, TypeOK, PersRows
<1>1. PersRows' = PersRows => Grows
  BY <1>0
<1>2. ASSUME NEW m, PersRows' = Append(PersRows, m), m \in Node PROVE Grows
  BY <1>0, <1>2
<1> HIDE DEF Grows
<1>3. CASE \E n \in NodesOver(ValidHandles) : Intern(n)
  <2>1. PICK n \in NodesOver(ValidHandles) : Intern(n)
    BY <1>3
  <2>2. n \in Node
    BY NodeOverValid DEF Inv
  <2>3. CASE on
    BY <2>1, <2>3, <1>1 DEF Intern, PersRows
  <2>4. CASE ~ on
    <3>1. ~ tier.frozen /\ tier' = tier /\ own' = Append(own, n)
      BY <2>1, <2>4 DEF Intern, Inv, Bracketed
    <3> QED
      BY <3>1, <2>2, <1>2 DEF PersRows
  <2> QED
    BY <2>3, <2>4
<1>4. CASE \/ \E h \in ValidHandles : FillCache(h) \/ FillMemo(h) \/ Install(h)
           \/ \E v \in ValidHandles \cup {NoHandle} : StepReturns(v)
  <2>1. UNCHANGED <<own, tier>>
    BY <1>4 DEF FillCache, FillMemo, Install, StepReturns, tables
  <2> QED
    BY <2>1, <1>1 DEF PersRows
<1>5. CASE \E i \in 1 .. Len(scr) : PromoteNode(i)
  <2>1. PICK i \in 1 .. Len(scr) : PromoteNode(i)
    BY <1>5
  <2>2. /\ tier.frozen /\ PersRows = tier.rows /\ tier.rows \in Seq(Node)
        /\ tier \in [frozen : BOOLEAN, rows : Seq(Node)] /\ own' = own
    BY <2>1 DEF PromoteNode, Inv, TypeOK, Bracketed, PersRows
  <2>3. CASE UNCHANGED tier
    BY <2>2, <2>3, <1>1 DEF PersRows
  <2>4. CASE tier' = [tier EXCEPT !.rows = Append(@, PromotedNode(scr[i]))]
    <3> DEFINE m == PromotedNode(scr[i])
    <3>1. tier'.frozen /\ tier'.rows = Append(tier.rows, m)
      BY <2>2, <2>4
    <3>2. PersRows' = Append(PersRows, m)
      BY <3>1, <2>2 DEF PersRows
    <3>3. \A h \in Kids(scr[i]) : Valid(h) /\ Done(h)
      <4>1. scr[i] \in Node
        BY DEF Inv, TypeOK
      <4>2. \A h \in Kids(scr[i]) : h \in Handle
        BY <4>1 DEF Node, Kids
      <4> QED
        BY SMTT(30), <4>2, <2>1, HandleShape
        DEF Inv, PromoteNode, Bracketed, ScrClosed, Valid, TypeOK, Handle, PersHandle, ScrHandle
    <3>4. m \in Node
      BY <3>3, PromotedNodeKids DEF Inv, TypeOK
    <3> HIDE DEF m
    <3> QED
      BY <3>2, <3>4, <1>2
  <2> QED
    BY <2>1, <2>3, <2>4 DEF PromoteNode
<1>6. CASE OpenBracket \/ FreezeTier
  BY <1>6, <1>1 DEF OpenBracket, FreezeTier, PersRows, Inv, Bracketed
<1>7. CASE CloseBracket \/ StepFails
  BY <1>7, <1>1, DropKeeps DEF CloseBracket, StepFails
<1>8. CASE OpenFails \/ EnterRecord \/ LeaveRecord
  BY <1>8, <1>1 DEF OpenFails, EnterRecord, LeaveRecord, PersRows, tables
<1>9. CASE ThawTier
  BY <1>9, <1>1 DEF ThawTier, PersRows, NoTier, Inv, Bracketed
<1>10. CASE UNCHANGED vars
  BY <1>10, <1>1 DEF vars, PersRows
<1> QED
  BY <1>3, <1>4, <1>5, <1>6, <1>7, <1>8, <1>9, <1>10 DEF Next

(* Persistent handles keep their bits through the whole run.               *)
THEOREM RowsKept == Spec => PersOnlyGrows
<1>1. Inv /\ Inv' /\ [Next]_vars =>
        [/\ Len(PersRows) <= Len(PersRows')
         /\ \A i \in 1 .. Len(PersRows) : PersRows'[i] = PersRows[i]]_vars
  BY RowsOnlyGrow
<1> QED
  BY <1>1, Invariance, PTL DEF Spec, PersOnlyGrows

(* Every record is checked from empty scratch rows, caches and memos.      *)
THEOREM RecordsIndependent == Spec => RecordStartsClean
<1>1. Inv /\ [Next]_vars =>
        [phase = "checks" /\ phase' = "record" =>
           scr' = <<>> /\ caches' = {} /\ memos' = {}]_vars
  <2> SUFFICES ASSUME Inv, Next, phase = "checks", phase' = "record"
               PROVE  scr' = <<>> /\ caches' = {} /\ memos' = {}
    OBVIOUS
  <2>1. EnterRecord
    BY DEF Next, Intern, FillCache, FillMemo, Install, StepReturns, PromoteNode, OpenBracket,
           CloseBracket, StepFails, OpenFails, FreezeTier, LeaveRecord, ThawTier
  <2> QED
    BY <2>1 DEF EnterRecord, Inv, Bracketed
<1> QED
  BY <1>1, Invariance, PTL DEF Spec, RecordStartsClean

-----------------------------------------------------------------------------
(* The trees below the nodes v[h], h \in H, when a node's children are in  *)
(* H and of a lesser rank r: TreeOver is one layer of them.                *)
TreeOver(f, n) == <<n.sym, [i \in DOMAIN n.kids |-> f[n.kids[i]]]>>

Ranked(v, H, r, n) ==
  \A h \in H : /\ r[h] \in 0 .. n
               /\ \A i \in DOMAIN v[h].kids : /\ v[h].kids[i] \in H
                                             /\ r[v[h].kids[i]] < r[h]

Below(H, r, k) == {h \in H : r[h] < k}
Trees(f, v, H) == f = [h \in H |-> TreeOver(f, v[h])]

(* There is such a function.                                               *)
LEMMA TreesExist ==
  ASSUME NEW v, NEW H, NEW r, NEW n \in Nat, Ranked(v, H, r, n)
  PROVE  \E f : Trees(f, v, H)
<1> DEFINE T == {k \in Nat : \E f : Trees(f, v, Below(H, r, k))}
<1>1. 0 \in T
  <2>1. Below(H, r, 0) = {}
    BY DEF Below, Ranked
  <2> DEFINE f == [h \in {} |-> 0]
  <2>2. f = [h \in {} |-> TreeOver(f, v[h])]
    OBVIOUS
  <2>3. Trees(f, v, {})
    BY <2>2 DEF Trees
  <2> QED
    BY <2>1, <2>3
<1>2. \A k \in 1 .. n + 1 : k - 1 \in T => k \in T
  <2> SUFFICES ASSUME NEW k \in 1 .. n + 1, k - 1 \in T PROVE k \in T
    OBVIOUS
  <2>1. PICK f : Trees(f, v, Below(H, r, k - 1))
    OBVIOUS
  <2> DEFINE g == [h \in Below(H, r, k) |-> TreeOver(f, v[h])]
  <2>2. \A h \in Below(H, r, k - 1) : h \in Below(H, r, k) /\ g[h] = f[h]
    <3>1. \A h \in Below(H, r, k - 1) : h \in Below(H, r, k)
      BY DEF Below, Ranked
    <3>2. \A h \in Below(H, r, k - 1) : f[h] = TreeOver(f, v[h])
      BY <2>1 DEF Trees
    <3> QED
      BY <3>1, <3>2
  <2>3. \A h \in Below(H, r, k) : TreeOver(g, v[h]) = TreeOver(f, v[h])
    <3> SUFFICES ASSUME NEW h \in Below(H, r, k)
                 PROVE  TreeOver(g, v[h]) = TreeOver(f, v[h])
      OBVIOUS
    <3>1. \A i \in DOMAIN v[h].kids : v[h].kids[i] \in Below(H, r, k - 1)
      BY DEF Below, Ranked
    <3> HIDE DEF g
    <3>2. \A i \in DOMAIN v[h].kids : g[v[h].kids[i]] = f[v[h].kids[i]]
      BY <3>1, <2>2
    <3> QED
      BY <3>2 DEF TreeOver
  <2>4. g = [h \in Below(H, r, k) |-> TreeOver(g, v[h])]
    <3> DEFINE e == [h \in Below(H, r, k) |-> TreeOver(g, v[h])]
    <3>1. \A h \in Below(H, r, k) : g[h] = e[h]
      <4>1. \A h \in Below(H, r, k) : g[h] = TreeOver(f, v[h])
        OBVIOUS
      <4>2. \A h \in Below(H, r, k) : e[h] = TreeOver(g, v[h])
        OBVIOUS
      <4> QED
        BY <4>1, <4>2, <2>3
    <3> QED
      BY <3>1
  <2> HIDE DEF g
  <2>5. Trees(g, v, Below(H, r, k))
    BY <2>4 DEF Trees
  <2> QED
    BY <2>5
<1>3. n + 1 \in T
  <2> HIDE DEF T
  <2> QED
    BY <1>1, <1>2, UpTo
<1>4. Below(H, r, n + 1) = H
  BY DEF Below, Ranked
<1> QED
  BY <1>3, <1>4

(* Two families of trees agree where their nodes do.                       *)
LEMMA TreesAgree ==
  ASSUME NEW v, NEW H, NEW f, Trees(f, v, H),
         NEW w, NEW G, NEW g, Trees(g, w, G),
         NEW r, NEW n \in Nat, NEW K \in SUBSET (H \cap G), Ranked(v, K, r, n),
         \A h \in K : v[h] = w[h]
  PROVE  \A h \in K : f[h] = g[h]
<1> DEFINE Bad == {k \in Nat : \E h \in K : r[h] = k /\ f[h] # g[h]}
<1> SUFFICES ASSUME NEW x \in K, f[x] # g[x] PROVE FALSE
  OBVIOUS
<1>1. PICK k \in Bad : \A l \in Bad : k <= l
  <2>1. r[x] \in Nat
    BY DEF Ranked
  <2>2. r[x] \in Bad /\ Bad \subseteq Nat
    BY <2>1
  <2> HIDE DEF Bad
  <2> QED
    BY <2>2, LeastOf
<1>2. PICK h \in K : r[h] = k /\ f[h] # g[h]
  BY <1>1
<1>3. \A i \in DOMAIN v[h].kids : f[v[h].kids[i]] = g[v[h].kids[i]]
  <2> SUFFICES ASSUME NEW i \in DOMAIN v[h].kids, f[v[h].kids[i]] # g[v[h].kids[i]]
               PROVE  FALSE
    OBVIOUS
  <2>1. v[h].kids[i] \in K /\ r[v[h].kids[i]] < k /\ r[v[h].kids[i]] \in Nat /\ k \in Nat
    BY <1>2 DEF Ranked
  <2>2. r[v[h].kids[i]] \in Bad
    BY <2>1
  <2>3. k <= r[v[h].kids[i]]
    BY <2>2, <1>1
  <2> QED
    BY <2>1, <2>3
<1>4. f[h] = TreeOver(f, v[h]) /\ g[h] = TreeOver(g, v[h])
  BY DEF Trees
<1> QED
  BY <1>2, <1>3, <1>4 DEF TreeOver

(* Different nodes have different trees.                                   *)
LEMMA TreesDiffer ==
  ASSUME NEW v, NEW H, NEW f, Trees(f, v, H), NEW r, NEW n \in Nat, Ranked(v, H, r, n),
         \A h \in H : v[h] \in Node,
         \A h, g \in H : v[h] = v[g] => h = g
  PROVE  \A h, g \in H : f[h] = f[g] => h = g
<1> DEFINE Bad == {k \in Nat : \E h, g \in H : r[h] = k /\ f[h] = f[g] /\ h # g}
<1> SUFFICES ASSUME NEW x \in H, NEW y \in H, f[x] = f[y], x # y PROVE FALSE
  OBVIOUS
<1>1. PICK k \in Bad : \A l \in Bad : k <= l
  <2>1. r[x] \in Nat
    BY DEF Ranked
  <2>2. r[x] \in Bad /\ Bad \subseteq Nat
    BY <2>1
  <2> HIDE DEF Bad
  <2> QED
    BY <2>2, LeastOf
<1>2. PICK h \in H, g \in H : r[h] = k /\ f[h] = f[g] /\ h # g
  BY <1>1
<1>3. TreeOver(f, v[h]) = TreeOver(f, v[g])
  <2>1. f[h] = TreeOver(f, v[h]) /\ f[g] = TreeOver(f, v[g])
    BY DEF Trees
  <2> QED
    BY <2>1, <1>2
<1>4. /\ v[h].sym = v[g].sym
      /\ DOMAIN v[h].kids = DOMAIN v[g].kids
      /\ \A i \in DOMAIN v[h].kids : f[v[h].kids[i]] = f[v[g].kids[i]]
  <2> DEFINE A == [i \in DOMAIN v[h].kids |-> f[v[h].kids[i]]]
             B == [i \in DOMAIN v[g].kids |-> f[v[g].kids[i]]]
  <2>1. v[h].sym = v[g].sym /\ A = B
    BY <1>3 DEF TreeOver
  <2>2. DOMAIN A = DOMAIN B /\ \A i \in DOMAIN v[h].kids : A[i] = B[i]
    BY <2>1
  <2> QED
    BY <2>1, <2>2
<1>5. \A i \in DOMAIN v[h].kids : v[h].kids[i] = v[g].kids[i]
  <2> SUFFICES ASSUME NEW i \in DOMAIN v[h].kids, v[h].kids[i] # v[g].kids[i]
               PROVE  FALSE
    OBVIOUS
  <2>1. v[h].kids[i] \in H /\ r[v[h].kids[i]] < k /\ r[v[h].kids[i]] \in Nat /\ k \in Nat
    BY <1>2 DEF Ranked
  <2>2. v[g].kids[i] \in H
    BY <1>4 DEF Ranked
  <2>3. r[v[h].kids[i]] \in Bad
    BY <2>1, <2>2, <1>4
  <2>4. k <= r[v[h].kids[i]]
    BY <2>3, <1>1
  <2> QED
    BY <2>1, <2>4
<1>6. v[h] \in Node /\ v[g] \in Node
  OBVIOUS
<1>7. v[h].kids = v[g].kids
  <2>1. v[h].kids \in Seq(Handle) /\ v[g].kids \in Seq(Handle)
    BY <1>6 DEF Node
  <2> QED
    BY <2>1, <1>4, <1>5
<1>8. v[h] = v[g]
  <2>1. v[h] = [sym |-> v[h].sym, kids |-> v[h].kids] /\ v[g] = [sym |-> v[g].sym, kids |-> v[g].kids]
    BY <1>6 DEF Node
  <2> QED
    BY <2>1, <1>4, <1>7
<1> QED
  BY <1>2, <1>8

-----------------------------------------------------------------------------
(* The store's rows, and an order in which children come first.            *)
RowOf == [h \in ValidHandles |-> View(h)]
RankOf == [h \in ValidHandles |-> IF h[1] = P THEN h[2] ELSE Len(PersRows) + h[2]]
LastRank == Len(PersRows) + Len(scr)

LEMMA ValidIff ==
  ASSUME TypeOK, NEW h \in Handle
  PROVE  h \in ValidHandles <=> Valid(h)
<1>1. CASE h[1] = P
  <2>1. h = <<P, h[2]>>
    BY <1>1, HandleShape
  <2> QED
    BY <1>1, <2>1, HandleShape DEF ValidHandles, Valid
<1>2. CASE h[1] = S
  <2>1. h = <<S, h[2]>>
    BY <1>2, HandleShape
  <2> QED
    BY <1>2, <2>1, HandleShape DEF ValidHandles, Valid
<1> QED
  BY <1>1, <1>2, HandleShape

(* The row of a live handle is a node over live handles of lesser rank.    *)
LEMMA RowsRanked ==
  ASSUME Inv
  PROVE  /\ Ranked(RowOf, ValidHandles, RankOf, LastRank)
         /\ LastRank \in Nat
         /\ \A h \in ValidHandles : RowOf[h] = View(h) /\ RowOf[h] \in Node
<1> USE DEF Inv
<1>1. Len(PersRows) \in Nat /\ Len(scr) \in Nat /\ PersRows \in Seq(Node) /\ scr \in Seq(Node)
  BY DEF TypeOK, PersRows
<1>2. LastRank \in Nat
  BY <1>1 DEF LastRank
<1>3. ASSUME NEW h \in ValidHandles
      PROVE  /\ RowOf[h] = View(h) /\ RowOf[h] \in Node
             /\ RankOf[h] \in 0 .. LastRank
             /\ \A i \in DOMAIN RowOf[h].kids :
                  /\ RowOf[h].kids[i] \in ValidHandles
                  /\ RankOf[RowOf[h].kids[i]] < RankOf[h]
  <2>0. h \in Handle /\ Valid(h)
    BY ValidIsHandle
  <2>1. RowOf[h] = View(h)
    BY DEF RowOf
  <2>2. View(h) \in Node
    BY <1>1, <2>0 DEF View, Valid, P, S
  <2>3. RankOf[h] = IF h[1] = P THEN h[2] ELSE Len(PersRows) + h[2]
    BY DEF RankOf
  <2>4. RankOf[h] \in 0 .. LastRank
    BY <1>1, <2>0, <2>3, HandleShape DEF Valid, LastRank
  <2>5. ASSUME NEW i \in DOMAIN View(h).kids
        PROVE  /\ View(h).kids[i] \in ValidHandles
               /\ RankOf[View(h).kids[i]] < RankOf[h]
    <3> DEFINE k == View(h).kids[i]
    <3>1. k \in Kids(View(h)) /\ k \in Handle
      <4>1. View(h).kids \in Seq(Handle)
        BY <2>2 DEF Node
      <4> QED
        BY <4>1 DEF Kids
    <3> HIDE DEF k
    <3>2. CASE h[1] = P
      <4>1. View(h) = PersRows[h[2]] /\ h[2] \in 1 .. Len(PersRows)
        BY <2>0, <3>2, HandleShape DEF View, Valid
      <4>2. k[1] = P /\ k[2] < h[2]
        BY <4>1, <3>1 DEF PersClosed
      <4>3. Valid(k)
        BY <4>1, <4>2, <3>1, <1>1, HandleShape DEF Valid
      <4>4. k \in ValidHandles
        BY <4>3, <3>1, ValidIff
      <4>5. RankOf[k] = k[2]
        BY <4>4, <4>2 DEF RankOf
      <4> QED
        BY <4>2, <4>4, <4>5, <2>3, <3>2 DEF k
    <3>3. CASE h[1] = S
      <4>1. View(h) = scr[h[2]] /\ h[2] \in 1 .. Len(scr) /\ on
        BY <2>0, <3>3, HandleShape DEF View, Valid
      <4>2. \/ k[1] = P /\ k[2] <= Len(PersRows)
            \/ k[1] = S /\ k[2] < h[2]
        BY <4>1, <3>1 DEF ScrClosed
      <4>3. Valid(k)
        BY <4>1, <4>2, <3>1, <1>1, HandleShape DEF Valid
      <4>4. k \in ValidHandles
        BY <4>3, <3>1, ValidIff
      <4>5. RankOf[k] = IF k[1] = P THEN k[2] ELSE Len(PersRows) + k[2]
        BY <4>4 DEF RankOf
      <4>6. k[2] \in Nat /\ h[2] \in Nat /\ h[2] # 0 /\ P # S
        BY <3>1, <2>0, HandleShape
      <4>7. RankOf[k] < RankOf[h]
        BY <4>1, <4>2, <4>5, <4>6, <2>3, <3>3, <1>1
      <4> QED
        BY <4>4, <4>7 DEF k
    <3> QED
      BY <3>2, <3>3, <2>0, HandleShape
  <2> QED
    BY <2>1, <2>2, <2>4, <2>5
<1> QED
  BY <1>2, <1>3 DEF Ranked

(* Term is the family of the trees below the live handles.                 *)
LEMMA TermTrees == Inv => Trees(Term, RowOf, ValidHandles)
<1> SUFFICES ASSUME Inv PROVE Trees(Term, RowOf, ValidHandles)
  OBVIOUS
<1> DEFINE Body(f, h) == <<View(h).sym, [i \in DOMAIN View(h).kids |->
                                           IF View(h).kids[i] \in ValidHandles
                                             THEN f[View(h).kids[i]] ELSE Dangling]>>
<1>1. ASSUME NEW f, NEW h \in ValidHandles PROVE Body(f, h) = TreeOver(f, RowOf[h])
  <2>1. RowOf[h] = View(h) /\ \A i \in DOMAIN View(h).kids : View(h).kids[i] \in ValidHandles
    BY RowsRanked DEF Ranked
  <2> QED
    BY <2>1 DEF TreeOver
<1>2. PICK f : Trees(f, RowOf, ValidHandles)
  BY RowsRanked, TreesExist
<1>3. f = [h \in ValidHandles |-> Body(f, h)]
  <2>1. f = [h \in ValidHandles |-> TreeOver(f, RowOf[h])]
    BY <1>2 DEF Trees
  <2> HIDE DEF Body
  <2> QED
    BY <2>1, <1>1
<1>4. Term = [h \in ValidHandles |-> Body(Term, h)]
  BY <1>3 DEF Term
<1>5. Term = [h \in ValidHandles |-> TreeOver(Term, RowOf[h])]
  <2> HIDE DEF Body
  <2> QED
    BY <1>4, <1>1
<1> QED
  BY <1>5 DEF Trees

(* Equal rows have equal handles, outside a promotion.                     *)
LEMMA RowsDiffer ==
  ASSUME Inv, phase # "promote"
  PROVE  \A h, g \in ValidHandles : RowOf[h] = RowOf[g] => h = g
<1> SUFFICES ASSUME NEW h \in ValidHandles, NEW g \in ValidHandles, RowOf[h] = RowOf[g]
             PROVE  h = g
  OBVIOUS
<1>1. h \in Handle /\ Valid(h) /\ g \in Handle /\ Valid(g)
  BY ValidIsHandle DEF Inv
<1>2. View(h) = View(g)
  BY RowsRanked
<1>3. HashConsed
  BY DEF Inv
<1>4. h[1] = g[1] /\ h[2] = g[2]
  <2>1. CASE h[1] = P /\ g[1] = P
    BY <2>1, <1>1, <1>2, <1>3, HandleShape DEF HashConsed, View, Valid
  <2>2. CASE h[1] = S /\ g[1] = S
    BY <2>2, <1>1, <1>2, <1>3, HandleShape DEF HashConsed, View, Valid
  <2>3. CASE h[1] # g[1]
    BY <2>3, <1>1, <1>2, <1>3, HandleShape DEF HashConsed, View, Valid
  <2> QED
    BY <2>1, <2>2, <2>3, <1>1, HandleShape
<1> QED
  BY <1>1, <1>4, HandleShape

LEMMA TiersFinite ==
  ASSUME TypeOK
  PROVE  IsFiniteSet(ValidHandles)
<1>1. Len(PersRows) \in Nat /\ Len(scr) \in Nat
  BY DEF TypeOK, PersRows
<1>2. ASSUME NEW t, NEW n \in Nat PROVE IsFiniteSet({<<t, i>> : i \in 1 .. n})
  <2> DEFINE H == {<<t, i>> : i \in 1 .. n}
             f == [i \in 1 .. n |-> <<t, i>>]
  <2>1. f \in Surjection(1 .. n, H)
    BY DEF Surjection
  <2>2. IsFiniteSet(1 .. n)
    BY FS_Interval
  <2> HIDE DEF f, H
  <2>3. IsFiniteSet(H)
    BY <2>1, <2>2, FS_Surjection
  <2> QED
    BY <2>3 DEF H
<1>3. IsFiniteSet({<<P, i>> : i \in 1 .. Len(PersRows)})
  BY <1>1, <1>2
<1>4. IsFiniteSet(IF on THEN {<<S, i>> : i \in 1 .. Len(scr)} ELSE {})
  BY <1>1, <1>2, FS_EmptySet
<1> QED
  BY <1>3, <1>4, FS_Union DEF ValidHandles

LEMMA InvCanonical == Inv => Canonical
<1> SUFFICES ASSUME Inv, phase # "promote"
             PROVE  Cardinality({Term[h] : h \in ValidHandles}) = Cardinality(ValidHandles)
  BY DEF Canonical
<1>1. \A h, g \in ValidHandles : Term[h] = Term[g] => h = g
  BY RowsDiffer, RowsRanked, TermTrees, TreesDiffer
<1> DEFINE I == {Term[h] : h \in ValidHandles}
           F == [h \in ValidHandles |-> Term[h]]
<1>2. F \in Surjection(ValidHandles, I)
  BY DEF Surjection
<1>3. F \in Injection(ValidHandles, I)
  BY <1>1 DEF Injection, IsInjective
<1>4. IsFiniteSet(ValidHandles)
  BY TiersFinite DEF Inv
<1> HIDE DEF I, F
<1>5. Cardinality(I) = Cardinality(ValidHandles)
  BY <1>2, <1>3, <1>4, FS_Surjection
<1> QED
  BY <1>5 DEF I

(* What a handle is promoted to stands for what it stands for.  By the     *)
(* least scratch row it would fail for.                                    *)
LEMMA PromotedMeans ==
  ASSUME Inv
  PROVE  \A h \in ValidHandles :
           Done(h) => Promoted(h) \in ValidHandles /\ Term[Promoted(h)] = Term[h]
<1>0. ASSUME NEW h \in ValidHandles, Done(h) PROVE Promoted(h) \in ValidHandles
  <2>1. h \in Handle /\ Valid(h)
    BY ValidIsHandle DEF Inv
  <2>2. Promoted(h) \in Handle /\ Valid(Promoted(h))
    BY <1>0, <2>1, PromotedHandle DEF Handle
  <2> QED
    BY <2>2, ValidIff DEF Inv
<1> DEFINE Odd(h) == Done(h) /\ Term[Promoted(h)] # Term[h]
           Bad == {k \in Nat : \E h \in ValidHandles : RankOf[h] = k /\ Odd(h)}
<1> SUFFICES ASSUME NEW x \in ValidHandles, Odd(x) PROVE FALSE
  BY <1>0
<1>1. \A h \in ValidHandles : RankOf[h] \in Nat
  BY RowsRanked DEF Ranked
<1>2. PICK k \in Bad : \A l \in Bad : k <= l
  <2>1. RankOf[x] \in Bad /\ Bad \subseteq Nat
    BY <1>1
  <2> HIDE DEF Bad
  <2> QED
    BY <2>1, LeastOf
<1>3. PICK h \in ValidHandles : RankOf[h] = k /\ Odd(h)
  BY <1>2
<1>4. h \in DOMAIN pmemo /\ Promoted(h) = pmemo[h]
  BY <1>3 DEF Done, Promoted
<1>5. \A i \in DOMAIN View(h).kids : Done(View(h).kids[i])
  <2>1. View(h) \in Node
    BY RowsRanked
  <2>2. View(h).kids \in Seq(Handle)
    BY <2>1 DEF Node
  <2> QED
    BY <1>4, <2>2 DEF Inv, Copied, Kids
<1>6. View(pmemo[h]) = PromotedNode(View(h))
  BY <1>4 DEF Inv, Copied
<1>7. \A i \in DOMAIN View(h).kids : Term[Promoted(View(h).kids[i])] = Term[View(h).kids[i]]
  <2> SUFFICES ASSUME NEW i \in DOMAIN View(h).kids, Odd(View(h).kids[i])
               PROVE  FALSE
    BY <1>5
  <2> DEFINE g == View(h).kids[i]
  <2>1. g \in ValidHandles /\ RankOf[g] < k
    BY <1>3, RowsRanked DEF Ranked
  <2> HIDE DEF Odd
  <2>2. RankOf[g] \in Nat /\ k \in Nat
    BY <2>1, <1>1
  <2>3. RankOf[g] \in Bad
    BY <2>1, <2>2
  <2>4. k <= RankOf[g]
    BY <2>3, <1>2
  <2> QED
    BY <2>1, <2>2, <2>4
<1>8. Term[h] = TreeOver(Term, View(h)) /\ Term[pmemo[h]] = TreeOver(Term, View(pmemo[h]))
  <2>1. pmemo[h] \in ValidHandles
    BY <1>0, <1>3, <1>4
  <2> QED
    BY <2>1, TermTrees, RowsRanked DEF Trees
<1>9. /\ PromotedNode(View(h)).sym = View(h).sym
      /\ PromotedNode(View(h)).kids = [i \in DOMAIN View(h).kids |-> Promoted(View(h).kids[i])]
  <2>1. View(h) \in Node
    BY RowsRanked
  <2> QED
    BY <2>1 DEF PromotedNode, Node
<1>10. TreeOver(Term, PromotedNode(View(h))) = TreeOver(Term, View(h))
  BY <1>7, <1>9 DEF TreeOver
<1> QED
  BY <1>3, <1>4, <1>6, <1>8, <1>10

LEMMA InvPromotionExact == Inv => PromotionExact
<1> SUFFICES ASSUME Inv, NEW h \in DOMAIN pmemo
             PROVE  pmemo[h][1] = P /\ TermOf(pmemo[h]) = TermOf(h)
  BY DEF PromotionExact
<1>1. h \in ScrHandle /\ pmemo[h] \in PersHandle /\ Valid(h)
  BY DEF Inv, TypeOK, Copied
<1>2. h \in ValidHandles
  BY <1>1, ValidIff DEF Inv, Handle
<1>3. Done(h) /\ Promoted(h) = pmemo[h]
  BY <1>1, HandleShape DEF Done, Promoted
<1>4. pmemo[h] \in ValidHandles /\ Term[pmemo[h]] = Term[h]
  BY <1>2, <1>3, PromotedMeans
<1> QED
  BY <1>1, <1>2, <1>4, HandleShape DEF TermOf

(* What TermTrees and RowsRanked say, as one formula of a state.           *)
LEMMA TermsOfRows ==
  Inv => /\ Trees(Term, RowOf, ValidHandles)
         /\ Ranked(RowOf, ValidHandles, RankOf, LastRank)
         /\ LastRank \in Nat
         /\ \A h \in ValidHandles : RowOf[h] = View(h) /\ h \in Handle /\ Valid(h)
BY TermTrees, RowsRanked, ValidIsHandle DEF Inv

(* A step empties the scratch tier, or appends to it at most.              *)
LEMMA ScratchOnlyGrows ==
  ASSUME Inv, [Next]_vars
  PROVE  scr' = scr \/ scr' = <<>> \/ \E n \in Node : scr' = Append(scr, n)
<1>1. CASE \E n \in NodesOver(ValidHandles) : Intern(n)
  BY <1>1, NodeOverValid DEF Intern, Inv
<1>2. CASE \/ \E h \in ValidHandles : FillCache(h) \/ FillMemo(h) \/ Install(h)
           \/ \E v \in ValidHandles \cup {NoHandle} : StepReturns(v)
           \/ \E i \in 1 .. Len(scr) : PromoteNode(i)
  BY <1>2 DEF FillCache, FillMemo, Install, StepReturns, PromoteNode, tables
<1>3. CASE \/ OpenBracket \/ CloseBracket \/ StepFails \/ OpenFails
           \/ FreezeTier \/ EnterRecord \/ LeaveRecord \/ ThawTier
  BY <1>3 DEF OpenBracket, CloseBracket, StepFails, OpenFails, FreezeTier, EnterRecord,
              LeaveRecord, ThawTier, DropScratch, tables
<1>4. CASE UNCHANGED vars
  BY <1>4 DEF vars
<1> QED
  BY <1>1, <1>2, <1>3, <1>4 DEF Next

(* A handle that is live before a step and after it stands for the same.   *)
LEMMA TermsKept ==
  ASSUME Inv, Inv', [Next]_vars
  PROVE  \A h \in ValidHandles : h \in ValidHandles' => Term'[h] = Term[h]
<1>1. /\ Trees(Term, RowOf, ValidHandles)
      /\ Ranked(RowOf, ValidHandles, RankOf, LastRank)
      /\ LastRank \in Nat
      /\ \A h \in ValidHandles : RowOf[h] = View(h) /\ h \in Handle /\ Valid(h)
  BY TermsOfRows
<1>2. /\ Trees(Term', RowOf', ValidHandles')
      /\ Ranked(RowOf', ValidHandles', RankOf', LastRank')
      /\ \A h \in ValidHandles' : RowOf'[h] = View(h)' /\ Valid(h)'
  <2>1. (Inv => /\ Trees(Term, RowOf, ValidHandles)
                /\ Ranked(RowOf, ValidHandles, RankOf, LastRank)
                /\ LastRank \in Nat
                /\ \A h \in ValidHandles : RowOf[h] = View(h) /\ h \in Handle /\ Valid(h))'
    BY TermsOfRows, PTL
  <2> QED
    BY <2>1
<1> DEFINE K == ValidHandles \cap ValidHandles'
<1>3. \A h \in K : RowOf[h] = RowOf'[h]
  <2> SUFFICES ASSUME NEW h \in K PROVE View(h) = View(h)'
    BY <1>1, <1>2
  <2>1. h \in Handle /\ Valid(h) /\ Valid(h)'
    BY <1>1, <1>2
  <2>2. CASE h[1] = P
    <3>1. h[2] \in 1 .. Len(PersRows)
      BY <2>1, <2>2, HandleShape DEF Valid
    <3> QED
      BY <3>1, <2>2, RowsOnlyGrow DEF View
  <2>3. CASE h[1] = S
    <3>1. h[2] \in 1 .. Len(scr) /\ h[2] \in 1 .. Len(scr') /\ h[1] # P
      BY <2>1, <2>3, HandleShape DEF Valid
    <3>2. scr'[h[2]] = scr[h[2]]
      <4>1. scr \in Seq(Node)
        BY DEF Inv, TypeOK
      <4> QED
        BY <3>1, <4>1, ScratchOnlyGrows
    <3> QED
      BY <3>1, <3>2 DEF View
  <2> QED
    BY <2>1, <2>2, <2>3, HandleShape
<1>4. Ranked(RowOf, K, RankOf, LastRank)
  <2>1. \A h \in K : \A i \in DOMAIN RowOf[h].kids : RowOf[h].kids[i] \in K
    BY <1>1, <1>2, <1>3 DEF Ranked
  <2> HIDE DEF K
  <2>2. K \subseteq ValidHandles
    BY DEF K
  <2> QED
    BY <2>1, <2>2, <1>1 DEF Ranked
<1>5. K \in SUBSET (ValidHandles \cap ValidHandles')
  OBVIOUS
<1>6. \A h \in K : Term[h] = Term'[h]
  <2> HIDE DEF K
  <2> QED
    BY <1>1, <1>2, <1>3, <1>4, <1>5, TreesAgree
<1> QED
  BY <1>6

(* What a run holds on to is live.                                         *)
LEMMA HeldLive ==
  Inv => /\ \A i \in 1 .. Len(env) : env[i] \in ValidHandles
         /\ \A i \in 1 .. Len(pend) : pend[i] \in ValidHandles
         /\ \A h \in Readable : h \in ValidHandles
         /\ Len(env) \in Nat /\ Len(pend) \in Nat
<1> SUFFICES ASSUME Inv
             PROVE  /\ \A i \in 1 .. Len(env) : env[i] \in ValidHandles
                    /\ \A i \in 1 .. Len(pend) : pend[i] \in ValidHandles
                    /\ \A h \in Readable : h \in ValidHandles
                    /\ Len(env) \in Nat /\ Len(pend) \in Nat
  OBVIOUS
<1>1. env \in Seq(Handle) /\ pend \in Seq(Handle) /\ Readable \subseteq Handle
  BY DEF Inv, TypeOK, Readable
<1>2. /\ \A i \in 1 .. Len(env) : Valid(env[i])
      /\ \A i \in 1 .. Len(pend) : Valid(pend[i])
      /\ \A h \in Readable : Valid(h)
  BY DEF Inv, NoneDangles
<1>3. \A h \in Handle : Valid(h) => h \in ValidHandles
  BY ValidIff DEF Inv
<1>4. Len(env) \in Nat /\ Len(pend) \in Nat
  BY <1>1
<1>5. \A i \in 1 .. Len(env) : env[i] \in ValidHandles
  BY <1>1, <1>2, <1>3
<1>6. \A i \in 1 .. Len(pend) : pend[i] \in ValidHandles
  BY <1>1, <1>2, <1>3
<1> QED
  BY <1>1, <1>2, <1>3, <1>4, <1>5, <1>6

(* A constant that is still there is the same handle, or the copy a        *)
(* promotion made; a pending record that is still there is the same.       *)
LEMMA KeptOrPromoted ==
  ASSUME Inv, [Next]_vars
  PROVE  /\ \A i \in 1 .. Len(env) : i <= Len(env') =>
              env'[i] = env[i] \/ (Done(env[i]) /\ env'[i] = Promoted(env[i]))
         /\ \A i \in 1 .. Len(pend) : i <= Len(pend') => pend'[i] = pend[i]
<1>0. env \in Seq(Handle) /\ pend \in Seq(Handle) /\ Len(env) \in Nat /\ Len(pend) \in Nat
  BY DEF Inv, TypeOK
<1>1. CASE \E h \in ValidHandles : Install(h)
  <2>1. PICK h \in ValidHandles : Install(h)
    BY <1>1
  <2>2. h \in Handle
    BY ValidIsHandle DEF Inv
  <2> QED
    BY <1>0, <2>1, <2>2 DEF Install
<1>2. CASE CloseBracket
  <2>1. \A i \in 1 .. Len(env) :
          env'[i] = env[i] \/ (Done(env[i]) /\ env'[i] = Promoted(env[i]))
    <3>1. since \in Nat /\ \A i \in since + 1 .. Len(env) : Done(env[i])
      BY <1>2 DEF CloseBracket, Inv, TypeOK, New
    <3>2. env' = [i \in 1 .. Len(env) |-> IF i > since THEN Promoted(env[i]) ELSE env[i]]
      BY <1>2 DEF CloseBracket
    <3> QED
      BY <3>1, <3>2, <1>0
  <2>2. CASE vg = NoHandle
    BY <1>2, <2>1, <2>2 DEF CloseBracket
  <2>3. CASE vg # NoHandle
    <3>1. pend' = Append(pend, Promoted(vg)) /\ vg \in Handle /\ Valid(vg) /\ Done(vg)
      BY <1>2, <2>3 DEF CloseBracket, Inv, TypeOK, StepHeld
    <3>2. Promoted(vg) \in Handle
      BY <3>1, PromotedHandle DEF Handle
    <3> QED
      BY <3>1, <3>2, <2>1, <1>0
  <2> QED
    BY <2>2, <2>3
<1>3. CASE StepFails \/ OpenFails
  BY <1>0, <1>3 DEF StepFails, OpenFails
<1>4. CASE UNCHANGED <<env, index, pend>>
  BY <1>4
<1>5. \/ \E h \in ValidHandles : Install(h)
      \/ CloseBracket
      \/ StepFails \/ OpenFails
      \/ UNCHANGED <<env, index, pend>>
  BY DEF Next, vars, Intern, FillCache, FillMemo, StepReturns, PromoteNode, OpenBracket,
         FreezeTier, EnterRecord, LeaveRecord, ThawTier, kept
<1> QED
  BY <1>1, <1>2, <1>3, <1>4, <1>5

(* A step keeps the meaning of what it keeps: TermsKept, and, where a      *)
(* bracket's promoted constants are written back, PromotedMeans.           *)
LEMMA MeaningStep ==
  ASSUME Inv, Inv', [Next]_vars
  PROVE  /\ \A i \in 1 .. Len(env) :
              i <= Len(env') => TermOf(env[i])' = TermOf(env[i])
         /\ \A i \in 1 .. Len(pend) :
              i <= Len(pend') => TermOf(pend[i])' = TermOf(pend[i])
         /\ \A h \in Readable : h \in Readable' => TermOf(h)' = TermOf(h)
<1>1. /\ \A i \in 1 .. Len(env) : env[i] \in ValidHandles
      /\ \A i \in 1 .. Len(pend) : pend[i] \in ValidHandles
      /\ \A h \in Readable : h \in ValidHandles
      /\ Len(env) \in Nat /\ Len(pend) \in Nat
  BY HeldLive
<1>2. /\ \A i \in 1 .. Len(env') : env'[i] \in ValidHandles'
      /\ \A i \in 1 .. Len(pend') : pend'[i] \in ValidHandles'
      /\ \A h \in Readable' : h \in ValidHandles'
      /\ Len(env') \in Nat /\ Len(pend') \in Nat
  <2>1. (Inv => /\ \A i \in 1 .. Len(env) : env[i] \in ValidHandles
                /\ \A i \in 1 .. Len(pend) : pend[i] \in ValidHandles
                /\ \A h \in Readable : h \in ValidHandles
                /\ Len(env) \in Nat /\ Len(pend) \in Nat)'
    BY HeldLive, PTL
  <2> QED
    BY <2>1
<1>3. \A h : h \in ValidHandles /\ h \in ValidHandles' => Term'[h] = Term[h]
  BY TermsKept
<1>4. ASSUME NEW i \in 1 .. Len(env), i <= Len(env')
      PROVE  TermOf(env[i])' = TermOf(env[i])
  <2>1. env[i] \in ValidHandles /\ env'[i] \in ValidHandles'
    BY <1>1, <1>2, <1>4
  <2>2. CASE env'[i] = env[i]
    BY <2>1, <2>2, <1>3 DEF TermOf
  <2>3. CASE Done(env[i]) /\ env'[i] = Promoted(env[i])
    <3>1. Promoted(env[i]) \in ValidHandles /\ Term[Promoted(env[i])] = Term[env[i]]
      BY <2>1, <2>3, PromotedMeans
    <3>2. Term'[Promoted(env[i])] = Term[env[i]]
      BY <2>1, <2>3, <3>1, <1>3
    <3> QED
      BY <2>1, <2>3, <3>2 DEF TermOf
  <2> QED
    BY <2>2, <2>3, <1>4, KeptOrPromoted
<1>5. ASSUME NEW i \in 1 .. Len(pend), i <= Len(pend')
      PROVE  TermOf(pend[i])' = TermOf(pend[i])
  <2>1. pend[i] \in ValidHandles /\ pend'[i] \in ValidHandles' /\ pend'[i] = pend[i]
    BY <1>1, <1>2, <1>5, KeptOrPromoted
  <2> QED
    BY <2>1, <1>3 DEF TermOf
<1>6. ASSUME NEW h \in Readable, h \in Readable' PROVE TermOf(h)' = TermOf(h)
  <2>1. h \in ValidHandles /\ h \in ValidHandles'
    BY <1>1, <1>2, <1>6
  <2> QED
    BY <2>1, <1>3 DEF TermOf
<1> QED
  BY <1>4, <1>5, <1>6

-----------------------------------------------------------------------------
(* Equal terms have equal handles: as many terms as handles, wherever no   *)
(* promotion is half way.                                                  *)
THEOREM TermsAreHandles == Spec => []Canonical
<1> QED
  BY Invariance, InvCanonical, PTL

(* What a promotion remembers stands for the term it was made from.        *)
THEOREM PromotionIsExact == Spec => []PromotionExact
<1> QED
  BY Invariance, InvPromotionExact, PTL

(* No step -- a bracket closed over promoted constants, the scratch tier   *)
(* dropped, the store frozen or thawed -- changes what a constant, a       *)
(* pending record or a readable cache entry stands for.                    *)
THEOREM MeaningIsKept == Spec => MeaningKept
<1>1. Inv /\ Inv' /\ [Next]_vars =>
        [/\ \A i \in 1 .. Len(env) :
              i <= Len(env') => TermOf(env[i])' = TermOf(env[i])
         /\ \A i \in 1 .. Len(pend) :
              i <= Len(pend') => TermOf(pend[i])' = TermOf(pend[i])
         /\ \A h \in Readable : h \in Readable' => TermOf(h)' = TermOf(h)]_vars
  BY MeaningStep
<1> QED
  BY <1>1, Invariance, PTL DEF Spec, MeaningKept

-----------------------------------------------------------------------------
(* The index.  Equal terms have equal handles outside a promotion; inside  *)
(* one, among the rows there were when it began.                           *)
LEMMA TermsDiffer ==
  ASSUME Inv, phase # "promote"
  PROVE  \A h, g \in ValidHandles : Term[h] = Term[g] => h = g
BY RowsDiffer, RowsRanked, TermTrees, TreesDiffer

OldHandles(b) == {h \in ValidHandles : h[1] = P => h[2] <= b}

LEMMA OldDiffer ==
  ASSUME Inv, NEW b \in 0 .. Len(PersRows), Apart(b)
  PROVE  \A h, g \in OldHandles(b) : Term[h] = Term[g] => h = g
<1> DEFINE K == OldHandles(b)
           F == [h \in K |-> Term[h]]
<1>1. K \subseteq ValidHandles
  BY DEF OldHandles
<1>2. /\ Ranked(RowOf, ValidHandles, RankOf, LastRank)
      /\ Trees(Term, RowOf, ValidHandles)
      /\ LastRank \in Nat
      /\ \A h \in ValidHandles : /\ RowOf[h] = View(h) /\ RowOf[h] \in Node
                                 /\ h \in Handle /\ Valid(h)
  BY RowsRanked, TermsOfRows
<1>3. ASSUME NEW h \in K, NEW i \in DOMAIN RowOf[h].kids
      PROVE  RowOf[h].kids[i] \in K
  <2> DEFINE k == RowOf[h].kids[i]
  <2>1. k \in ValidHandles /\ k \in Kids(View(h)) /\ k \in Handle
    <3>1. k \in ValidHandles
      BY <1>1, <1>2 DEF Ranked
    <3>2. View(h).kids \in Seq(Handle) /\ k = View(h).kids[i] /\ i \in DOMAIN View(h).kids
      BY <1>1, <1>2 DEF Node
    <3> QED
      BY <3>1, <3>2, <1>2 DEF Kids
  <2>2. h \in Handle /\ Valid(h) /\ (h[1] = P => h[2] <= b)
    BY <1>1, <1>2 DEF OldHandles
  <2> HIDE DEF k
  <2>3. k[1] = P => k[2] <= b
    <3>1. CASE h[1] = P
      <4>1. k[1] = P /\ k[2] < h[2]
        BY <2>1, <2>2, <3>1, HandleShape DEF Inv, PersClosed, View, Valid
      <4> QED
        BY <2>1, <2>2, <3>1, <4>1, HandleShape
    <3>2. CASE h[1] # P
      BY <2>1, <2>2, <3>2, HandleShape DEF Apart, View, Valid
    <3> QED
      BY <3>1, <3>2
  <2>4. k \in K
    BY <2>1, <2>3 DEF OldHandles
  <2> QED
    BY <2>4 DEF k
<1> HIDE DEF K
<1>4. Ranked(RowOf, K, RankOf, LastRank)
  BY <1>1, <1>2, <1>3 DEF Ranked
<1>5. Trees(F, RowOf, K)
  <2>1. \A h \in K : TreeOver(F, RowOf[h]) = TreeOver(Term, RowOf[h])
    BY <1>3 DEF TreeOver
  <2>2. \A h \in K : Term[h] = TreeOver(Term, RowOf[h])
    BY <1>1, <1>2 DEF Trees
  <2>3. \A h \in K : F[h] = TreeOver(F, RowOf[h])
    BY <2>1, <2>2
  <2> QED
    BY <2>3 DEF Trees
<1>6. \A h, g \in K : RowOf[h] = RowOf[g] => h = g
  <2> SUFFICES ASSUME NEW h \in K, NEW g \in K, RowOf[h] = RowOf[g]
               PROVE  h = g
    OBVIOUS
  <2>1. /\ h \in Handle /\ Valid(h) /\ (h[1] = P => h[2] <= b)
        /\ g \in Handle /\ Valid(g) /\ (g[1] = P => g[2] <= b)
        /\ View(h) = View(g)
    BY <1>1, <1>2 DEF OldHandles, K
  <2>2. h[1] = g[1] /\ h[2] = g[2]
    <3>1. CASE h[1] = P /\ g[1] = P
      BY <2>1, <3>1, HandleShape DEF Inv, HashConsed, View, Valid
    <3>2. CASE h[1] = S /\ g[1] = S
      BY <2>1, <3>2, HandleShape DEF Inv, HashConsed, View, Valid
    <3>3. CASE h[1] = P /\ g[1] = S
      BY <2>1, <3>3, HandleShape DEF Apart, View, Valid
    <3>4. CASE h[1] = S /\ g[1] = P
      BY <2>1, <3>4, HandleShape DEF Apart, View, Valid
    <3> QED
      BY <3>1, <3>2, <3>3, <3>4, <2>1, HandleShape
  <2> QED
    BY <2>1, <2>2, HandleShape
<1>7. \A h \in K : RowOf[h] \in Node
  BY <1>1, <1>2
<1> HIDE DEF F
<1>8. \A h, g \in K : F[h] = F[g] => h = g
  BY <1>2, <1>4, <1>5, <1>6, <1>7, TreesDiffer
<1> QED
  BY <1>8 DEF F, K

(* Two constants are never promoted to one.                                *)
LEMMA PromotedDiffer ==
  ASSUME IndexInv, phase = "promote",
         NEW i \in 1 .. Len(env), NEW j \in 1 .. Len(env),
         Done(env[i]), Done(env[j]), Promoted(env[i]) = Promoted(env[j])
  PROVE  i = j
<1> USE DEF IndexInv
<1>1. PICK b \in 0 .. Len(PersRows) : Apart(b)
  BY DEF PromotedApart
<1>2. env[i] \in ValidHandles /\ env[j] \in ValidHandles
  BY HeldLive
<1>3. env[i] \in OldHandles(b) /\ env[j] \in OldHandles(b)
  BY <1>1, <1>2 DEF Apart, OldHandles
<1>4. Term[env[i]] = Term[env[j]]
  BY <1>2, PromotedMeans
<1>5. env[i] = env[j]
  BY <1>1, <1>3, <1>4, OldDiffer
<1>6. index[env[i]] = i /\ index[env[j]] = j
  BY DEF Indexed
<1> QED
  BY <1>5, <1>6

LEMMA CloseIndexed ==
  ASSUME IndexInv, CloseBracket
  PROVE  Indexed'
<1> USE DEF IndexInv
<1>1. /\ phase = "promote"
      /\ \A i \in New : Done(env[i])
      /\ index' = Reindexed
      /\ env' = [i \in 1 .. Len(env) |-> IF i > since THEN Promoted(env[i]) ELSE env[i]]
  BY DEF CloseBracket
<1>2. /\ Len(env) \in Nat /\ since \in Nat /\ since <= Len(env)
      /\ \A i \in 1 .. since : env[i][1] = P
  BY DEF Inv, TypeOK, StepHeld
<1>3. Len(env') = Len(env)
  BY <1>1, <1>2
<1>4. \A i \in 1 .. Len(env) : Done(env[i]) /\ env'[i] = Promoted(env[i])
  <2> SUFFICES ASSUME NEW i \in 1 .. Len(env)
               PROVE  Done(env[i]) /\ env'[i] = Promoted(env[i])
    OBVIOUS
  <2>1. CASE i > since
    BY <2>1, <1>1, <1>2 DEF New
  <2>2. CASE ~ i > since
    <3>1. env[i][1] = P
      BY <2>2, <1>2
    <3> QED
      BY <2>2, <3>1, <1>1 DEF Done, Promoted
  <2> QED
    BY <2>1, <2>2
<1>5. \A i, j \in 1 .. Len(env) : Promoted(env[i]) = Promoted(env[j]) => i = j
  BY <1>1, <1>4, PromotedDiffer
<1>6. /\ \A i \in 1 .. Len(env) : env[i] \in DOMAIN index /\ index[env[i]] = i
      /\ \A h \in DOMAIN index : \E i \in 1 .. Len(env) : env[i] = h
  BY DEF Indexed
<1>7. New \subseteq 1 .. Len(env)
  BY <1>2 DEF New
<1>8. /\ DOMAIN index' = (DOMAIN index \ {env[i] : i \in New}) \cup Moved
      /\ \A h \in DOMAIN index' : index'[h] = IF h \in Moved THEN SlotOf(h) ELSE index[h]
  BY <1>1 DEF Reindexed
<1>9. ASSUME NEW i \in 1 .. Len(env)
      PROVE  env'[i] \in DOMAIN index' /\ index'[env'[i]] = i
  <2>1. CASE i \in New
    <3>1. env'[i] \in Moved
      BY <2>1, <1>4 DEF Moved
    <3>2. SlotOf(env'[i]) \in New /\ Promoted(env[SlotOf(env'[i])]) = env'[i]
      BY <3>1, <1>2, SlotIs
    <3>3. SlotOf(env'[i]) = i
      BY <3>2, <1>4, <1>5, <1>7
    <3> QED
      BY <3>1, <3>3, <1>8
  <2>2. CASE i \notin New
    <3>1. env'[i] = env[i] /\ ~ i > since
      BY <2>2, <1>1, <1>2 DEF New
    <3>2. env[i] \notin {env[j] : j \in New}
      BY <2>2, <1>6, <1>7
    <3>3. env'[i] \notin Moved
      <4> SUFFICES ASSUME NEW j \in New, env'[i] = Promoted(env[j]) PROVE FALSE
        BY DEF Moved
      <4> QED
        BY <2>2, <1>4, <1>5, <1>7
    <3> QED
      BY <3>1, <3>2, <3>3, <1>6, <1>8
  <2> QED
    BY <2>1, <2>2
<1>10. ASSUME NEW h \in DOMAIN index'
       PROVE  \E i \in 1 .. Len(env) : env'[i] = h
  <2>1. CASE h \in Moved
    BY <2>1, <1>4, <1>7 DEF Moved
  <2>2. CASE h \notin Moved
    <3>1. h \in DOMAIN index /\ h \notin {env[i] : i \in New}
      BY <2>2, <1>8
    <3>2. PICK i \in 1 .. Len(env) : env[i] = h
      BY <3>1, <1>6
    <3>3. i \notin New
      BY <3>1, <3>2
    <3>4. ~ i > since
      BY <3>3, <1>2 DEF New
    <3> QED
      BY <3>2, <3>4, <1>1
  <2> QED
    BY <2>1, <2>2
<1> QED
  BY <1>3, <1>9, <1>10 DEF Indexed

LEMMA InstallIndexed ==
  ASSUME IndexInv, NEW h \in ValidHandles, Install(h)
  PROVE  Indexed'
<1> USE DEF IndexInv
<1>1. /\ h \notin DOMAIN index
      /\ env' = Append(env, h)
      /\ index' = [g \in DOMAIN index \cup {h} |-> IF g = h THEN Len(env) + 1 ELSE index[g]]
  BY DEF Install
<1>2. h \in Handle /\ env \in Seq(Handle)
  BY ValidIsHandle DEF Inv, TypeOK
<1>3. /\ Len(env) \in Nat /\ Len(env') = Len(env) + 1
      /\ \A i \in 1 .. Len(env) : env'[i] = env[i]
      /\ env'[Len(env) + 1] = h
  BY <1>1, <1>2
<1>4. /\ \A i \in 1 .. Len(env) : env[i] \in DOMAIN index /\ index[env[i]] = i
      /\ \A g \in DOMAIN index : \E i \in 1 .. Len(env) : env[i] = g
  BY DEF Indexed
<1>5. ASSUME NEW i \in 1 .. Len(env') PROVE env'[i] \in DOMAIN index' /\ index'[env'[i]] = i
  <2>1. CASE i \in 1 .. Len(env)
    BY <2>1, <1>1, <1>3, <1>4
  <2>2. CASE i = Len(env) + 1
    BY <2>2, <1>1, <1>3
  <2> QED
    BY <2>1, <2>2, <1>3
<1>6. ASSUME NEW g \in DOMAIN index' PROVE \E i \in 1 .. Len(env') : env'[i] = g
  <2>1. CASE g = h
    BY <2>1, <1>3
  <2>2. CASE g # h
    <3>1. g \in DOMAIN index
      BY <2>2, <1>1
    <3>2. PICK i \in 1 .. Len(env) : env[i] = g
      BY <3>1, <1>4
    <3> QED
      BY <3>2, <1>3
  <2> QED
    BY <2>1, <2>2
<1> QED
  BY <1>5, <1>6 DEF Indexed

(* A promotion begins over the rows there are: hash-consing sets them      *)
(* apart from the scratch rows.                                            *)
LEMMA ReturnsApart ==
  ASSUME IndexInv, NEW v \in ValidHandles \cup {NoHandle}, StepReturns(v)
  PROVE  Apart(Len(PersRows))' /\ Len(PersRows') \in 0 .. Len(PersRows')
<1> USE DEF IndexInv
<1>1. /\ UNCHANGED <<own, tier, scr, env>> /\ phase = "install"
  BY DEF StepReturns, tables, kept
<1>2. PersRows' = PersRows /\ Len(PersRows) \in Nat
  BY <1>1 DEF PersRows, Inv, TypeOK
<1>3. \A i \in 1 .. Len(PersRows), j \in 1 .. Len(scr) : PersRows[i] # scr[j]
  BY <1>1 DEF Inv, HashConsed
<1>4. \A j \in 1 .. Len(scr) : \A h \in Kids(scr[j]) : h[1] = P => h[2] <= Len(PersRows)
  BY HandleShape DEF Inv, ScrClosed
<1>5. \A i \in 1 .. Len(env) : env[i][1] = P => env[i][2] <= Len(PersRows)
  BY HandleShape DEF Inv, NoneDangles, Valid
<1>6. Apart(Len(PersRows))'
  BY <1>1, <1>2, <1>3, <1>4, <1>5 DEF Apart, Kids
<1> QED
  BY <1>2, <1>6

LEMMA PromoteApart ==
  ASSUME IndexInv, NEW i \in 1 .. Len(scr), PromoteNode(i)
  PROVE  PromotedApart'
<1> USE DEF IndexInv
<1>1. /\ UNCHANGED <<scr, env, phase>> /\ phase = "promote" /\ tier.frozen
      /\ <<S, i>> \notin DOMAIN pmemo
  BY DEF PromoteNode, kept, Inv, Bracketed, Done
<1>2. PICK b \in 0 .. Len(PersRows) : Apart(b)
  BY <1>1 DEF PromotedApart
<1>3. PersRows = tier.rows /\ tier.rows \in Seq(Node) /\ Len(PersRows) \in Nat
  BY <1>1 DEF PersRows, Inv, TypeOK
<1>4. PICK k : /\ \/ k \in 1 .. Len(PersRows) /\ UNCHANGED tier
                  \/ /\ k = Len(PersRows) + 1
                     /\ tier' = [tier EXCEPT !.rows = Append(@, PromotedNode(scr[i]))]
               /\ Memoise(<<S, i>>, <<P, k>>)
  BY <1>3 DEF PromoteNode
<1>5. /\ DOMAIN pmemo' = DOMAIN pmemo \cup {<<S, i>>}
      /\ pmemo'[<<S, i>>] = <<P, k>>
      /\ \A h \in DOMAIN pmemo : pmemo'[h] = pmemo[h]
  BY <1>1, <1>4 DEF Memoise
<1>6. /\ Len(PersRows') \in Nat /\ Len(PersRows) <= Len(PersRows')
      /\ \A j \in 1 .. Len(PersRows) : PersRows'[j] = PersRows[j]
      /\ Len(PersRows') = Len(PersRows) \/ (Len(PersRows') = Len(PersRows) + 1 /\ k = Len(PersRows'))
  <2>1. CASE UNCHANGED tier
    BY <2>1, <1>1, <1>3 DEF PersRows
  <2>2. CASE /\ k = Len(PersRows) + 1
             /\ tier' = [tier EXCEPT !.rows = Append(@, PromotedNode(scr[i]))]
    <3>1. tier'.frozen /\ tier'.rows = Append(tier.rows, PromotedNode(scr[i]))
      BY <2>2, <1>1 DEF Inv, TypeOK
    <3>2. PersRows' = Append(PersRows, PromotedNode(scr[i]))
      BY <3>1, <1>3 DEF PersRows
    <3>3. /\ Len(PersRows') = Len(PersRows) + 1
          /\ \A j \in 1 .. Len(PersRows) : PersRows'[j] = PersRows[j]
      <4> DEFINE t == PersRows
                 m == PromotedNode(scr[i])
      <4>1. t \in Seq(Node) /\ PersRows' = Append(t, m)
        BY <1>3, <3>2
      <4> HIDE DEF t, m
      <4>2. Len(Append(t, m)) = Len(t) + 1 /\ \A j \in 1 .. Len(t) : Append(t, m)[j] = t[j]
        BY <4>1
      <4> QED
        BY <4>1, <4>2 DEF t
    <3> QED
      BY <2>2, <3>3, <1>3
  <2> QED
    BY <1>4, <2>1, <2>2
<1>7. Apart(b)'
  <2>1. \A j \in 1 .. b, l \in 1 .. Len(scr') : PersRows'[j] # scr'[l]
    BY <1>1, <1>2, <1>3, <1>6 DEF Apart
  <2>2. \A j \in 1 .. Len(scr') : \A h \in Kids(scr'[j]) : h[1] = P => h[2] <= b
    BY <1>1, <1>2 DEF Apart
  <2>3. \A j \in 1 .. Len(env') : env'[j][1] = P => env'[j][2] <= b
    BY <1>1, <1>2 DEF Apart
  <2>4. \A j \in b + 1 .. Len(PersRows') : \E h \in DOMAIN pmemo' : pmemo'[h] = <<P, j>>
    <3> SUFFICES ASSUME NEW j \in b + 1 .. Len(PersRows')
                 PROVE  \E h \in DOMAIN pmemo' : pmemo'[h] = <<P, j>>
      OBVIOUS
    <3>1. CASE j <= Len(PersRows)
      <4>1. PICK h \in DOMAIN pmemo : pmemo[h] = <<P, j>>
        BY <3>1, <1>2, <1>3 DEF Apart
      <4> QED
        BY <4>1, <1>5
    <3>2. CASE ~ j <= Len(PersRows)
      <4>1. j = k
        BY <3>2, <1>2, <1>3, <1>6
      <4> QED
        BY <4>1, <1>5
    <3> QED
      BY <3>1, <3>2
  <2> QED
    BY <2>1, <2>2, <2>3, <2>4 DEF Apart, Kids
<1>8. b \in 0 .. Len(PersRows')
  BY <1>3, <1>6
<1> QED
  BY <1>7, <1>8 DEF PromotedApart

(* A row that is the copy of a live one stands for the same.               *)
LEMMA CopyMeans ==
  ASSUME Inv, NEW x \in ValidHandles, NEW y \in ValidHandles,
         View(y) = PromotedNode(View(x)), \A h \in Kids(View(x)) : Done(h)
  PROVE  Term[y] = Term[x]
<1>1. /\ \A i \in DOMAIN View(x).kids :
           View(x).kids[i] \in ValidHandles /\ View(x).kids[i] \in Kids(View(x))
      /\ View(x) \in Node /\ RowOf[x] = View(x) /\ RowOf[y] = View(y)
  <2>1. /\ View(x) \in Node /\ RowOf[x] = View(x) /\ RowOf[y] = View(y)
        /\ Ranked(RowOf, ValidHandles, RankOf, LastRank)
    BY RowsRanked
  <2>2. View(x).kids \in Seq(Handle)
    BY <2>1 DEF Node
  <2> QED
    BY <2>1, <2>2 DEF Ranked, Kids
<1>2. \A i \in DOMAIN View(x).kids : Term[Promoted(View(x).kids[i])] = Term[View(x).kids[i]]
  BY <1>1, PromotedMeans
<1>3. /\ PromotedNode(View(x)).sym = View(x).sym
      /\ PromotedNode(View(x)).kids = [i \in DOMAIN View(x).kids |-> Promoted(View(x).kids[i])]
  BY <1>1 DEF PromotedNode, Node
<1>4. TreeOver(Term, PromotedNode(View(x))) = TreeOver(Term, View(x))
  BY <1>2, <1>3 DEF TreeOver
<1>5. Term[x] = TreeOver(Term, View(x)) /\ Term[y] = TreeOver(Term, View(y))
  BY <1>1, TermTrees DEF Trees
<1> QED
  BY <1>4, <1>5

(* A scratch row's copy is not among the rows it would be looked for in:   *)
(* an old one would be equal to it, a new one is another's copy.           *)
LEMMA PromoteNew ==
  ASSUME IndexInv, NEW i \in 1 .. Len(scr), PromoteNode(i)
  PROVE  PersRows' = Append(PersRows, PromotedNode(scr[i]))
<1> USE DEF IndexInv
<1> DEFINE x == <<S, i>>
           m == PromotedNode(scr[i])
<1>1. /\ phase = "promote" /\ tier.frozen /\ on /\ ~ Done(x)
      /\ \A h \in Kids(scr[i]) : Done(h)
      /\ \/ \E j \in 1 .. Len(tier.rows) : tier.rows[j] = m
         \/ tier' = [tier EXCEPT !.rows = Append(@, m)]
  BY DEF PromoteNode, Inv, Bracketed
<1>2. PersRows = tier.rows /\ tier \in [frozen : BOOLEAN, rows : Seq(Node)]
  BY <1>1 DEF PersRows, Inv, TypeOK
<1>3. PICK b \in 0 .. Len(PersRows) : Apart(b)
  BY <1>1 DEF PromotedApart
<1>4. x \in ValidHandles /\ x \in OldHandles(b) /\ View(x) = scr[i]
  BY <1>1, HandleShape DEF ValidHandles, OldHandles, View
<1>5. ASSUME NEW j \in 1 .. Len(PersRows), PersRows[j] = m PROVE FALSE
  <2> DEFINE y == <<P, j>>
  <2>1. y \in ValidHandles /\ View(y) = m
    BY <1>5 DEF ValidHandles, View
  <2>2. Term[y] = Term[x]
    BY <1>1, <1>4, <2>1, CopyMeans
  <2>3. CASE j <= b
    <3>1. y \in OldHandles(b)
      BY <2>1, <2>3 DEF OldHandles
    <3>2. x = y
      BY <1>3, <1>4, <2>2, <3>1, OldDiffer
    <3> QED
      BY <3>2, HandleShape
  <2>4. CASE ~ j <= b
    <3>1. PICK h \in DOMAIN pmemo : pmemo[h] = y
      BY <1>3, <2>4 DEF Apart
    <3>2. h \in ScrHandle /\ Valid(h)
      BY DEF Inv, TypeOK, Copied
    <3>3. h[1] = S /\ h \in ValidHandles
      BY <3>2, HandleShape, ValidIff DEF Inv, Handle
    <3>4. Promoted(h) = y /\ Done(h) /\ h \in OldHandles(b)
      BY <3>1, <3>3, HandleShape DEF Promoted, Done, OldHandles
    <3>5. Term[h] = Term[x]
      BY <3>3, <3>4, <2>2, PromotedMeans
    <3>6. h = x
      BY <1>3, <1>4, <3>4, <3>5, OldDiffer
    <3> QED
      BY <3>4, <3>6, <1>1
  <2> QED
    BY <2>3, <2>4
<1>6. tier' = [tier EXCEPT !.rows = Append(@, m)]
  BY <1>1, <1>2, <1>5
<1> QED
  BY <1>1, <1>2, <1>6 DEF PersRows

LEMMA IndexStep == IndexInv /\ [Next]_vars => IndexInv'
<1> SUFFICES ASSUME IndexInv, [Next]_vars PROVE IndexInv'
  OBVIOUS
<1> USE DEF IndexInv
<1>1. Inv'
  BY NextInv
<1>2. CASE \E h \in ValidHandles : Install(h)
  <2>1. PICK h \in ValidHandles : Install(h)
    BY <1>2
  <2>2. Indexed'
    BY <2>1, InstallIndexed
  <2>3. phase' # "promote"
    BY <2>1 DEF Install
  <2> QED
    BY <1>1, <2>2, <2>3 DEF PromotedApart
<1>3. CASE CloseBracket
  <2>1. Indexed' /\ phase' # "promote"
    BY <1>3, CloseIndexed DEF CloseBracket
  <2> QED
    BY <1>1, <2>1 DEF PromotedApart
<1>4. CASE StepFails \/ OpenFails
  <2>1. env' = <<>> /\ DOMAIN index' = {} /\ phase' # "promote"
    BY <1>4 DEF StepFails, OpenFails, NoRows
  <2>2. Indexed'
    BY <2>1 DEF Indexed
  <2> QED
    BY <1>1, <2>1, <2>2 DEF PromotedApart
<1>5. CASE \E v \in ValidHandles \cup {NoHandle} : StepReturns(v)
  <2>1. PICK v \in ValidHandles \cup {NoHandle} : StepReturns(v)
    BY <1>5
  <2>2. Indexed'
    BY <2>1 DEF StepReturns, kept, Indexed
  <2>3. PromotedApart'
    BY <2>1, ReturnsApart DEF PromotedApart
  <2> QED
    BY <1>1, <2>2, <2>3
<1>6. CASE \E i \in 1 .. Len(scr) : PromoteNode(i)
  <2>1. PICK i \in 1 .. Len(scr) : PromoteNode(i)
    BY <1>6
  <2>2. Indexed'
    BY <2>1 DEF PromoteNode, kept, Indexed
  <2> QED
    BY <1>1, <2>1, <2>2, PromoteApart
<1>7. CASE \/ \E n \in NodesOver(ValidHandles) : Intern(n)
           \/ \E h \in ValidHandles : FillCache(h) \/ FillMemo(h)
           \/ OpenBracket \/ FreezeTier \/ EnterRecord \/ LeaveRecord \/ ThawTier
  <2>1. UNCHANGED <<env, index>> /\ phase' # "promote"
    BY <1>7 DEF Intern, FillCache, FillMemo, OpenBracket, FreezeTier, EnterRecord, LeaveRecord,
                ThawTier, kept
  <2>2. Indexed'
    BY <2>1 DEF Indexed
  <2> QED
    BY <1>1, <2>1, <2>2 DEF PromotedApart
<1>8. CASE UNCHANGED vars
  <2>1. UNCHANGED <<own, tier, scr, env, index, pmemo, phase>>
    BY <1>8 DEF vars
  <2>2. Indexed' /\ PromotedApart'
    BY SMTT(30), <2>1 DEF Indexed, PromotedApart, Apart, PersRows
  <2> QED
    BY <1>1, <2>2
<1> QED
  BY <1>2, <1>3, <1>4, <1>5, <1>6, <1>7, <1>8 DEF Next

-----------------------------------------------------------------------------
(* The index has a row for each constant, under the handle it has now, and *)
(* no other, and a promotion keeps apart what it found.                    *)
THEOREM IndexIsKept == Spec => []IndexInv
<1>1. Init => IndexInv
  <2>1. Init => Indexed /\ PromotedApart
    BY DEF Init, NoRows, Indexed, PromotedApart
  <2> QED
    BY <2>1, InitInv DEF IndexInv
<1> QED
  BY <1>1, IndexStep, PTL DEF Spec

(* No row is lost, doubled or left under a scratch name when a promotion   *)
(* moves names, and a handle is found exactly if it stands for the name of *)
(* an installed constant.                                                  *)
THEOREM IndexFollowsNames == Spec => []IndexFollows
<1>1. IndexInv => IndexFollows
  <2> SUFFICES ASSUME IndexInv PROVE IndexFollows
    OBVIOUS
  <2>1. Indexed
    BY DEF IndexInv
  <2>2. ASSUME phase # "promote", NEW h \in ValidHandles
        PROVE  h \in DOMAIN index <=> \E i \in 1 .. Len(env) : TermOf(env[i]) = TermOf(h)
    <3>1. \A i \in 1 .. Len(env) : env[i] \in ValidHandles
      BY HeldLive DEF IndexInv
    <3>2. \A i \in 1 .. Len(env) : TermOf(env[i]) = TermOf(h) => env[i] = h
      BY <2>2, <3>1, TermsDiffer DEF TermOf, IndexInv
    <3> QED
      BY <3>2, <2>1 DEF Indexed
  <2> QED
    BY <2>1, <2>2 DEF IndexFollows
<1> QED
  BY <1>1, IndexIsKept, PTL

(* What is promoted is new to the persistent tier: the probe of PersTier's *)
(* intern never meets a row already there, so each promotion appends.      *)
THEOREM PromotionAppends ==
  Spec => [][\A i \in 1 .. Len(scr) :
               PromoteNode(i) => PersRows' = Append(PersRows, PromotedNode(scr[i]))]_vars
<1>1. IndexInv /\ [Next]_vars =>
        [\A i \in 1 .. Len(scr) :
           PromoteNode(i) => PersRows' = Append(PersRows, PromotedNode(scr[i]))]_vars
  <2> SUFFICES ASSUME IndexInv, NEW i \in 1 .. Len(scr), PromoteNode(i)
               PROVE  PersRows' = Append(PersRows, PromotedNode(scr[i]))
    OBVIOUS
  <2> QED
    BY PromoteNew
<1> QED
  BY <1>1, IndexIsKept, PTL DEF Spec

=============================================================================
