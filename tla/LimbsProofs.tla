---------------------------- MODULE LimbsProofs ----------------------------
(***************************************************************************)
(* Every operation of nat.rs is exact, for words of every size.  In order: *)
(* recursions over an interval and over Nat; powers of two, weights and    *)
(* the value of the low limbs; normal form and order; carries and borrows  *)
(* as equations limb by limb that a ripple sums up; bits, and or-ing words *)
(* with no bit in common; shifts, products, and the division bit by bit;   *)
(* recursions whose argument shrinks; powers, greatest common divisors and *)
(* the bitwise operations; and the registers.                              *)
(***************************************************************************)
EXTENDS Limbs, TLAPS, LeastNumber, FiniteSetTheorems

\* Induction over Nat, for a set: what holds 0 and every successor holds
\* every number.
LEMMA UpToNat ==
  ASSUME NEW T, 0 \in T, \A i \in Nat : i \in T => i + 1 \in T
  PROVE  Nat \subseteq T
<1> SUFFICES ASSUME NEW n \in Nat PROVE n \in T
  OBVIOUS
<1>1. \A i \in 1 .. n : i - 1 \in T => i \in T
  <2> TAKE i \in 1 .. n
  <2>1. i - 1 \in Nat /\ (i - 1) + 1 = i
    OBVIOUS
  <2> QED
    BY <2>1
<1>2. \A i \in 0 .. n : i \in T
  BY <1>1, UpTo
<1> QED
  BY <1>2

Steps(D, Q) == [D -> [Q -> Q]]

Solves(g, n, Q, q, s) ==
  /\ g \in [0 .. n -> Q]
  /\ g[0] = q
  /\ \A i \in 1 .. n : g[i] = s[i][g[i - 1]]

\* A recursion of n rounds has a solution: one for fewer rounds, and one
\* round more.
LEMMA SolutionExists ==
  ASSUME NEW Q, NEW q \in Q, NEW n \in Nat, NEW s \in Steps(1 .. n, Q)
  PROVE  \E g : Solves(g, n, Q, q, s)
<1> DEFINE T == {k \in 0 .. n : \E g : Solves(g, k, Q, q, s)}
<1>1. 0 \in T
  <2> DEFINE g == [i \in 0 .. 0 |-> q]
  <2>1. Solves(g, 0, Q, q, s)
    BY DEF Solves
  <2> QED
    BY <2>1
<1>2. ASSUME NEW k \in 1 .. n, k - 1 \in T PROVE k \in T
  <2>1. PICK g : Solves(g, k - 1, Q, q, s)
    BY <1>2
  <2> DEFINE h == [i \in 0 .. k |-> IF i = k THEN s[k][g[k - 1]] ELSE g[i]]
  <2>2. g \in [0 .. k - 1 -> Q] /\ g[k - 1] \in Q
    BY <2>1 DEF Solves
  <2>3. s[k][g[k - 1]] \in Q
    BY <2>2 DEF Steps
  <2>4. h \in [0 .. k -> Q]
    BY <2>2, <2>3
  <2>5. h[0] = q
    BY <2>1 DEF Solves
  <2>6. ASSUME NEW i \in 1 .. k PROVE h[i] = s[i][h[i - 1]]
    <3>1. h[i - 1] = g[i - 1]
      OBVIOUS
    <3>2. CASE i = k
      <4>1. h[k] = s[k][g[k - 1]]
        OBVIOUS
      <4> HIDE DEF h
      <4> QED
        BY <4>1, <3>1, <3>2
    <3>3. CASE i # k
      <4>1. i \in 1 .. k - 1
        BY <3>3
      <4>2. h[i] = g[i]
        BY <3>3
      <4> QED
        BY <4>1, <4>2, <3>1, <2>1 DEF Solves
    <3> QED
      BY <3>2, <3>3
  <2>7. Solves(h, k, Q, q, s)
    BY <2>4, <2>5, <2>6 DEF Solves
  <2>8. k \in 0 .. n
    OBVIOUS
  <2> HIDE DEF h
  <2> QED
    BY <2>7, <2>8
<1>3. n \in T
  <2> HIDE DEF T
  <2> QED
    BY <1>1, <1>2, UpTo
<1> QED
  BY <1>3

\* Two solutions agree where both are defined: their first difference would
\* contradict the round before.
LEMMA SolutionsAgree ==
  ASSUME NEW n \in Nat, NEW Q, NEW q, NEW s, NEW g, NEW m \in Nat, NEW h,
         Solves(g, n, Q, q, s), Solves(h, m, Q, q, s), m <= n
  PROVE  \A i \in 0 .. m : h[i] = g[i]
<1> DEFINE T == {i \in 0 .. m : h[i] = g[i]}
<1>1. 0 \in T
  BY DEF Solves
<1>2. ASSUME NEW i \in 1 .. m, i - 1 \in T PROVE i \in T
  <2>1. h[i - 1] = g[i - 1] /\ i \in 1 .. n
    BY <1>2
  <2>2. h[i] = g[i]
    BY <2>1 DEF Solves
  <2> QED
    BY <2>2
<1>3. \A i \in 0 .. m : i \in T
  <2> HIDE DEF T
  <2> QED
    BY <1>1, <1>2, UpTo
<1> QED
  BY <1>3

\* What a loop threads: the start, and each step applied to the value
\* before.
LEMMA ThreadedIs ==
  ASSUME NEW Q, NEW q \in Q, NEW n \in Nat, NEW s \in Steps(1 .. n, Q)
  PROVE  /\ Threaded(n, q, s) \in [0 .. n -> Q]
         /\ Threaded(n, q, s)[0] = q
         /\ \A i \in 1 .. n : Threaded(n, q, s)[i] = s[i][Threaded(n, q, s)[i - 1]]
<1> DEFINE eq(f) == f = [i \in 0 .. n |-> IF i = 0 THEN q ELSE s[i][f[i - 1]]]
           h == CHOOSE f : eq(f)
<1>1. \E g : eq(g)
  <2>1. PICK g : Solves(g, n, Q, q, s)
    BY SolutionExists
  <2>2. eq(g)
    BY <2>1 DEF Solves
  <2> QED
    BY <2>2
<1>2. eq(h)
  <2> HIDE DEF eq
  <2> QED
    BY <1>1
<1>3. Threaded(n, q, s) = h
  BY DEF Threaded
<1> HIDE DEF h
<1>4. h = [i \in 0 .. n |-> h[i]] /\ h[0] = q /\ \A i \in 1 .. n : h[i] = s[i][h[i - 1]]
  BY <1>2
<1> DEFINE T == {i \in 0 .. n : h[i] \in Q}
<1>5. 0 \in T
  BY <1>4
<1>6. ASSUME NEW i \in 1 .. n, i - 1 \in T PROVE i \in T
  <2>1. h[i - 1] \in Q
    BY <1>6
  <2>2. s[i] \in [Q -> Q]
    BY DEF Steps
  <2>3. s[i][h[i - 1]] \in Q
    BY ONLY <2>1, <2>2
  <2>4. h[i] = s[i][h[i - 1]]
    BY <1>4
  <2>5. h[i] \in Q
    BY ONLY <2>3, <2>4
  <2> QED
    BY <2>5
<1>7. \A i \in 0 .. n : i \in T
  <2> HIDE DEF T
  <2> QED
    BY <1>5, <1>6, UpTo
<1>8. h \in [0 .. n -> Q]
  BY <1>4, <1>7
<1> QED
  BY <1>3, <1>4, <1>8

\* A recursion over Nat has a solution, made of those of all its initial
\* parts.
LEMMA RecNat ==
  ASSUME NEW Q, NEW q \in Q, NEW s \in Steps(Nat \ {0}, Q)
  PROVE  \E g \in [Nat -> Q] : g[0] = q /\ \A i \in Nat \ {0} : g[i] = s[i][g[i - 1]]
<1>1. ASSUME NEW n \in Nat PROVE \E g : Solves(g, n, Q, q, s)
  <2> DEFINE t == [i \in 1 .. n |-> s[i]]
  <2>1. t \in Steps(1 .. n, Q)
    BY DEF Steps
  <2>2. PICK g : Solves(g, n, Q, q, t)
    <3> HIDE DEF t
    <3> QED
      BY <2>1, SolutionExists
  <2>3. Solves(g, n, Q, q, s)
    BY <2>2 DEF Solves
  <2> QED
    BY <2>3
<1> DEFINE G(n) == CHOOSE g : Solves(g, n, Q, q, s)
<1>2. \A n \in Nat : Solves(G(n), n, Q, q, s)
  BY <1>1
<1> HIDE DEF G
<1> DEFINE f == [n \in Nat |-> G(n)[n]]
<1>3. f \in [Nat -> Q]
  BY <1>2 DEF Solves
<1>4. f[0] = q
  BY <1>2 DEF Solves
<1>5. ASSUME NEW i \in Nat \ {0} PROVE f[i] = s[i][f[i - 1]]
  <2>1. i - 1 \in Nat /\ i \in 1 .. i /\ i - 1 \in 0 .. i - 1 /\ i - 1 <= i
    OBVIOUS
  <2>2. Solves(G(i), i, Q, q, s) /\ Solves(G(i - 1), i - 1, Q, q, s)
    BY <1>2, <2>1
  <2>3. G(i - 1)[i - 1] = G(i)[i - 1]
    BY <2>1, <2>2, SolutionsAgree
  <2>4. G(i)[i] = s[i][G(i)[i - 1]]
    BY <2>1, <2>2 DEF Solves
  <2> QED
    BY <2>1, <2>3, <2>4
<1> HIDE DEF f
<1> QED
  BY <1>3, <1>4, <1>5

-----------------------------------------------------------------------------

\* The powers of two satisfy their recursion.
LEMMA Pow2Is ==
  /\ Pow2 \in [Nat -> Nat \ {0}]
  /\ Pow2[0] = 1
  /\ \A i \in Nat \ {0} : Pow2[i] = 2 * Pow2[i - 1]
<1> DEFINE Q == Nat \ {0}
           s == [i \in Nat \ {0} |-> [x \in Q |-> 2 * x]]
<1>1. s \in Steps(Nat \ {0}, Q) /\ 1 \in Q
  BY DEF Steps
<1>2. PICK g \in [Nat -> Q] : g[0] = 1 /\ \A i \in Nat \ {0} : g[i] = s[i][g[i - 1]]
  <2> HIDE DEF s, Q
  <2> QED
    BY <1>1, RecNat
<1>3. \A i \in Nat \ {0} : i - 1 \in Nat /\ g[i] = 2 * g[i - 1]
  <2> SUFFICES ASSUME NEW i \in Nat \ {0} PROVE i - 1 \in Nat /\ g[i] = 2 * g[i - 1]
    OBVIOUS
  <2>1. i - 1 \in Nat
    OBVIOUS
  <2>2. g[i - 1] \in Q
    BY <2>1
  <2>3. s[i][g[i - 1]] = 2 * g[i - 1]
    BY <2>2
  <2> QED
    BY <1>2, <2>1, <2>3
<1>4. g = [i \in Nat |-> IF i = 0 THEN 1 ELSE 2 * g[i - 1]]
  BY <1>2, <1>3
<1>5. Pow2 = [i \in Nat |-> IF i = 0 THEN 1 ELSE 2 * Pow2[i - 1]]
  BY <1>4 DEF Pow2
<1> DEFINE T == {i \in Nat : Pow2[i] \in Nat \ {0}}
<1>6. Nat \subseteq T
  <2>1. 0 \in T
    BY <1>5
  <2>2. ASSUME NEW i \in Nat, i \in T PROVE i + 1 \in T
    <3>1. Pow2[i + 1] = 2 * Pow2[i]
      BY <1>5
    <3> QED
      BY <2>2, <3>1
  <2> HIDE DEF T
  <2> QED
    BY <2>1, <2>2, UpToNat
<1> QED
  BY <1>5, <1>6

(* A word has at least one bit, and there are at least two words.          *)
LEMMA BaseIs ==
  /\ LogBits \in Nat
  /\ WordBits \in Nat \ {0}
  /\ Base \in Nat \ {0, 1}
  /\ MaxWord = Base - 1
  /\ 0 \in Word /\ 1 \in Word
  /\ Pow2[WordBits] = Base
<1>1. LogBits \in Nat
  BY LogBitsAssumption
<1>2. WordBits \in Nat \ {0}
  BY <1>1, Pow2Is DEF WordBits
<1>3. Base = 2 * Pow2[WordBits - 1] /\ Pow2[WordBits - 1] \in Nat \ {0}
  BY <1>2, Pow2Is DEF Base
<1>4. Base \in Nat \ {0, 1}
  BY <1>3
<1>5. MaxWord = Base - 1 /\ Pow2[WordBits] = Base
  BY DEF MaxWord, Base
<1> QED
  BY <1>1, <1>2, <1>4, <1>5 DEF Word

\* A word is a natural number below the base.
LEMMA WordIs == \A x : x \in Word <=> x \in Nat /\ x < Base
BY BaseIs DEF Word

\* The weights of the limbs satisfy their recursion.
LEMMA WeightIs ==
  /\ Weight \in [Nat -> Nat \ {0}]
  /\ Weight[0] = 1
  /\ \A i \in Nat \ {0} : Weight[i] = Base * Weight[i - 1]
<1> DEFINE Q == Nat \ {0}
           s == [i \in Nat \ {0} |-> [x \in Q |-> Base * x]]
<1>0. \A x \in Q : Base * x \in Q
  BY BaseIs
<1>1. s \in Steps(Nat \ {0}, Q) /\ 1 \in Q
  BY <1>0 DEF Steps
<1>2. PICK g \in [Nat -> Q] : g[0] = 1 /\ \A i \in Nat \ {0} : g[i] = s[i][g[i - 1]]
  <2> HIDE DEF s, Q
  <2> QED
    BY <1>1, RecNat
<1>3. \A i \in Nat \ {0} : i - 1 \in Nat /\ g[i] = Base * g[i - 1]
  <2> SUFFICES ASSUME NEW i \in Nat \ {0} PROVE i - 1 \in Nat /\ g[i] = Base * g[i - 1]
    OBVIOUS
  <2>1. i - 1 \in Nat
    OBVIOUS
  <2>2. g[i - 1] \in Q
    BY <2>1
  <2>3. s[i][g[i - 1]] = Base * g[i - 1]
    BY <2>2
  <2> QED
    BY <1>2, <2>1, <2>3
<1>4. g = [i \in Nat |-> IF i = 0 THEN 1 ELSE Base * g[i - 1]]
  BY <1>2, <1>3
<1>5. Weight = [i \in Nat |-> IF i = 0 THEN 1 ELSE Base * Weight[i - 1]]
  BY <1>4 DEF Weight
<1> DEFINE T == {i \in Nat : Weight[i] \in Q}
<1>6. Nat \subseteq T
  <2>1. 0 \in T
    BY <1>5
  <2>2. ASSUME NEW i \in Nat, i \in T PROVE i + 1 \in T
    <3>1. Weight[i + 1] = Base * Weight[i]
      BY <1>5
    <3>2. Weight[i] \in Q
      BY <2>2
    <3>3. Weight[i + 1] \in Q
      BY <1>0, <3>1, <3>2
    <3> QED
      BY <3>3
  <2> HIDE DEF T
  <2> QED
    BY <2>1, <2>2, UpToNat
<1> QED
  BY <1>5, <1>6

\* Every limb of a sequence of words, the absent ones included, is a word.
LEMMA LimbIs ==
  ASSUME NEW v \in Seq(Word), NEW i \in Nat
  PROVE  Limb(v, i) \in Word /\ Limb(v, i) \in Nat
BY WordIs, BaseIs DEF Limb

\* The numbers the low limbs stand for satisfy their recursion.
LEMMA LowIs ==
  ASSUME NEW v \in Seq(Word)
  PROVE  /\ Low(v) \in [Nat -> Nat]
         /\ Low(v)[0] = 0
         /\ \A i \in Nat \ {0} : Low(v)[i] = Low(v)[i - 1] + Limb(v, i - 1) * Weight[i - 1]
<1> DEFINE z(i) == Limb(v, i - 1) * Weight[i - 1]
           Q == Nat
           s == [i \in Nat \ {0} |-> [x \in Q |-> x + z(i)]]
<1>0. ASSUME NEW i \in Nat \ {0} PROVE i - 1 \in Nat /\ z(i) \in Nat
  <2>1. i - 1 \in Nat
    OBVIOUS
  <2>2. Limb(v, i - 1) \in Nat /\ Weight[i - 1] \in Nat
    BY <2>1, LimbIs, WeightIs
  <2>3. \A x, y \in Nat : x * y \in Nat
    OBVIOUS
  <2> QED
    BY <2>1, <2>2, <2>3
<1> DEFINE L == Low(v)
<1>a. (\E g : g = [i \in Nat |-> IF i = 0 THEN 0 ELSE g[i - 1] + z(i)])
        => L = [i \in Nat |-> IF i = 0 THEN 0 ELSE L[i - 1] + z(i)]
  BY DEF Low
<1> HIDE DEF z, L
<1>1. s \in Steps(Nat \ {0}, Q) /\ 0 \in Q
  BY <1>0 DEF Steps
<1>2. PICK g \in [Nat -> Q] : g[0] = 0 /\ \A i \in Nat \ {0} : g[i] = s[i][g[i - 1]]
  <2> HIDE DEF s, Q
  <2> QED
    BY <1>1, RecNat
<1>3. \A i \in Nat \ {0} : i - 1 \in Nat /\ g[i] = g[i - 1] + z(i)
  <2> SUFFICES ASSUME NEW i \in Nat \ {0} PROVE i - 1 \in Nat /\ g[i] = g[i - 1] + z(i)
    OBVIOUS
  <2>1. i - 1 \in Nat
    OBVIOUS
  <2>2. g[i - 1] \in Nat
    BY <2>1
  <2>3. s[i][g[i - 1]] = g[i - 1] + z(i)
    BY <2>2
  <2> QED
    BY <1>2, <2>1, <2>3
<1>4. g = [i \in Nat |-> IF i = 0 THEN 0 ELSE g[i - 1] + z(i)]
  BY <1>2, <1>3
<1>5. L = [i \in Nat |-> IF i = 0 THEN 0 ELSE L[i - 1] + z(i)]
  BY <1>a, <1>4
<1> DEFINE T == {i \in Nat : L[i] \in Nat}
<1>6. Nat \subseteq T
  <2>1. 0 \in T
    BY <1>5
  <2>2. ASSUME NEW i \in Nat, i \in T PROVE i + 1 \in T
    <3>1. i + 1 \in Nat \ {0} /\ (i + 1) - 1 = i
      OBVIOUS
    <3>2. L[i + 1] = L[i] + z(i + 1) /\ L[i] \in Nat /\ z(i + 1) \in Nat
      <4>1. L[i + 1] = L[(i + 1) - 1] + z(i + 1)
        BY <1>5, <3>1
      <4> QED
        BY <1>0, <2>2, <3>1, <4>1
    <3>3. L[i + 1] \in Nat
      <4>1. \A x, y \in Nat : x + y \in Nat
        OBVIOUS
      <4> QED
        BY <3>2, <4>1
    <3> QED
      BY <3>3
  <2> HIDE DEF T
  <2> QED
    BY <2>1, <2>2, UpToNat
<1>7. L \in [Nat -> Nat] /\ L[0] = 0 /\ \A i \in Nat \ {0} : L[i] = L[i - 1] + z(i)
  BY <1>5, <1>6
<1> QED
  BY <1>7 DEF L, z

-----------------------------------------------------------------------------

\* The laws of multiplication that the provers are given as one fact.
LEMMA Times ==
  ASSUME NEW x \in Int, NEW y \in Int, NEW z \in Int
  PROVE  /\ x * y \in Int
         /\ x * y = y * x
         /\ (x * y) * z = x * (y * z)
         /\ (x + y) * z = x * z + y * z
         /\ (x - y) * z = x * z - y * z
         /\ 0 * x = 0 /\ 1 * x = x
         /\ x \in Nat /\ y \in Nat => x * y \in Nat
OBVIOUS

\* Multiplying by a natural number keeps the order.
LEMMA TimesMono ==
  ASSUME NEW x \in Int, NEW y \in Int, NEW z \in Nat, x <= y
  PROVE  x * z <= y * z
<1>1. (y - x) * z \in Nat
  OBVIOUS
<1>2. (y - x) * z = y * z - x * z
  OBVIOUS
<1> QED
  BY <1>1, <1>2

\* One more limb adds that limb at its weight.
LEMMA LowStep ==
  ASSUME NEW v \in Seq(Word), NEW i \in Nat
  PROVE  Low(v)[i + 1] = Low(v)[i] + Limb(v, i) * Weight[i]
<1>1. i + 1 \in Nat \ {0} /\ (i + 1) - 1 = i
  OBVIOUS
<1> QED
  BY <1>1, LowIs

\* Each weight is the base times the one before.
LEMMA WeightStep ==
  ASSUME NEW i \in Nat
  PROVE  Weight[i + 1] = Base * Weight[i]
<1>1. i + 1 \in Nat \ {0} /\ (i + 1) - 1 = i
  OBVIOUS
<1> QED
  BY <1>1, WeightIs

(* A word on top of what is below it stays below the next weight.          *)
LEMMA TopWord ==
  ASSUME NEW x \in Word, NEW l \in Int, NEW w \in Nat, l < w
  PROVE  l + x * w < Base * w
<1>1. x \in Int /\ x <= Base - 1 /\ Base \in Int
  BY WordIs, BaseIs
<1>2. x * w <= (Base - 1) * w
  BY <1>1, TimesMono
<1>3. (Base - 1) * w = Base * w - 1 * w /\ 1 * w = w
  BY <1>1, Times
<1>4. x * w \in Int /\ Base * w \in Int
  BY <1>1
<1> QED
  BY <1>2, <1>3, <1>4

\* The low i limbs stand for less than the weight of the next limb.
LEMMA LowBound ==
  ASSUME NEW v \in Seq(Word)
  PROVE  \A i \in Nat : Low(v)[i] \in Nat /\ Low(v)[i] < Weight[i]
<1> DEFINE T == {i \in Nat : Low(v)[i] \in Nat /\ Low(v)[i] < Weight[i]}
<1>1. 0 \in T
  <2>1. Low(v)[0] = 0 /\ Weight[0] = 1
    BY LowIs, WeightIs
  <2> QED
    BY <2>1
<1>2. ASSUME NEW i \in Nat, i \in T PROVE i + 1 \in T
  <2>1. Low(v)[i] \in Nat /\ Low(v)[i] < Weight[i] /\ Low(v)[i + 1] \in Nat
    BY <1>2, LowIs
  <2>2. Limb(v, i) \in Word /\ Weight[i] \in Nat
    BY LimbIs, WeightIs
  <2>3. Low(v)[i] + Limb(v, i) * Weight[i] < Base * Weight[i]
    BY <2>1, <2>2, TopWord
  <2>4. Low(v)[i + 1] < Weight[i + 1]
    BY <2>3, LowStep, WeightStep
  <2> QED
    BY <2>1, <2>4
<1>3. Nat \subseteq T
  <2> HIDE DEF T
  <2> QED
    BY <1>1, <1>2, UpToNat
<1> QED
  BY <1>3

(* What two sequences agree on below i.                                    *)
LEMMA LowSame ==
  ASSUME NEW u \in Seq(Word), NEW v \in Seq(Word), NEW n \in Nat,
         \A i \in 0 .. n - 1 : Limb(u, i) = Limb(v, i)
  PROVE  \A i \in 0 .. n : Low(u)[i] = Low(v)[i]
<1> DEFINE T == {i \in 0 .. n : Low(u)[i] = Low(v)[i]}
<1>1. 0 \in T
  <2>1. Low(u)[0] = 0 /\ Low(v)[0] = 0
    BY LowIs
  <2> QED
    BY <2>1
<1>2. ASSUME NEW i \in 1 .. n, i - 1 \in T PROVE i \in T
  <2>1. i - 1 \in 0 .. n - 1 /\ i - 1 \in Nat /\ (i - 1) + 1 = i
    OBVIOUS
  <2>2. Low(u)[i - 1] = Low(v)[i - 1] /\ Limb(u, i - 1) = Limb(v, i - 1)
    BY <1>2, <2>1
  <2>3. Low(u)[i] = Low(v)[i]
    BY <2>1, <2>2, LowStep
  <2> QED
    BY <2>3
<1>3. \A i \in 0 .. n : i \in T
  <2> HIDE DEF T
  <2> QED
    BY <1>1, <1>2, UpTo
<1> QED
  BY <1>3

(* Limbs that are 0 add nothing.                                           *)
LEMMA LowZeros ==
  ASSUME NEW v \in Seq(Word), NEW m \in Nat, NEW n \in Nat,
         \A i \in m .. m + n - 1 : Limb(v, i) = 0
  PROVE  \A j \in 0 .. n : Low(v)[m + j] = Low(v)[m]
<1> DEFINE T == {j \in 0 .. n : Low(v)[m + j] = Low(v)[m]}
<1>1. 0 \in T
  OBVIOUS
<1>2. ASSUME NEW j \in 1 .. n, j - 1 \in T PROVE j \in T
  <2>1. m + (j - 1) \in m .. m + n - 1 /\ m + (j - 1) \in Nat /\ (m + (j - 1)) + 1 = m + j
    OBVIOUS
  <2>2. Limb(v, m + (j - 1)) = 0 /\ Low(v)[m + (j - 1)] = Low(v)[m]
    BY <1>2, <2>1
  <2>3. Low(v)[m + j] = Low(v)[m + (j - 1)] + 0 * Weight[m + (j - 1)]
    BY <2>1, <2>2, LowStep
  <2>4. 0 * Weight[m + (j - 1)] = 0 /\ Low(v)[m + (j - 1)] \in Nat
    <3>1. Weight[m + (j - 1)] \in Int
      BY <2>1, WeightIs
    <3>2. Low(v)[m + (j - 1)] \in Nat
      BY <2>1, LowIs
    <3> QED
      BY <3>1, <3>2
  <2>5. Low(v)[m + j] = Low(v)[m]
    BY <2>2, <2>3, <2>4
  <2> QED
    BY <2>5
<1>3. \A j \in 0 .. n : j \in T
  <2> HIDE DEF T
  <2> QED
    BY <1>1, <1>2, UpTo
<1> QED
  BY <1>3

\* Absent limbs are zero, so counting more limbs than there are gives the
\* same value.
LEMMA ValueFrom ==
  ASSUME NEW v \in Seq(Word), NEW n \in Nat, Len(v) <= n
  PROVE  Low(v)[n] = Value(v)
<1>1. Len(v) \in Nat /\ n - Len(v) \in Nat /\ Len(v) + (n - Len(v)) = n
  OBVIOUS
<1>2. \A i \in Len(v) .. Len(v) + (n - Len(v)) - 1 : Limb(v, i) = 0
  BY DEF Limb
<1>3. Low(v)[Len(v) + (n - Len(v))] = Low(v)[Len(v)]
  <2>1. n - Len(v) \in 0 .. n - Len(v)
    BY <1>1
  <2> QED
    BY <1>1, <1>2, <2>1, LowZeros
<1> QED
  BY <1>1, <1>3 DEF Value

-----------------------------------------------------------------------------

\* The greatest element of a non-empty set of bounded numbers exists and is
\* what Max chooses.
LEMMA MaxIs ==
  ASSUME NEW n \in Nat, NEW S, S \subseteq 0 .. n, S # {}
  PROVE  Max(S) \in S /\ \A k \in S : k <= Max(S)
<1> DEFINE T == {n - k : k \in S}
<1>1. T \subseteq Nat /\ T # {}
  OBVIOUS
<1>2. PICK m \in T : \A k \in T : m <= k
  <2> HIDE DEF T
  <2> QED
    BY <1>1, LeastOf
<1>3. PICK x \in S : m = n - x
  OBVIOUS
<1>4. \A k \in S : n - k \in T /\ k \in Int
  OBVIOUS
<1>5. x \in Int /\ \A k \in S : x >= k
  BY <1>2, <1>3, <1>4
<1>6. \E y \in S : \A k \in S : y >= k
  BY <1>5
<1>7. Max(S) \in S /\ \A k \in S : Max(S) >= k
  <2> HIDE DEF T
  <2> QED
    BY <1>6 DEF Max
<1> QED
  BY <1>4, <1>7

\* Max of two numbers.
LEMMA MaxOfTwo ==
  ASSUME NEW x \in Nat, NEW y \in Nat
  PROVE  Max({x, y}) = IF x < y THEN y ELSE x
<1> DEFINE S == {x, y}
<1>1. PICK n \in Nat : S \subseteq 0 .. n
  <2>1. S \subseteq 0 .. x + y /\ x + y \in Nat
    OBVIOUS
  <2> QED
    BY <2>1
<1>2. Max(S) \in S /\ \A k \in S : k <= Max(S)
  <2>1. S # {}
    OBVIOUS
  <2> HIDE DEF S
  <2> QED
    BY <1>1, <2>1, MaxIs
<1> QED
  BY <1>2

\* Min of two numbers.
LEMMA MinOfTwo ==
  ASSUME NEW x \in Nat, NEW y \in Nat
  PROVE  Min({x, y}) = IF x < y THEN x ELSE y
<1> DEFINE z == IF x < y THEN x ELSE y
<1>1. z \in {x, y} /\ \A k \in {x, y} : z <= k
  OBVIOUS
<1>2. \A w \in {x, y} : (\A k \in {x, y} : w <= k) => w = z
  OBVIOUS
<1> QED
  BY <1>1, <1>2 DEF Min

\* sig_len points at the top limb that is not zero: above it every limb is
\* zero.
LEMMA SigLenIs ==
  ASSUME NEW v \in Seq(Word)
  PROVE  /\ SigLen(v) \in 0 .. Len(v)
         /\ SigLen(v) # 0 => v[SigLen(v)] # 0
         /\ \A i \in Nat : SigLen(v) <= i => Limb(v, i) = 0
<1> DEFINE S == {0} \cup {k \in DOMAIN v : v[k] # 0}
<1>1. S \subseteq 0 .. Len(v) /\ S # {} /\ Len(v) \in Nat
  OBVIOUS
<1>2. Max(S) \in S /\ \A k \in S : k <= Max(S)
  <2> HIDE DEF S
  <2> QED
    BY <1>1, MaxIs
<1>3. SigLen(v) = Max(S)
  BY DEF SigLen
<1>4. ASSUME NEW i \in Nat, SigLen(v) <= i PROVE Limb(v, i) = 0
  <2>1. CASE i < Len(v) /\ v[i + 1] # 0
    <3>1. i + 1 \in S
      BY <2>1
    <3>2. i + 1 <= SigLen(v) /\ SigLen(v) \in Int
      BY <1>1, <1>2, <1>3, <3>1
    <3> QED
      BY <3>2, <1>4
  <2>2. CASE ~ (i < Len(v) /\ v[i + 1] # 0)
    BY <2>2 DEF Limb
  <2> QED
    BY <2>1, <2>2
<1>5. SigLen(v) \in S
  BY <1>2, <1>3
<1> QED
  BY <1>1, <1>4, <1>5

\* norm returns the normal form of the same number.
LEMMA NormIs ==
  ASSUME NEW v \in Seq(Word)
  PROVE  Norm(v) \in Number /\ Value(Norm(v)) = Value(v)
<1> DEFINE n == SigLen(v)
           u == [k \in 1 .. n |-> v[k]]
<1>1. n \in 0 .. Len(v) /\ Len(v) \in Nat
  BY SigLenIs
<1> HIDE DEF n
<1>2. u \in Seq(Word) /\ Len(u) = n
  BY <1>1
<1>3. Norm(v) = u
  <2>1. Min({n, Len(v)}) = n
    BY <1>1, MinOfTwo
  <2>2. CopyFrom(v, 0, n, <<>>) = <<>> \o [k \in 1 .. (n - 0) |-> v[0 + k]]
    BY <2>1 DEF CopyFrom
  <2>3. [k \in 1 .. (n - 0) |-> v[0 + k]] = u
    BY <1>1
  <2>4. <<>> \o u = u
    BY <1>2
  <2> HIDE DEF u
  <2> QED
    BY <2>2, <2>3, <2>4 DEF Norm, n
<1>4. Normal(u)
  <2>1. n # 0 => u[n] = v[n] /\ v[n] # 0
    BY <1>1, SigLenIs DEF n
  <2> QED
    BY <1>2, <2>1 DEF Normal
<1>5. \A i \in 0 .. n - 1 : Limb(u, i) = Limb(v, i)
  BY <1>1, <1>2 DEF Limb
<1> HIDE DEF u
<1>6. Low(u)[n] = Low(v)[n]
  BY <1>1, <1>2, <1>5, LowSame
<1>7. Low(v)[n + (Len(v) - n)] = Low(v)[n]
  <2>1. \A i \in n .. n + (Len(v) - n) - 1 : Limb(v, i) = 0
    BY <1>1, SigLenIs DEF n
  <2>2. n \in Nat /\ Len(v) - n \in Nat /\ Len(v) - n \in 0 .. Len(v) - n
    BY <1>1
  <2> QED
    BY <2>1, <2>2, LowZeros
<1>8. n + (Len(v) - n) = Len(v)
  BY <1>1
<1>9. Value(u) = Value(v)
  BY <1>2, <1>6, <1>7, <1>8 DEF Value
<1> QED
  BY <1>2, <1>3, <1>4, <1>9 DEF Number

-----------------------------------------------------------------------------

\* Where one limb is smaller, the limbs up to it stand for less, whatever
\* the ones below are.
LEMMA TopDecides ==
  ASSUME NEW u \in Seq(Word), NEW v \in Seq(Word), NEW k \in Nat,
         Limb(u, k) < Limb(v, k)
  PROVE  Low(u)[k + 1] < Low(v)[k + 1]
<1> DEFINE w == Weight[k]
           x == Limb(u, k)
           y == Limb(v, k)
<1>1. x \in Nat /\ y \in Nat /\ w \in Nat
  BY LimbIs, WeightIs
<1>2. Low(u)[k] \in Nat /\ Low(u)[k] < w /\ Low(v)[k] \in Nat
  BY LowBound
<1>3. Low(u)[k + 1] = Low(u)[k] + x * w /\ Low(v)[k + 1] = Low(v)[k] + y * w
  BY LowStep
<1>4. x + 1 <= y
  BY <1>1
<1> HIDE DEF w, x, y
<1>5. (x + 1) * w <= y * w
  BY <1>1, <1>4, TimesMono
<1> DEFINE p == x * w
           q == y * w
<1>6. p \in Nat /\ q \in Nat /\ p + w <= q
  BY <1>1, <1>5
<1>7. Low(u)[k + 1] = Low(u)[k] + p /\ Low(v)[k + 1] = Low(v)[k] + q
  BY <1>3
<1> HIDE DEF p, q
<1> QED
  BY <1>1, <1>2, <1>6, <1>7

\* Equal limbs on top of smaller ones keep the order.
LEMMA HighSame ==
  ASSUME NEW u \in Seq(Word), NEW v \in Seq(Word), NEW m \in Nat, NEW n \in Nat,
         \A i \in m .. m + n - 1 : Limb(u, i) = Limb(v, i),
         Low(u)[m] < Low(v)[m]
  PROVE  Low(u)[m + n] < Low(v)[m + n]
<1> DEFINE T == {j \in 0 .. n : Low(u)[m + j] < Low(v)[m + j]}
<1>1. 0 \in T
  OBVIOUS
<1>2. ASSUME NEW j \in 1 .. n, j - 1 \in T PROVE j \in T
  <2>1. m + (j - 1) \in m .. m + n - 1 /\ m + (j - 1) \in Nat /\ (m + (j - 1)) + 1 = m + j
    OBVIOUS
  <2> DEFINE k == m + (j - 1)
             z == Limb(u, k) * Weight[k]
  <2>2. Low(u)[m + j] = Low(u)[k] + z /\ Low(v)[m + j] = Low(v)[k] + z
    BY <2>1, LowStep
  <2>3. Low(u)[k] \in Nat /\ Low(v)[k] \in Nat /\ z \in Int
    <3>1. Limb(u, k) \in Nat /\ Weight[k] \in Nat
      BY <2>1, LimbIs, WeightIs
    <3>2. z \in Int
      BY <3>1, Times
    <3> QED
      BY <2>1, <3>2, LowBound
  <2>4. Low(u)[k] < Low(v)[k]
    BY <1>2
  <2> HIDE DEF k, z
  <2>5. Low(u)[m + j] < Low(v)[m + j]
    BY <2>2, <2>3, <2>4
  <2> QED
    BY <2>5
<1>3. \A j \in 0 .. n : j \in T
  <2> HIDE DEF T
  <2> QED
    BY <1>1, <1>2, UpTo
<1> QED
  BY <1>3

\* Of two numbers in normal form the longer one is greater: comparing
\* lengths first is right.
LEMMA LongerIsGreater ==
  ASSUME NEW u \in Number, NEW v \in Number, Len(u) < Len(v)
  PROVE  Value(u) < Value(v)
<1> DEFINE k == Len(v) - 1
<1>1. k \in Nat /\ k + 1 = Len(v) /\ u \in Seq(Word) /\ v \in Seq(Word) /\ Len(u) <= Len(v)
  BY DEF Number
<1>2. Limb(u, k) = 0 /\ Limb(v, k) = v[Len(v)] /\ v[Len(v)] # 0
  BY <1>1 DEF Limb, Number, Normal
<1>3. Limb(v, k) \in Nat
  BY <1>1, LimbIs
<1>4. Low(u)[k + 1] < Low(v)[k + 1]
  BY <1>1, <1>2, <1>3, TopDecides
<1>5. Low(u)[Len(v)] = Value(u)
  BY <1>1, ValueFrom
<1> QED
  BY <1>1, <1>4, <1>5 DEF Value

\* The value of a sequence of words is a natural number.
LEMMA ValueIsNat == ASSUME NEW v \in Seq(Word) PROVE Value(v) \in Nat
BY LowBound DEF Value

\* cmp decides the order of the values, and a value has one normal form
\* only.
LEMMA CmpIs ==
  ASSUME NEW u \in Number, NEW v \in Number
  PROVE  /\ Cmp(u, v) = Order(Value(u), Value(v))
         /\ Value(u) = Value(v) => u = v
<1>1. u \in Seq(Word) /\ v \in Seq(Word) /\ Len(u) \in Nat /\ Len(v) \in Nat
  BY DEF Number
<1>2. Value(u) \in Nat /\ Value(v) \in Nat
  BY <1>1, ValueIsNat
<1>3. CASE Len(u) < Len(v)
  BY <1>1, <1>2, <1>3, LongerIsGreater DEF Cmp, Order
<1>4. CASE Len(v) < Len(u)
  BY <1>1, <1>2, <1>4, LongerIsGreater DEF Cmp, Order
<1>5. CASE Len(u) = Len(v)
  <2> DEFINE D == {k \in DOMAIN u : u[k] # v[k]}
  <2>1. CASE D = {}
    <3>1. u = v
      BY <1>1, <1>5, <2>1
    <3> QED
      BY <1>1, <1>2, <1>5, <2>1, <3>1 DEF Cmp, CmpFrom, Order
  <2>2. CASE D # {}
    <3> DEFINE j == Max(D)
    <3>1. j \in D /\ \A k \in D : k <= j
      <4>1. D \subseteq 0 .. Len(u)
        BY <1>1
      <4> HIDE DEF D
      <4> QED
        BY <1>1, <2>2, <4>1, MaxIs
    <3>2. j \in 1 .. Len(u) /\ u[j] # v[j] /\ \A k \in j + 1 .. Len(u) : u[k] = v[k]
      <4>1. j \in 1 .. Len(u) /\ u[j] # v[j]
        BY <1>1, <3>1
      <4>2. ASSUME NEW k \in j + 1 .. Len(u) PROVE u[k] = v[k]
        <5>1. k \in DOMAIN u /\ ~ (k <= j)
          BY <1>1, <4>1
        <5> QED
          BY <3>1, <5>1
      <4> QED
        BY <4>1, <4>2
    <3>3. Cmp(u, v) = Order(u[j], v[j])
      BY <1>5, <2>2 DEF Cmp, CmpFrom
    <3> HIDE DEF j, D
    <3>4. j - 1 \in Nat /\ (j - 1) + 1 = j /\ j \in Nat /\ Len(u) - j \in Nat /\ j + (Len(u) - j) = Len(u)
      BY <1>1, <3>2
    <3>5. Limb(u, j - 1) = u[j] /\ Limb(v, j - 1) = v[j] /\ u[j] \in Nat /\ v[j] \in Nat
      <4>1. Limb(u, j - 1) = u[j] /\ Limb(v, j - 1) = v[j]
        BY <1>5, <3>2, <3>4 DEF Limb
      <4> QED
        BY <1>1, <3>4, <4>1, LimbIs
    <3>6. \A i \in j .. j + (Len(u) - j) - 1 : Limb(u, i) = Limb(v, i)
      <4> SUFFICES ASSUME NEW i \in j .. Len(u) - 1 PROVE Limb(u, i) = Limb(v, i)
        BY <3>4
      <4>1. i + 1 \in j + 1 .. Len(u) /\ i < Len(u)
        BY <1>1, <3>2
      <4> QED
        BY <1>5, <3>2, <4>1 DEF Limb
    <3>7. CASE u[j] < v[j]
      <4>1. Low(u)[j] < Low(v)[j]
        BY <1>1, <3>4, <3>5, <3>7, TopDecides
      <4>2. Low(u)[Len(u)] < Low(v)[Len(u)]
        BY <1>1, <3>4, <3>6, <4>1, HighSame
      <4>3. Value(u) < Value(v)
        BY <1>5, <4>2 DEF Value
      <4> QED
        BY <1>2, <3>3, <3>5, <3>7, <4>3 DEF Order
    <3>8. CASE v[j] < u[j]
      <4>1. Low(v)[j] < Low(u)[j]
        BY <1>1, <3>4, <3>5, <3>8, TopDecides
      <4>2. Low(v)[Len(u)] < Low(u)[Len(u)]
        BY <1>1, <3>4, <3>6, <4>1, HighSame
      <4>3. Value(v) < Value(u)
        BY <1>5, <4>2 DEF Value
      <4> QED
        BY <1>2, <3>3, <3>5, <3>8, <4>3 DEF Order
    <3> QED
      BY <3>2, <3>5, <3>7, <3>8
  <2> QED
    BY <2>1, <2>2
<1> QED
  BY <1>1, <1>3, <1>4, <1>5

-----------------------------------------------------------------------------
(* A carry that a word operation hands to the next is 0 or 1, and the word *)
(* with the carry is the exact result.                                     *)
LEMMA DivIs ==
  ASSUME NEW d \in Nat \ {0}, NEW x \in Int
  PROVE  \E q \in Int, r \in 0 .. d - 1 : x = d * q + r /\ x \div d = q /\ x % d = r
<1>1. x \div d \in Int /\ x % d \in 0 .. d - 1
  OBVIOUS
<1>2. ASSUME NEW q, q = x \div d, NEW r, r = x % d PROVE x = d * q + r
  <2>1. d \in Int /\ d > 0
    OBVIOUS
  <2> QED
    BY <1>2, <2>1
<1> DEFINE qq == x \div d
           rr == x % d
<1>3. qq \in Int /\ rr \in 0 .. d - 1 /\ x = d * qq + rr /\ x \div d = qq /\ x % d = rr
  BY <1>1, <1>2
<1> HIDE DEF qq, rr
<1> QED
  BY <1>3

\* Wrapping an integer to a word changes it by a multiple of the base.
LEMMA WrapIs ==
  ASSUME NEW x \in Int
  PROVE  Wrap(x) \in Word /\ Wrap(x) \in Nat /\ \E q \in Int : x = Wrap(x) + Base * q
<1>1. Base \in Nat \ {0}
  BY BaseIs
<1>2. PICK q \in Int, r \in 0 .. Base - 1 : x = Base * q + r /\ Wrap(x) = r
  BY <1>1, DivIs DEF Wrap
<1>3. r \in Word /\ r \in Nat
  BY <1>1, WordIs
<1>4. x = r + Base * q
  BY <1>1, <1>2, <1>3
<1> QED
  BY <1>2, <1>3, <1>4

(* What is off by a multiple of the base and within it is off by nothing.  *)
LEMMA NearMultiple ==
  ASSUME NEW x \in Int, NEW q \in Int, x = Base * q
  PROVE  /\ x < Base => q <= 0
         /\ - Base < x => 0 <= q
<1>1. Base \in Nat \ {0}
  BY BaseIs
<1>2. ASSUME 1 <= q PROVE Base <= x
  <2>1. 1 * Base <= q * Base
    BY <1>1, <1>2, TimesMono
  <2> QED
    BY <1>1, <2>1
<1>3. ASSUME q <= -1 PROVE x <= - Base
  <2>1. q * Base <= -1 * Base
    BY <1>1, <1>3, TimesMono
  <2> QED
    BY <1>1, <2>1
<1> QED
  BY <1>1, <1>2, <1>3

\* Wrapping subtracts or adds the base once when the integer leaves the
\* words by less than that.
LEMMA WrapOf ==
  ASSUME NEW x \in Int
  PROVE  /\ x \in 0 .. Base - 1 => Wrap(x) = x
         /\ x \in Base .. 2 * Base - 1 => Wrap(x) = x - Base
         /\ x \in - Base .. -1 => Wrap(x) = x + Base
<1>1. Base \in Nat \ {0}
  BY BaseIs
<1>2. PICK q \in Int : x = Wrap(x) + Base * q
  BY WrapIs
<1>3. Wrap(x) \in Nat /\ Wrap(x) < Base
  BY WrapIs, WordIs
<1>4. \A y \in Int : Base * (q - y) = Base * q - Base * y
  BY <1>1
<1>5. CASE x \in 0 .. Base - 1
  <2>1. x - Wrap(x) = Base * q
    BY <1>1, <1>2, <1>3
  <2>2. q = 0
    BY <1>1, <1>3, <1>5, <2>1, NearMultiple
  <2> QED
    BY <1>1, <1>2, <1>3, <1>5, <2>2
<1>6. CASE x \in Base .. 2 * Base - 1
  <2>1. (x - Base) - Wrap(x) = Base * (q - 1)
    BY <1>1, <1>2, <1>3, <1>4
  <2>2. q - 1 = 0
    BY <1>1, <1>3, <1>6, <2>1, NearMultiple
  <2> QED
    BY <1>1, <1>3, <1>6, <2>1, <2>2
<1>7. CASE x \in - Base .. -1
  <2>1. (x + Base) - Wrap(x) = Base * (q + 1)
    <3>1. Base * (q - (-1)) = Base * q - Base * (-1)
      BY <1>4
    <3> QED
      BY <1>1, <1>2, <1>3, <3>1
  <2>2. q + 1 = 0
    BY <1>1, <1>3, <1>7, <2>1, NearMultiple
  <2> QED
    BY <1>1, <1>3, <1>7, <2>1, <2>2
<1> QED
  BY <1>5, <1>6, <1>7

\* Of the two additions of a limb at most one carries, and the word and the
\* carry make up the sum.
LEMMA CarryIs ==
  ASSUME NEW x \in Word, NEW y \in Word, NEW c \in {0, 1}
  PROVE  /\ CarryOut(x, y, c) \in {0, 1}
         /\ Wrap(Wrap(x + y) + c) \in Word
         /\ Wrap(Wrap(x + y) + c) + Base * CarryOut(x, y, c) = x + y + c
<1>1. x \in Nat /\ x < Base /\ y \in Nat /\ y < Base /\ Base \in Nat \ {0, 1}
  BY WordIs, BaseIs
<1>2. Overflows(x + y) <=> Base <= x + y
  BY <1>1, WordIs DEF Overflows
<1>3. CASE x + y < Base
  <2>1. Wrap(x + y) = x + y
    BY <1>1, <1>3, WrapOf
  <2>2. CASE x + y + c < Base
    <3>1. Wrap(x + y + c) = x + y + c /\ ~ Overflows(x + y + c)
      BY <1>1, <2>2, WrapOf, WordIs DEF Overflows
    <3>2. CarryOut(x, y, c) = 0
      BY <1>1, <1>2, <1>3, <2>1, <3>1 DEF CarryOut
    <3> QED
      BY <1>1, <2>1, <2>2, <3>1, <3>2, WordIs
  <2>3. CASE Base <= x + y + c
    <3>1. Wrap(x + y + c) = x + y + c - Base /\ Overflows(x + y + c)
      BY <1>1, <1>3, <2>3, WrapOf, WordIs DEF Overflows
    <3>2. CarryOut(x, y, c) = 1
      BY <2>1, <3>1 DEF CarryOut
    <3> QED
      BY <1>1, <1>3, <2>1, <2>3, <3>1, <3>2, WordIs
  <2> QED
    BY <1>1, <2>2, <2>3
<1>4. CASE Base <= x + y
  <2>1. Wrap(x + y) = x + y - Base
    BY <1>1, <1>4, WrapOf
  <2>2. Wrap(x + y - Base + c) = x + y - Base + c
    BY <1>1, <1>4, WrapOf
  <2>3. CarryOut(x, y, c) = 1
    BY <1>2, <1>4 DEF CarryOut
  <2> QED
    BY <1>1, <1>4, <2>1, <2>2, <2>3, WordIs
<1> QED
  BY <1>1, <1>3, <1>4

\* Of the two subtractions of a limb at most one borrows, and the word and
\* the borrow make up the difference.
LEMMA BorrowIs ==
  ASSUME NEW x \in Word, NEW y \in Word, NEW c \in {0, 1}
  PROVE  /\ BorrowOut(x, y, c) \in {0, 1}
         /\ Wrap(Wrap(x - y) - c) \in Word
         /\ Wrap(Wrap(x - y) - c) - Base * BorrowOut(x, y, c) = x - y - c
<1>1. x \in Nat /\ x < Base /\ y \in Nat /\ y < Base /\ Base \in Nat \ {0, 1}
  BY WordIs, BaseIs
<1>2. Overflows(x - y) <=> x < y
  BY <1>1, WordIs DEF Overflows
<1>3. CASE y <= x
  <2>1. Wrap(x - y) = x - y
    BY <1>1, <1>3, WrapOf
  <2>2. CASE 0 <= x - y - c
    <3>1. Wrap(x - y - c) = x - y - c /\ ~ Overflows(x - y - c)
      BY <1>1, <2>2, WrapOf, WordIs DEF Overflows
    <3>2. BorrowOut(x, y, c) = 0
      BY <1>1, <1>2, <1>3, <2>1, <3>1 DEF BorrowOut
    <3> QED
      BY <1>1, <2>1, <2>2, <3>1, <3>2, WordIs
  <2>3. CASE x - y - c < 0
    <3>1. Wrap(x - y - c) = x - y - c + Base /\ Overflows(x - y - c)
      BY <1>1, <1>3, <2>3, WrapOf, WordIs DEF Overflows
    <3>2. BorrowOut(x, y, c) = 1
      BY <2>1, <3>1 DEF BorrowOut
    <3> QED
      BY <1>1, <1>3, <2>1, <2>3, <3>1, <3>2, WordIs
  <2> QED
    BY <1>1, <2>2, <2>3
<1>4. CASE x < y
  <2>1. Wrap(x - y) = x - y + Base
    BY <1>1, <1>4, WrapOf
  <2>2. Wrap(x - y + Base - c) = x - y + Base - c
    BY <1>1, <1>4, WrapOf
  <2>3. BorrowOut(x, y, c) = 1
    BY <1>2, <1>4 DEF BorrowOut
  <2> QED
    BY <1>1, <1>4, <2>1, <2>2, <2>3, WordIs
<1> QED
  BY <1>1, <1>3, <1>4

-----------------------------------------------------------------------------

\* A carry pushed on top of the limbs counts at the next weight, and a zero
\* carry is not pushed.
LEMMA TopLimb ==
  ASSUME NEW v \in Seq(Word), NEW c \in Word
  PROVE  /\ v \o LastCarry(c) \in Seq(Word)
         /\ Value(v \o LastCarry(c)) = Value(v) + c * Weight[Len(v)]
<1>1. Len(v) \in Nat /\ Weight[Len(v)] \in Nat /\ Value(v) \in Nat /\ c \in Nat
  BY WeightIs, ValueIsNat, WordIs
<1>2. CASE c = 0
  <2>1. v \o LastCarry(c) = v
    BY <1>2 DEF LastCarry
  <2>2. c * Weight[Len(v)] = 0
    BY <1>1, <1>2
  <2> QED
    BY <1>1, <2>1, <2>2
<1>3. CASE c # 0
  <2> DEFINE u == v \o <<c>>
             n == Len(v)
  <2>1. u = v \o LastCarry(c) /\ u \in Seq(Word) /\ Len(u) = n + 1
    BY <1>3 DEF LastCarry
  <2>2. Limb(u, n) = c /\ \A i \in 0 .. n - 1 : Limb(u, i) = Limb(v, i)
    BY <1>1 DEF Limb
  <2> HIDE DEF u
  <2>3. Low(u)[n] = Low(v)[n]
    <3>1. n \in Nat /\ n \in 0 .. n
      BY <1>1
    <3> QED
      BY <2>1, <2>2, <3>1, LowSame
  <2>4. Low(u)[n + 1] = Low(u)[n] + c * Weight[n]
    BY <1>1, <2>1, <2>2, LowStep
  <2> QED
    BY <2>1, <2>3, <2>4 DEF Value
<1> QED
  BY <1>2, <1>3

\* One limb's equation, multiplied by its weight.
LEMMA CarryStep ==
  ASSUME NEW r \in Int, NEW d \in Int, NEW e \in Int, NEW s \in Int, NEW w \in Int,
         r + d * e = s
  PROVE  r * w + e * (d * w) = s * w
<1>1. (r + d * e) * w = r * w + (d * e) * w
  OBVIOUS
<1>2. (d * e) * w = e * (d * w)
  OBVIOUS
<1>3. (r + d * e) * w = s * w
  OBVIOUS
<1> DEFINE p == r * w
           q == (d * e) * w
<1> QED
  BY <1>1, <1>2, <1>3

(* The sum a carry ripples through.  The i-th limb and the carry out of it *)
(* make what is to be added there and the carry into it: then the limbs    *)
(* and the last carry make the whole sum and the first carry.              *)
Ripples(n, v, carry, z, A) ==
  /\ A[0] = 0
  /\ \A i \in 0 .. n : carry[i] \in Int /\ A[i] \in Int
  /\ \A i \in 0 .. n - 1 :
       /\ z[i] \in Int
       /\ A[i + 1] = A[i] + z[i] * Weight[i]
       /\ Limb(v, i) + Base * carry[i + 1] = z[i] + carry[i]

\* The arithmetic of one round of a carry.
LEMMA RippleSum ==
  ASSUME NEW l \in Int, NEW a \in Int, NEW c \in Int, NEW p1 \in Int, NEW p2 \in Int,
         NEW p3 \in Int, NEW p4 \in Int, p1 + p2 = p3 + p4, l + p4 = a + c
  PROVE  (l + p1) + p2 = (a + p3) + c
OBVIOUS

\* If every limb's equation holds with its carry in and out, the whole sum
\* is exact up to the last carry.
LEMMA Ripple ==
  ASSUME NEW n \in Nat, NEW v \in Seq(Word), NEW carry, NEW z, NEW A,
         Ripples(n, v, carry, z, A)
  PROVE  Low(v)[n] + carry[n] * Weight[n] = A[n] + carry[0]
<1> DEFINE T == {i \in 0 .. n : Low(v)[i] + carry[i] * Weight[i] = A[i] + carry[0]}
<1>1. 0 \in T
  <2>1. Low(v)[0] = 0 /\ Weight[0] = 1 /\ carry[0] \in Int
    BY LowIs, WeightIs DEF Ripples
  <2>2. A[0] = 0
    BY DEF Ripples
  <2> QED
    BY <2>1, <2>2
<1>2. ASSUME NEW k \in 1 .. n, k - 1 \in T PROVE k \in T
  <2> DEFINE i == k - 1
             w == Weight[i]
             r == Limb(v, i)
             c == carry[i]
             e == carry[k]
             y == z[i]
  <2>1. i \in 0 .. n - 1 /\ i \in 0 .. n /\ i \in Nat /\ i + 1 = k
    OBVIOUS
  <2>2. r \in Int /\ c \in Int /\ e \in Int /\ y \in Int /\ r + Base * e = y + c
    <3>1. r \in Int
      BY <2>1, LimbIs
    <3>2. c \in Int /\ e \in Int /\ y \in Int
      BY <2>1 DEF Ripples
    <3>3. Limb(v, i) + Base * carry[i + 1] = z[i] + carry[i]
      BY <2>1 DEF Ripples
    <3>4. r + Base * e = y + c
      BY <2>1, <3>3
    <3> QED
      BY <3>1, <3>2, <3>4
  <2>3. w \in Int /\ Base \in Int /\ Weight[k] = Base * w
    <3>1. w \in Int /\ Base \in Int
      BY <2>1, WeightIs, BaseIs
    <3>2. Weight[i + 1] = Base * w
      BY <2>1, WeightStep
    <3> QED
      BY <2>1, <3>1, <3>2
  <2>4. Low(v)[k] = Low(v)[i] + r * w /\ A[k] = A[i] + y * w
    BY <2>1, LowStep DEF Ripples
  <2>5. Low(v)[i] + c * w = A[i] + carry[0]
    BY <1>2
  <2>6. Low(v)[i] \in Int /\ A[i] \in Int /\ carry[0] \in Int
    BY <2>1, LowBound DEF Ripples
  <2> HIDE DEF i, w, r, c, e, y
  <2>7. r * w + e * (Base * w) = (y + c) * w
    BY <2>2, <2>3, CarryStep
  <2>8. (y + c) * w = y * w + c * w
    BY <2>2, <2>3
  <2> DEFINE p1 == r * w
             p2 == e * (Base * w)
             p3 == y * w
             p4 == c * w
             p5 == e * Weight[k]
             l == Low(v)[i]
             a == A[i]
             c0 == carry[0]
  <2>9. p1 \in Int /\ p2 \in Int /\ p3 \in Int /\ p4 \in Int /\ p5 = p2
    BY <2>2, <2>3
  <2>10. /\ p1 + p2 = p3 + p4
         /\ Low(v)[k] = l + p1 /\ A[k] = a + p3
         /\ l + p4 = a + c0 /\ l \in Int /\ a \in Int /\ c0 \in Int
    BY <2>4, <2>5, <2>6, <2>7, <2>8
  <2> HIDE DEF p1, p2, p3, p4, p5, l, a, c0
  <2>11. (l + p1) + p2 = (a + p3) + c0
    BY <2>9, <2>10, RippleSum
  <2>12. Low(v)[k] + p5 = A[k] + c0
    BY <2>9, <2>10, <2>11
  <2> QED
    BY <2>12 DEF e, p5, c0
<1>3. \A i \in 0 .. n : i \in T
  <2> HIDE DEF T
  <2> QED
    BY <1>1, <1>2, UpTo
<1> QED
  BY <1>3

(* n words make a sequence.                                                *)
LEMMA Words ==
  ASSUME NEW n \in Nat, NEW v, v = [i \in 1 .. n |-> v[i]],
         \A i \in 0 .. n - 1 : v[i + 1] \in Word
  PROVE  /\ v \in Seq(Word) /\ Len(v) = n
         /\ \A i \in 0 .. n - 1 : Limb(v, i) = v[i + 1]
<1>1. ASSUME NEW j \in 1 .. n PROVE v[j] \in Word
  <2>1. j - 1 \in 0 .. n - 1 /\ (j - 1) + 1 = j
    OBVIOUS
  <2> QED
    BY <2>1
<1>2. v \in Seq(Word) /\ Len(v) = n
  BY <1>1
<1> QED
  BY <1>2 DEF Limb

\* add_from: the limbs and the carries it threads.
LEMMA AddFromIs ==
  ASSUME NEW a \in Seq(Word), NEW b \in Seq(Word), NEW n \in Nat
  PROVE  \E carry \in [0 .. n -> {0, 1}] :
           /\ carry[0] = 0
           /\ \A i \in 1 .. n :
                carry[i] = CarryOut(Limb(a, i - 1), Limb(b, i - 1), carry[i - 1])
           /\ AddFrom(a, b, n) =
                [i \in 1 .. n |-> Wrap(Wrap(Limb(a, i - 1) + Limb(b, i - 1)) + carry[i - 1])]
                  \o LastCarry(carry[n])
<1> DEFINE step(i, c) == CarryOut(Limb(a, i - 1), Limb(b, i - 1), c)
           Q == {0, 1}
           s == [i \in 1 .. n |-> [c \in Q |-> step(i, c)]]
           g == Threaded(n, 0, s)
<1>1. ASSUME NEW i \in 1 .. n, NEW c \in {0, 1} PROVE step(i, c) \in {0, 1}
  <2>1. i - 1 \in Nat
    OBVIOUS
  <2>2. Limb(a, i - 1) \in Word /\ Limb(b, i - 1) \in Word
    BY <2>1, LimbIs
  <2> QED
    BY <2>2, CarryIs
<1>2. s \in Steps(1 .. n, Q) /\ 0 \in Q
  <2> HIDE DEF step
  <2> QED
    BY <1>1 DEF Steps
<1>3. /\ g \in [0 .. n -> Q] /\ g[0] = 0
      /\ \A i \in 1 .. n : g[i] = s[i][g[i - 1]]
  <2> HIDE DEF s, Q
  <2> QED
    BY <1>2, ThreadedIs
<1>4. AddFrom(a, b, n) =
        [i \in 1 .. n |-> Wrap(Wrap(Limb(a, i - 1) + Limb(b, i - 1)) + g[i - 1])]
          \o LastCarry(g[n])
  BY DEF AddFrom
<1> HIDE DEF g
<1>5. \A i \in 1 .. n : g[i] = step(i, g[i - 1])
  <2> HIDE DEF step
  <2> QED
    BY SMTT(30), <1>3
<1> QED
  BY <1>3, <1>4, <1>5

\* The longer length bounds both.
LEMMA LongerIs ==
  ASSUME NEW a \in Seq(Word), NEW b \in Seq(Word)
  PROVE  Longer(a, b) \in Nat /\ Len(a) <= Longer(a, b) /\ Len(b) <= Longer(a, b)
<1>1. Len(a) \in Nat /\ Len(b) \in Nat
  OBVIOUS
<1> QED
  BY <1>1, MaxOfTwo DEF Longer

\* add is exact.
LEMMA AddIs ==
  ASSUME NEW a \in Seq(Word), NEW b \in Seq(Word)
  PROVE  Add(a, b) \in Number /\ Value(Add(a, b)) = Value(a) + Value(b)
<1> DEFINE n == Longer(a, b)
<1>1. n \in Nat /\ Len(a) <= n /\ Len(b) <= n
  BY LongerIs
<1> HIDE DEF n
<1>2. PICK carry \in [0 .. n -> {0, 1}] :
        /\ carry[0] = 0
        /\ \A i \in 1 .. n : carry[i] = CarryOut(Limb(a, i - 1), Limb(b, i - 1), carry[i - 1])
        /\ AddFrom(a, b, n) =
             [i \in 1 .. n |-> Wrap(Wrap(Limb(a, i - 1) + Limb(b, i - 1)) + carry[i - 1])]
               \o LastCarry(carry[n])
  BY <1>1, AddFromIs
<1> DEFINE v == [i \in 1 .. n |-> Wrap(Wrap(Limb(a, i - 1) + Limb(b, i - 1)) + carry[i - 1])]
           z == [i \in 0 .. n - 1 |-> Limb(a, i) + Limb(b, i)]
           A == [i \in 0 .. n |-> Low(a)[i] + Low(b)[i]]
<1>3. ASSUME NEW i \in 0 .. n - 1
      PROVE  /\ v[i + 1] \in Word /\ z[i] \in Int
             /\ v[i + 1] + Base * carry[i + 1] = z[i] + carry[i]
  <2>1. i \in Nat /\ i + 1 \in 1 .. n /\ (i + 1) - 1 = i /\ i \in 0 .. n
    BY <1>1
  <2>2. /\ Limb(a, i) \in Word /\ Limb(b, i) \in Word /\ carry[i] \in {0, 1}
        /\ Limb(a, i) \in Nat /\ Limb(b, i) \in Nat
    BY <1>2, <2>1, LimbIs
  <2>3. carry[i + 1] = CarryOut(Limb(a, i), Limb(b, i), carry[i])
    BY <1>2, <2>1
  <2>4. v[i + 1] = Wrap(Wrap(Limb(a, i) + Limb(b, i)) + carry[i])
    BY <2>1
  <2>5. z[i] = Limb(a, i) + Limb(b, i)
    OBVIOUS
  <2> HIDE DEF v, z
  <2> QED
    BY <2>2, <2>3, <2>4, <2>5, CarryIs
<1>4. ASSUME NEW i \in 0 .. n - 1 PROVE A[i + 1] = A[i] + z[i] * Weight[i]
  <2>1. i \in Nat /\ i \in 0 .. n /\ i + 1 \in 0 .. n
    BY <1>1
  <2> DEFINE x == Limb(a, i)
             y == Limb(b, i)
             w == Weight[i]
             p == x * w
             q == y * w
  <2>2. x \in Int /\ y \in Int /\ w \in Int
    BY <2>1, LimbIs, WeightIs
  <2>3. Low(a)[i] \in Int /\ Low(b)[i] \in Int
    BY <2>1, LowBound
  <2>4. Low(a)[i + 1] = Low(a)[i] + p /\ Low(b)[i + 1] = Low(b)[i] + q
    BY <2>1, LowStep
  <2>5. A[i + 1] = Low(a)[i + 1] + Low(b)[i + 1] /\ A[i] = Low(a)[i] + Low(b)[i] /\ z[i] = x + y
    BY <2>1
  <2> HIDE DEF A, z, x, y, w
  <2>6. (x + y) * w = p + q /\ p \in Int /\ q \in Int
    BY <2>2
  <2>7. z[i] * w = p + q
    BY <2>5, <2>6
  <2> HIDE DEF p, q
  <2> QED
    BY <2>3, <2>4, <2>5, <2>6, <2>7 DEF w
<1>5. A[0] = 0 /\ \A i \in 0 .. n : carry[i] \in Int /\ A[i] \in Int
  <2>1. Low(a)[0] = 0 /\ Low(b)[0] = 0
    BY LowIs
  <2>2. \A i \in 0 .. n : Low(a)[i] \in Int /\ Low(b)[i] \in Int
    BY LowBound
  <2>3. \A i \in 0 .. n : carry[i] \in Int
    BY <1>2
  <2>4. 0 \in 0 .. n
    BY <1>1
  <2>5. A[0] = 0
    BY <2>1, <2>4
  <2>6. \A i \in 0 .. n : A[i] \in Int
    BY <2>2
  <2> HIDE DEF A
  <2> QED
    BY <2>3, <2>5, <2>6
<1>6. v = [i \in 1 .. n |-> v[i]] /\ A[n] = Low(a)[n] + Low(b)[n]
  BY <1>1
<1>7. AddFrom(a, b, n) = v \o LastCarry(carry[n])
  BY <1>2
<1> HIDE DEF v, z, A
<1>8. v \in Seq(Word) /\ Len(v) = n /\ \A i \in 0 .. n - 1 : Limb(v, i) = v[i + 1]
  BY <1>1, <1>3, <1>6, Words
<1>9. Low(v)[n] + carry[n] * Weight[n] = A[n] + carry[0]
  <2>1. \A i \in 0 .. n - 1 : z[i] \in Int
    BY <1>3
  <2>2. \A i \in 0 .. n - 1 : Limb(v, i) + Base * carry[i + 1] = z[i] + carry[i]
    BY <1>3, <1>8
  <2>3. \A i \in 0 .. n - 1 : A[i + 1] = A[i] + z[i] * Weight[i]
    BY <1>4
  <2>4. Ripples(n, v, carry, z, A)
    BY <1>5, <2>1, <2>2, <2>3 DEF Ripples
  <2>5. v \in Seq(Word) /\ n \in Nat
    BY <1>1, <1>8
  <2> QED
    BY <2>4, <2>5, Ripple
<1>10. /\ AddFrom(a, b, n) \in Seq(Word)
       /\ Value(AddFrom(a, b, n)) = Value(v) + carry[n] * Weight[n]
  <2>1. carry[n] \in {0, 1}
    BY <1>1, <1>2
  <2>2. carry[n] \in Word
    BY <2>1, BaseIs
  <2> QED
    BY <1>7, <1>8, <2>2, TopLimb
<1>11. Value(AddFrom(a, b, n)) = Value(a) + Value(b)
  <2>1. Low(a)[n] = Value(a) /\ Low(b)[n] = Value(b) /\ Low(v)[n] = Value(v)
    BY <1>1, <1>8, ValueFrom DEF Value
  <2>2. Value(a) \in Nat /\ Value(b) \in Nat
    BY ValueIsNat
  <2> QED
    BY <1>2, <1>6, <1>9, <1>10, <2>1, <2>2
<1> QED
  BY <1>10, <1>11, NormIs DEF Add, n

\* sub_from: the limbs and the borrows it threads.
LEMMA SubFromIs ==
  ASSUME NEW a \in Seq(Word), NEW b \in Seq(Word), NEW n \in Nat
  PROVE  \E borrow \in [0 .. n -> {0, 1}] :
           /\ borrow[0] = 0
           /\ \A i \in 1 .. n :
                borrow[i] = BorrowOut(Limb(a, i - 1), Limb(b, i - 1), borrow[i - 1])
           /\ SubFrom(a, b, n) =
                [i \in 1 .. n |-> Wrap(Wrap(Limb(a, i - 1) - Limb(b, i - 1)) - borrow[i - 1])]
<1> DEFINE step(i, c) == BorrowOut(Limb(a, i - 1), Limb(b, i - 1), c)
           Q == {0, 1}
           s == [i \in 1 .. n |-> [c \in Q |-> step(i, c)]]
           g == Threaded(n, 0, s)
<1>1. ASSUME NEW i \in 1 .. n, NEW c \in {0, 1} PROVE step(i, c) \in {0, 1}
  <2>1. i - 1 \in Nat
    OBVIOUS
  <2>2. Limb(a, i - 1) \in Word /\ Limb(b, i - 1) \in Word
    BY <2>1, LimbIs
  <2> QED
    BY <2>2, BorrowIs
<1>2. s \in Steps(1 .. n, Q) /\ 0 \in Q
  <2> HIDE DEF step
  <2> QED
    BY <1>1 DEF Steps
<1>3. /\ g \in [0 .. n -> Q] /\ g[0] = 0
      /\ \A i \in 1 .. n : g[i] = s[i][g[i - 1]]
  <2> HIDE DEF s, Q
  <2> QED
    BY <1>2, ThreadedIs
<1>4. SubFrom(a, b, n) =
        [i \in 1 .. n |-> Wrap(Wrap(Limb(a, i - 1) - Limb(b, i - 1)) - g[i - 1])]
  BY DEF SubFrom
<1> HIDE DEF g
<1>5. \A i \in 1 .. n : g[i] = step(i, g[i - 1])
  <2> HIDE DEF step
  <2> QED
    BY SMTT(30), <1>3
<1> QED
  BY <1>3, <1>4, <1>5

(* The limbs of a difference, with the last borrow.                        *)
LEMMA SubFromValue ==
  ASSUME NEW a \in Seq(Word), NEW b \in Seq(Word), NEW n \in Nat
  PROVE  /\ SubFrom(a, b, n) \in Seq(Word) /\ Len(SubFrom(a, b, n)) = n
         /\ \E c \in {0, 1} :
              Low(SubFrom(a, b, n))[n] - c * Weight[n] = Low(a)[n] - Low(b)[n]
<1>1. PICK borrow \in [0 .. n -> {0, 1}] :
        /\ borrow[0] = 0
        /\ \A i \in 1 .. n : borrow[i] = BorrowOut(Limb(a, i - 1), Limb(b, i - 1), borrow[i - 1])
        /\ SubFrom(a, b, n) =
             [i \in 1 .. n |-> Wrap(Wrap(Limb(a, i - 1) - Limb(b, i - 1)) - borrow[i - 1])]
  BY SubFromIs
<1> DEFINE v == [i \in 1 .. n |-> Wrap(Wrap(Limb(a, i - 1) - Limb(b, i - 1)) - borrow[i - 1])]
           z == [i \in 0 .. n - 1 |-> Limb(a, i) - Limb(b, i)]
           A == [i \in 0 .. n |-> Low(a)[i] - Low(b)[i]]
           carry == [i \in 0 .. n |-> - borrow[i]]
<1>2. ASSUME NEW i \in 0 .. n - 1
      PROVE  /\ v[i + 1] \in Word /\ z[i] \in Int
             /\ v[i + 1] + Base * carry[i + 1] = z[i] + carry[i]
  <2>1. i \in Nat /\ i + 1 \in 1 .. n /\ (i + 1) - 1 = i /\ i \in 0 .. n /\ i + 1 \in 0 .. n
    OBVIOUS
  <2>2. /\ Limb(a, i) \in Word /\ Limb(b, i) \in Word /\ borrow[i] \in {0, 1}
        /\ Limb(a, i) \in Nat /\ Limb(b, i) \in Nat
    BY <1>1, <2>1, LimbIs
  <2>3. borrow[i + 1] = BorrowOut(Limb(a, i), Limb(b, i), borrow[i])
    BY <1>1, <2>1
  <2>4. v[i + 1] = Wrap(Wrap(Limb(a, i) - Limb(b, i)) - borrow[i])
    BY <2>1
  <2>5. z[i] = Limb(a, i) - Limb(b, i) /\ carry[i + 1] = - borrow[i + 1] /\ carry[i] = - borrow[i]
    BY <2>1
  <2> HIDE DEF v, z, carry
  <2>6. v[i + 1] \in Word /\ borrow[i + 1] \in {0, 1}
    BY <2>2, <2>3, <2>4, BorrowIs
  <2>7. v[i + 1] - Base * borrow[i + 1] = Limb(a, i) - Limb(b, i) - borrow[i]
    BY <2>2, <2>3, <2>4, BorrowIs
  <2>8. v[i + 1] \in Int /\ Base \in Int
    BY <2>6, WordIs, BaseIs
  <2>9. Base * carry[i + 1] = - (Base * borrow[i + 1]) /\ Base * borrow[i + 1] \in Int
    BY <2>5, <2>6, <2>8
  <2> DEFINE p == Base * borrow[i + 1]
             q == Base * carry[i + 1]
  <2>10. /\ v[i + 1] - p = z[i] - borrow[i] /\ q = - p /\ p \in Int /\ z[i] \in Int
         /\ borrow[i] \in Int /\ carry[i] = - borrow[i]
    BY <2>2, <2>5, <2>7, <2>9
  <2> HIDE DEF p, q
  <2>11. v[i + 1] + q = z[i] + carry[i]
    BY <2>8, <2>10
  <2> QED
    BY <2>6, <2>10, <2>11 DEF q
<1>3. ASSUME NEW i \in 0 .. n - 1 PROVE A[i + 1] = A[i] + z[i] * Weight[i]
  <2>1. i \in Nat /\ i \in 0 .. n /\ i + 1 \in 0 .. n
    OBVIOUS
  <2> DEFINE x == Limb(a, i)
             y == Limb(b, i)
             w == Weight[i]
             p == x * w
             q == y * w
  <2>2. x \in Int /\ y \in Int /\ w \in Int
    <3>1. Weight[i] \in Nat
      BY <2>1, WeightIs
    <3>2. Limb(a, i) \in Nat /\ Limb(b, i) \in Nat
      BY <2>1, LimbIs
    <3> QED
      BY <3>1, <3>2
  <2>3. Low(a)[i] \in Int /\ Low(b)[i] \in Int
    BY <2>1, LowBound
  <2>4. Low(a)[i + 1] = Low(a)[i] + p /\ Low(b)[i + 1] = Low(b)[i] + q
    BY <2>1, LowStep
  <2>5. A[i + 1] = Low(a)[i + 1] - Low(b)[i + 1] /\ A[i] = Low(a)[i] - Low(b)[i] /\ z[i] = x - y
    BY <2>1
  <2> HIDE DEF A, z, x, y, w
  <2>6. (x - y) * w = p - q /\ p \in Int /\ q \in Int
    BY <2>2
  <2>7. z[i] * w = p - q
    BY <2>5, <2>6
  <2> HIDE DEF p, q
  <2> QED
    BY <2>3, <2>4, <2>5, <2>6, <2>7 DEF w
<1>4. A[0] = 0 /\ carry[0] = 0 /\ \A i \in 0 .. n : carry[i] \in Int /\ A[i] \in Int
  <2>1. Low(a)[0] = 0 /\ Low(b)[0] = 0 /\ 0 \in 0 .. n
    BY LowIs
  <2>2. \A i \in 0 .. n : Low(a)[i] \in Int /\ Low(b)[i] \in Int
    BY LowBound
  <2>3. \A i \in 0 .. n : carry[i] \in Int
    <3> SUFFICES ASSUME NEW i \in 0 .. n PROVE carry[i] \in Int
      OBVIOUS
    <3>1. borrow[i] \in {0, 1}
      BY <1>1
    <3> QED
      BY <3>1
  <2>4. A[0] = 0 /\ carry[0] = 0
    BY <1>1, <2>1
  <2>5. \A i \in 0 .. n : A[i] \in Int
    BY <2>2
  <2> HIDE DEF A, carry
  <2> QED
    BY <2>3, <2>4, <2>5
<1>5. v = [i \in 1 .. n |-> v[i]] /\ A[n] = Low(a)[n] - Low(b)[n] /\ carry[n] = - borrow[n]
  OBVIOUS
<1>6. SubFrom(a, b, n) = v
  BY <1>1
<1> HIDE DEF v, z, A, carry
<1>7. v \in Seq(Word) /\ Len(v) = n /\ \A i \in 0 .. n - 1 : Limb(v, i) = v[i + 1]
  BY <1>2, <1>5, Words
<1>8. Low(v)[n] + carry[n] * Weight[n] = A[n] + carry[0]
  <2>1. \A i \in 0 .. n - 1 : z[i] \in Int
    BY <1>2
  <2>2. \A i \in 0 .. n - 1 : Limb(v, i) + Base * carry[i + 1] = z[i] + carry[i]
    BY <1>2, <1>7
  <2>3. \A i \in 0 .. n - 1 : A[i + 1] = A[i] + z[i] * Weight[i]
    BY <1>3
  <2>4. Ripples(n, v, carry, z, A)
    BY <1>4, <2>1, <2>2, <2>3 DEF Ripples
  <2>5. v \in Seq(Word) /\ n \in Nat
    BY <1>7
  <2> QED
    BY <2>4, <2>5, Ripple
<1> DEFINE w == Weight[n]
           c == borrow[n]
<1>9. c \in {0, 1} /\ w \in Int /\ Low(v)[n] \in Int /\ A[n] \in Int
  <2>1. c \in {0, 1}
    OBVIOUS
  <2>2. w \in Int
    BY WeightIs
  <2>3. Low(v)[n] \in Nat
    BY <1>7, LowBound
  <2>4. A[n] \in Int
    BY <1>4
  <2> QED
    BY <2>1, <2>2, <2>3, <2>4
<1>10. (- c) * w = - (c * w) /\ c * w \in Int
  BY <1>9
<1>11. Low(v)[n] - c * w = A[n]
  <2>1. Low(v)[n] + (- c) * w = A[n] + 0
    BY <1>4, <1>5, <1>8
  <2> HIDE DEF c, w
  <2> QED
    BY <1>9, <1>10, <2>1
<1>12. Low(v)[n] - c * w = Low(a)[n] - Low(b)[n]
  BY <1>5, <1>11
<1> HIDE DEF c
<1> QED
  BY <1>6, <1>7, <1>9, <1>12

\* sub is exact, truncated at zero.
LEMMA SubIs ==
  ASSUME NEW a \in Number, NEW b \in Number
  PROVE  /\ Sub(a, b) \in Number
         /\ Value(Sub(a, b)) = IF Value(b) < Value(a) THEN Value(a) - Value(b) ELSE 0
<1>1. a \in Seq(Word) /\ b \in Seq(Word) /\ Value(a) \in Nat /\ Value(b) \in Nat
  BY ValueIsNat DEF Number
<1>2. Cmp(a, b) = "gt" <=> Value(b) < Value(a)
  BY <1>1, CmpIs DEF Order
<1>3. CASE ~ (Value(b) < Value(a))
  <2>1. Sub(a, b) = <<>>
    BY <1>2, <1>3 DEF Sub, Zero
  <2>2. <<>> \in Number
    BY DEF Number, Normal
  <2>3. Value(<<>>) = 0
    <3>1. <<>> \in Seq(Word)
      OBVIOUS
    <3>2. Low(<<>>)[0] = 0
      BY <3>1, LowIs
    <3> QED
      BY <3>2 DEF Value
  <2> QED
    BY <1>3, <2>1, <2>2, <2>3
<1>4. CASE Value(b) < Value(a)
  <2> DEFINE n == Len(a)
             v == SubFrom(a, b, n)
  <2>1. n \in Nat /\ Len(b) <= n
    <3>1. Len(a) \in Nat /\ Len(b) \in Nat
      BY <1>1
    <3>2. Len(a) < Len(b) => Value(a) < Value(b)
      BY LongerIsGreater
    <3> QED
      BY <1>1, <1>4, <3>1, <3>2
  <2>2. v \in Seq(Word) /\ Len(v) = n
    BY <1>1, <2>1, SubFromValue
  <2>3. PICK c \in {0, 1} : Low(v)[n] - c * Weight[n] = Low(a)[n] - Low(b)[n]
    BY <1>1, <2>1, SubFromValue
  <2>4. Low(a)[n] = Value(a) /\ Low(b)[n] = Value(b)
    BY <1>1, <2>1, ValueFrom
  <2>5. Low(v)[n] \in Nat /\ Low(v)[n] < Weight[n] /\ Weight[n] \in Nat
    BY <2>1, <2>2, LowBound, WeightIs
  <2> HIDE DEF v
  <2>6. c = 0
    <3>1. CASE c = 1
      <4>1. Low(v)[n] - Weight[n] = Value(a) - Value(b)
        BY <2>3, <2>4, <2>5, <3>1
      <4> QED
        BY <1>1, <1>4, <2>5, <4>1
    <3> QED
      BY <3>1
  <2>7. Low(v)[n] = Value(a) - Value(b)
    BY <1>1, <2>3, <2>4, <2>5, <2>6
  <2>8. Value(v) = Value(a) - Value(b)
    BY <2>2, <2>7 DEF Value
  <2>9. Sub(a, b) = Norm(v)
    BY <1>2, <1>4 DEF Sub, v
  <2> QED
    BY <1>4, <2>2, <2>8, <2>9, NormIs
<1> QED
  BY <1>3, <1>4

\* A word as a number.
LEMMA FromU64Is ==
  ASSUME NEW x \in Word
  PROVE  FromU64(x) \in Number /\ Value(FromU64(x)) = x
<1>1. x \in Nat
  BY WordIs
<1>2. CASE x = 0
  <2>1. FromU64(x) = <<>> /\ <<>> \in Seq(Word) /\ <<>> \in Number
    BY <1>2 DEF FromU64, Zero, Number, Normal
  <2>2. Low(<<>>)[0] = 0
    BY <2>1, LowIs
  <2> QED
    BY <1>2, <2>1, <2>2 DEF Value
<1>3. CASE x # 0
  <2> DEFINE v == <<x>>
  <2>1. FromU64(x) = v /\ v \in Seq(Word) /\ Len(v) = 1 /\ Limb(v, 0) = x /\ v[1] # 0
    BY <1>3 DEF FromU64, Limb
  <2> HIDE DEF v
  <2>2. Low(v)[0 + 1] = Low(v)[0] + Limb(v, 0) * Weight[0]
    BY <2>1, LowStep
  <2>3. Low(v)[1] = x
    <3>1. Low(v)[0] = 0 /\ Weight[0] = 1
      BY <2>1, LowIs, WeightIs
    <3> QED
      BY <1>1, <2>1, <2>2, <3>1
  <2> QED
    BY <2>1, <2>3 DEF Value, Number, Normal
<1> QED
  BY <1>2, <1>3

\* pred is exact, and zero at zero.
LEMMA PredIs ==
  ASSUME NEW a \in Number
  PROVE  Pred(a) \in Number /\ Value(Pred(a)) = IF 0 < Value(a) THEN Value(a) - 1 ELSE 0
<1>1. One \in Number /\ Value(One) = 1
  BY FromU64Is, BaseIs DEF One
<1>2. Value(a) \in Nat
  BY ValueIsNat DEF Number
<1> QED
  BY <1>1, <1>2, SubIs DEF Pred

-----------------------------------------------------------------------------

\* Quotient and remainder are unique.
LEMMA DivModOf ==
  ASSUME NEW d \in Nat \ {0}, NEW q \in Int, NEW r \in 0 .. d - 1, NEW x \in Int, x = d * q + r
  PROVE  x \div d = q /\ x % d = r
<1>1. d \in Int /\ d > 0
  OBVIOUS
<1>2. x \div d = q
  BY <1>1
<1>3. x % d = r
  BY <1>1
<1> QED
  BY <1>2, <1>3

\* A power of two is twice the one before.
LEMMA Pow2Step == ASSUME NEW i \in Nat PROVE Pow2[i + 1] = 2 * Pow2[i]
<1>1. i + 1 \in Nat \ {0} /\ (i + 1) - 1 = i
  OBVIOUS
<1> QED
  BY <1>1, Pow2Is

\* A power of two is positive.
LEMMA Pow2Pos == ASSUME NEW i \in Nat PROVE Pow2[i] \in Nat /\ 1 <= Pow2[i] /\ Pow2[i] \in Nat \ {0}
BY Pow2Is

\* Exponents add.
LEMMA Pow2Plus ==
  ASSUME NEW i \in Nat, NEW j \in Nat
  PROVE  Pow2[i + j] = Pow2[i] * Pow2[j]
<1> DEFINE T == {k \in Nat : Pow2[i + k] = Pow2[i] * Pow2[k]}
<1>1. 0 \in T
  <2>1. Pow2[0] = 1 /\ Pow2[i] \in Int /\ i + 0 = i
    BY Pow2Is, Pow2Pos
  <2> QED
    BY <2>1
<1>2. ASSUME NEW k \in Nat, k \in T PROVE k + 1 \in T
  <2>1. Pow2[i + (k + 1)] = 2 * Pow2[i + k]
    <3>1. i + k \in Nat /\ i + (k + 1) = (i + k) + 1
      OBVIOUS
    <3> QED
      BY <3>1, Pow2Step
  <2>2. Pow2[k + 1] = 2 * Pow2[k]
    BY Pow2Step
  <2> DEFINE p == Pow2[i]
             q == Pow2[k]
  <2>3. p \in Int /\ q \in Int
    BY Pow2Pos
  <2>4. Pow2[i + k] = p * q
    BY <1>2
  <2> HIDE DEF p, q
  <2>5. 2 * (p * q) = p * (2 * q)
    BY <2>3
  <2>6. Pow2[i + (k + 1)] = p * Pow2[k + 1]
    BY <2>1, <2>2, <2>4, <2>5 DEF q
  <2> QED
    BY <2>6 DEF p
<1>3. Nat \subseteq T
  <2> HIDE DEF T
  <2> QED
    BY <1>1, <1>2, UpToNat
<1> QED
  BY <1>3

\* A power of two divides every greater one.
LEMMA Pow2Split ==
  ASSUME NEW i \in Nat, NEW j \in Nat, i <= j
  PROVE  Pow2[j] = Pow2[i] * Pow2[j - i] /\ Pow2[i] <= Pow2[j]
<1>1. j - i \in Nat /\ i + (j - i) = j
  OBVIOUS
<1> DEFINE p == Pow2[i]
           q == Pow2[j - i]
<1>2. p \in Nat /\ q \in Nat /\ 1 <= q
  BY <1>1, Pow2Pos
<1>3. Pow2[j] = p * q
  BY <1>1, Pow2Plus
<1> HIDE DEF p, q
<1>4. 1 * p <= q * p
  BY <1>2, TimesMono
<1>5. p <= p * q
  BY <1>2, <1>4
<1> QED
  BY <1>3, <1>5 DEF p, q

\* The weight of limb i is two to the number of bits below it.
LEMMA WeightIsPow2 == \A i \in Nat : Weight[i] = Pow2[WordBits * i]
<1> DEFINE T == {i \in Nat : Weight[i] = Pow2[WordBits * i]}
<1>1. 0 \in T
  <2>1. WordBits * 0 = 0
    BY BaseIs
  <2> QED
    BY <2>1, WeightIs, Pow2Is
<1>2. ASSUME NEW i \in Nat, i \in T PROVE i + 1 \in T
  <2>1. WordBits \in Nat /\ WordBits * i \in Nat /\ WordBits * (i + 1) = WordBits + WordBits * i
    BY BaseIs
  <2>2. Pow2[WordBits + WordBits * i] = Pow2[WordBits] * Pow2[WordBits * i]
    BY <2>1, Pow2Plus
  <2>3. Weight[i + 1] = Base * Weight[i] /\ Pow2[WordBits] = Base /\ Weight[i] = Pow2[WordBits * i]
    BY <1>2, WeightStep, BaseIs
  <2>4. Weight[i + 1] = Pow2[WordBits * (i + 1)]
    BY <2>1, <2>2, <2>3
  <2> QED
    BY <2>4
<1>3. Nat \subseteq T
  <2> HIDE DEF T
  <2> QED
    BY <1>1, <1>2, UpToNat
<1> QED
  BY <1>3

\* The weights multiply as their indices add.
LEMMA WeightPlus ==
  ASSUME NEW i \in Nat, NEW j \in Nat
  PROVE  Weight[i + j] = Weight[i] * Weight[j]
<1>1. /\ WordBits \in Nat /\ WordBits * i \in Nat /\ WordBits * j \in Nat /\ i + j \in Nat
      /\ WordBits * (i + j) = WordBits * i + WordBits * j
  BY BaseIs
<1> QED
  BY <1>1, WeightIsPow2, Pow2Plus

(* The number the bits below j make.                                       *)
LowBits(x, j) == x % Pow2[j]

\* One more bit adds that bit at its power of two.
LEMMA LowBitsStep ==
  ASSUME NEW x \in Nat, NEW j \in Nat
  PROVE  /\ Bit(x, j) \in {0, 1}
         /\ LowBits(x, j) \in Nat
         /\ LowBits(x, j + 1) = LowBits(x, j) + Bit(x, j) * Pow2[j]
<1> DEFINE d == Pow2[j]
<1>1. d \in Nat \ {0} /\ Pow2[j + 1] = 2 * d
  BY Pow2Pos, Pow2Step
<1> HIDE DEF d
<1>2. PICK q \in Int, r \in 0 .. d - 1 : x = d * q + r /\ x \div d = q /\ x % d = r
  BY <1>1, DivIs
<1>3. PICK h \in Int, b \in 0 .. 1 : q = 2 * h + b /\ q % 2 = b
  <2>1. 2 \in Nat \ {0}
    OBVIOUS
  <2>2. PICK h \in Int, b \in 0 .. 2 - 1 : q = 2 * h + b /\ q % 2 = b
    BY <2>1, DivIs
  <2> QED
    BY <2>2
<1>4. Bit(x, j) = b
  BY <1>2, <1>3 DEF Bit, d
<1>5. x = (2 * d) * h + (b * d + r) /\ b * d + r \in 0 .. 2 * d - 1 /\ b * d \in Nat
  <2>1. d * (2 * h + b) = (2 * d) * h + b * d
    BY <1>1
  <2>2. CASE b = 0
    <3>1. b * d = 0
      BY <1>1, <2>2
    <3> DEFINE p == (2 * d) * h
               e == b * d
               f == d * q
    <3>2. p \in Int /\ f \in Int /\ f = p + e /\ e = 0 /\ x = f + r
      BY <1>1, <1>2, <1>3, <2>1, <3>1
    <3> HIDE DEF p, e, f
    <3>3. x = p + (e + r) /\ e + r \in 0 .. 2 * d - 1 /\ e \in Nat
      BY <1>1, <3>2
    <3> QED
      BY <3>3 DEF p, e
  <2>3. CASE b = 1
    <3>1. b * d = d
      BY <1>1, <2>3
    <3> DEFINE p == (2 * d) * h
               e == b * d
               f == d * q
    <3>2. p \in Int /\ f \in Int /\ f = p + e /\ e = d /\ x = f + r
      BY <1>1, <1>2, <1>3, <2>1, <3>1
    <3> HIDE DEF p, e, f
    <3>3. x = p + (e + r) /\ e + r \in 0 .. 2 * d - 1 /\ e \in Nat
      BY <1>1, <3>2
    <3> QED
      BY <3>3 DEF p, e
  <2> QED
    BY <2>2, <2>3
<1>6. x % (2 * d) = b * d + r
  <2>1. 2 * d \in Nat \ {0}
    BY <1>1
  <2> QED
    BY <1>5, <2>1, DivModOf
<1>7. x % (2 * d) = r + b * d
  BY <1>1, <1>2, <1>5, <1>6
<1>8. x % Pow2[j + 1] = r + b * d
  <2>1. x % Pow2[j + 1] = x % (2 * d)
    BY ONLY <1>1
  <2> QED
    BY ONLY <2>1, <1>7
<1>9. x % d = r /\ r \in Nat /\ Bit(x, j) \in {0, 1}
  BY <1>2, <1>3, <1>4
<1>10. x % Pow2[j + 1] = (x % d) + Bit(x, j) * d
  BY ONLY <1>4, <1>8, <1>9
<1> QED
  BY ONLY <1>9, <1>10 DEF d, LowBits

PairBit(T, x, y, j) == IF <<Bit(x, j), Bit(y, j)>> \in T THEN Pow2[j] ELSE 0

SumsBits(low, T, n, x, y) ==
  /\ low \in [0 .. n -> Nat]
  /\ low[0] = 0
  /\ \A j \in 1 .. n : low[j] = low[j - 1] + PairBit(T, x, y, j - 1)
  /\ BitsBelow(T, n, x, y) = low[n]

\* A bitwise operation sums the powers of two at the bits it makes a one of.
LEMMA BitsBelowIs ==
  ASSUME NEW T, NEW n \in Nat, NEW x \in Nat, NEW y \in Nat
  PROVE  \E low : SumsBits(low, T, n, x, y)
<1> DEFINE z(j) == IF <<Bit(x, j - 1), Bit(y, j - 1)>> \in T THEN Pow2[j - 1] ELSE 0
           Q == Nat
           s == [j \in 1 .. n |-> [low \in Q |-> low + z(j)]]
           g == Threaded(n, 0, s)
<1>1. \A j \in 1 .. n : z(j) \in Nat /\ z(j) = PairBit(T, x, y, j - 1)
  BY Pow2Pos DEF PairBit
<1>2. BitsBelow(T, n, x, y) = g[n]
  BY DEF BitsBelow
<1> HIDE DEF z, g
<1>3. s \in Steps(1 .. n, Q) /\ 0 \in Q
  BY <1>1 DEF Steps
<1>4. /\ g \in [0 .. n -> Q] /\ g[0] = 0
      /\ \A i \in 1 .. n : g[i] = s[i][g[i - 1]]
  <2> HIDE DEF s, Q
  <2> QED
    BY <1>3, ThreadedIs DEF g
<1>5. \A j \in 1 .. n : g[j] = g[j - 1] + z(j)
  <2> SUFFICES ASSUME NEW j \in 1 .. n PROVE g[j] = g[j - 1] + z(j)
    OBVIOUS
  <2>1. g[j - 1] \in Q
    BY <1>4
  <2>2. s[j][g[j - 1]] = g[j - 1] + z(j)
    BY <2>1
  <2> QED
    BY <1>4, <2>2
<1> QED
  BY <1>1, <1>2, <1>4, <1>5 DEF SumsBits

\* A number below the divisor is its own remainder.
LEMMA SmallMod ==
  ASSUME NEW x \in Nat, NEW d \in Nat \ {0}, x < d
  PROVE  x % d = x /\ x \div d = 0
<1>1. x = d * 0 + x /\ x \in 0 .. d - 1
  OBVIOUS
<1> QED
  BY <1>1, DivModOf

\* No bits make zero, and all the bits of a number make the number.
LEMMA LowBitsEnds ==
  ASSUME NEW x \in Nat, NEW j \in Nat
  PROVE  LowBits(x, 0) = 0 /\ (x < Pow2[j] => LowBits(x, j) = x)
<1>1. 1 \in Nat \ {0} /\ 0 \in 0 .. 1 - 1 /\ x = 1 * x + 0
  OBVIOUS
<1>2. x % 1 = 0
  BY <1>1, DivModOf
<1>3. Pow2[0] = 1 /\ Pow2[j] \in Nat \ {0}
  BY Pow2Is
<1>4. x < Pow2[j] => x % Pow2[j] = x
  BY <1>3, SmallMod
<1> QED
  BY ONLY <1>2, <1>3, <1>4 DEF LowBits

(* The or of two words without a common bit is their sum.                  *)
LEMMA OrDisjoint ==
  ASSUME NEW x \in Word, NEW y \in Word,
         \A j \in 0 .. WordBits - 1 : Bit(x, j) = 0 \/ Bit(y, j) = 0
  PROVE  (x | y) = x + y
<1> DEFINE n == WordBits
<1>1. n \in Nat /\ x \in Nat /\ y \in Nat /\ x < Pow2[n] /\ y < Pow2[n]
  BY BaseIs, WordIs
<1> HIDE DEF n
<1>2. PICK low : SumsBits(low, OrBits, n, x, y)
  BY <1>1, BitsBelowIs
<1> DEFINE T == {j \in 0 .. n : low[j] = LowBits(x, j) + LowBits(y, j)}
<1>3. 0 \in T
  <2>1. LowBits(x, 0) = 0 /\ LowBits(y, 0) = 0
    BY <1>1, LowBitsEnds
  <2>2. low[0] = 0
    BY <1>2 DEF SumsBits
  <2> QED
    BY <1>1, <2>1, <2>2
<1>4. ASSUME NEW k \in 1 .. n, k - 1 \in T PROVE k \in T
  <2> DEFINE j == k - 1
             w == Pow2[j]
             bx == Bit(x, j)
             by == Bit(y, j)
             pb == PairBit(OrBits, x, y, j)
  <2>1. j \in Nat /\ j + 1 = k /\ j \in 0 .. n - 1 /\ j \in 0 .. n
    BY <1>1
  <2>2. low[j] = LowBits(x, j) + LowBits(y, j)
    BY <1>4
  <2>3. /\ bx \in {0, 1} /\ by \in {0, 1} /\ LowBits(x, j) \in Nat /\ LowBits(y, j) \in Nat
        /\ LowBits(x, k) = LowBits(x, j) + bx * w /\ LowBits(y, k) = LowBits(y, j) + by * w
    BY ZenonT(60), <1>1, <2>1, LowBitsStep
  <2>4. w \in Nat
    BY <2>1, Pow2Pos
  <2>5. bx = 0 \/ by = 0
    <3>1. j \in 0 .. WordBits - 1
      BY <2>1 DEF n
    <3> HIDE DEF j
    <3> QED
      BY <3>1
  <2>6. low[k] = low[j] + pb
    BY <1>2 DEF SumsBits
  <2>7. pb = IF <<bx, by>> \in {<<0, 1>>, <<1, 0>>, <<1, 1>>} THEN w ELSE 0
    BY DEF PairBit, OrBits
  <2> HIDE DEF j, w, bx, by, pb
  <2>8. pb = IF bx = 1 \/ by = 1 THEN w ELSE 0
    BY <2>3, <2>7
  <2>9. 0 * w = 0 /\ 1 * w = w
    BY <2>4
  <2>10. low[k] = LowBits(x, k) + LowBits(y, k)
    <3>1. CASE bx = 0 /\ by = 0
      BY <2>2, <2>3, <2>4, <2>6, <2>8, <2>9, <3>1
    <3>2. CASE bx = 1 /\ by = 0
      BY <2>2, <2>3, <2>4, <2>6, <2>8, <2>9, <3>2
    <3>3. CASE bx = 0 /\ by = 1
      BY <2>2, <2>3, <2>4, <2>6, <2>8, <2>9, <3>3
    <3> QED
      BY <2>3, <2>5, <3>1, <3>2, <3>3
  <2> QED
    BY <2>10
<1>5. \A j \in 0 .. n : j \in T
  <2> HIDE DEF T
  <2> QED
    BY <1>1, <1>3, <1>4, UpTo
<1>6. low[n] = LowBits(x, n) + LowBits(y, n)
  BY <1>1, <1>5
<1>7. LowBits(x, n) = x /\ LowBits(y, n) = y
  BY <1>1, LowBitsEnds
<1>8. (x | y) = BitsBelow(OrBits, n, x, y)
  BY DEF |, n
<1>9. BitsBelow(OrBits, n, x, y) = low[n]
  BY <1>2 DEF SumsBits
<1> QED
  BY ONLY <1>6, <1>7, <1>8, <1>9

\* A multiple of 2^k has no bits below k.
LEMMA ZeroBitsBelow ==
  ASSUME NEW x \in Nat, NEW k \in Nat, NEW p \in Nat, x = p * Pow2[k], NEW j \in 0 .. k - 1
  PROVE  Bit(x, j) = 0
<1>1. j \in Nat /\ j <= k /\ k - j \in Nat /\ k - j - 1 \in Nat /\ (k - j - 1) + 1 = k - j
  OBVIOUS
<1> DEFINE d == Pow2[j]
           e == Pow2[k - j - 1]
<1>2. d \in Nat \ {0} /\ e \in Nat /\ Pow2[k - j] = 2 * e /\ Pow2[k] = d * Pow2[k - j]
  BY <1>1, Pow2Pos, Pow2Step, Pow2Split
<1> HIDE DEF d, e
<1>3. x = d * (2 * (p * e)) + 0
  <2>1. p * (d * (2 * e)) = d * (2 * (p * e))
    BY <1>2
  <2>2. x = p * (d * (2 * e))
    BY <1>2
  <2>3. d * (2 * (p * e)) \in Int
    BY <1>2
  <2> QED
    BY ONLY <2>1, <2>2, <2>3
<1> DEFINE f == p * e
<1>4. f \in Nat
  BY <1>2
<1>5. x = d * (2 * f) + 0
  BY <1>3
<1> HIDE DEF f
<1>6. x \div d = 2 * f
  <2> DEFINE q == 2 * f
             z == 0
  <2>1. q \in Int /\ z \in 0 .. d - 1 /\ x = d * q + z /\ x \in Int
    BY <1>2, <1>4, <1>5
  <2> HIDE DEF q, z
  <2>2. x \div d = q
    BY <1>2, <2>1, DivModOf
  <2> QED
    BY <2>2 DEF q
<1>7. (2 * f) % 2 = 0
  BY <1>4
<1> QED
  BY <1>6, <1>7 DEF Bit, d

\* A number below 2^k has no bits from k on.
LEMMA ZeroBitsAbove ==
  ASSUME NEW y \in Nat, NEW k \in Nat, y < Pow2[k], NEW j \in Nat, k <= j
  PROVE  Bit(y, j) = 0
<1> DEFINE d == Pow2[j]
<1>1. d \in Nat \ {0} /\ Pow2[k] <= d /\ Pow2[k] \in Nat
  BY Pow2Pos, Pow2Split
<1> HIDE DEF d
<1>2. y \div d = 0
  <2>1. y < d
    BY <1>1
  <2> QED
    BY <1>1, <2>1, SmallMod
<1>3. 0 % 2 = 0
  OBVIOUS
<1> QED
  BY <1>2, <1>3 DEF Bit, d

-----------------------------------------------------------------------------
Scales(u, v, m, carry) ==
  /\ Len(u) = Len(v)
  /\ \A i \in 0 .. Len(v) : carry[i] \in Word
  /\ \A i \in 0 .. Len(v) - 1 : Limb(u, i) + Base * carry[i + 1] = Limb(v, i) * m + carry[i]

\* The arithmetic of one round of a multiplication by a word.
LEMMA ScaleStep ==
  ASSUME NEW l \in Int, NEW x \in Int, NEW w \in Int, NEW m \in Int
  PROVE  (l + x * w) * m = l * m + (x * m) * w
<1>1. (l + x * w) * m = l * m + (x * w) * m
  OBVIOUS
<1>2. (x * w) * m = (x * m) * w
  OBVIOUS
<1> QED
  BY <1>1, <1>2

(* Limbs that are each multiplied by m, with what is carried.              *)
LEMMA Scaled ==
  ASSUME NEW v \in Seq(Word), NEW u \in Seq(Word), NEW m \in Nat, NEW carry,
         Scales(u, v, m, carry)
  PROVE  /\ u \o LastCarry(carry[Len(v)]) \in Seq(Word)
         /\ Value(u \o LastCarry(carry[Len(v)])) = Value(v) * m + carry[0]
<1> DEFINE n == Len(v)
           z == [i \in 0 .. n - 1 |-> Limb(v, i) * m]
           A == [i \in 0 .. n |-> Low(v)[i] * m]
<1>1. n \in Nat /\ Len(u) = n /\ n \in 0 .. n /\ 0 \in 0 .. n
  BY DEF Scales
<1>2. \A i \in 0 .. n : carry[i] \in Word /\ carry[i] \in Int
  BY WordIs DEF Scales
<1>3. A[0] = 0 /\ A[n] = Value(v) * m
  <2>1. A[0] = Low(v)[0] * m /\ Low(v)[0] = 0 /\ 0 * m = 0
    BY <1>1, LowIs
  <2> QED
    BY <1>1, <2>1 DEF Value
<1>4. ASSUME NEW i \in 0 .. n PROVE A[i] \in Int
  <2>1. Low(v)[i] \in Nat
    BY LowBound
  <2>2. Low(v)[i] * m \in Int
    BY <2>1
  <2> QED
    BY <2>2
<1>5. ASSUME NEW i \in 0 .. n - 1
      PROVE  /\ z[i] \in Int /\ A[i + 1] = A[i] + z[i] * Weight[i]
             /\ Limb(u, i) + Base * carry[i + 1] = z[i] + carry[i]
  <2>1. i \in Nat /\ i \in 0 .. n /\ i + 1 \in 0 .. n
    BY <1>1
  <2> DEFINE x == Limb(v, i)
             w == Weight[i]
             l == Low(v)[i]
  <2>2. x \in Int /\ w \in Int /\ l \in Int
    <3>1. Limb(v, i) \in Nat
      BY <2>1, LimbIs
    <3>2. Weight[i] \in Nat
      BY <2>1, WeightIs
    <3>3. Low(v)[i] \in Nat
      BY <2>1, LowBound
    <3> QED
      BY <3>1, <3>2, <3>3
  <2>3. A[i + 1] = (l + x * w) * m
    BY <2>1, LowStep
  <2>4. A[i] = l * m /\ z[i] = x * m
    BY <2>1
  <2>5. Limb(u, i) + Base * carry[i + 1] = x * m + carry[i]
    BY DEF Scales
  <2> HIDE DEF A, z, x, w, l
  <2>6. (l + x * w) * m = l * m + (x * m) * w
    BY <2>2, ScaleStep
  <2>7. x * m \in Int
    BY <2>2
  <2>8. A[i + 1] = A[i] + z[i] * w
    BY ONLY <2>3, <2>4, <2>6
  <2>9. Limb(u, i) + Base * carry[i + 1] = z[i] + carry[i]
    BY ONLY <2>4, <2>5
  <2> QED
    BY <2>4, <2>7, <2>8, <2>9 DEF w
<1> HIDE DEF z, A
<1>6. Ripples(n, u, carry, z, A)
  BY <1>2, <1>3, <1>4, <1>5 DEF Ripples
<1>7. Low(u)[n] + carry[n] * Weight[n] = A[n] + carry[0]
  BY <1>1, <1>6, Ripple
<1>8. Low(u)[n] = Value(u)
  BY <1>1 DEF Value
<1>9. carry[n] \in Word
  BY <1>1, <1>2
<1>10. /\ u \o LastCarry(carry[n]) \in Seq(Word)
       /\ Value(u \o LastCarry(carry[n])) = Value(u) + carry[n] * Weight[n]
  BY <1>1, <1>9, TopLimb
<1> QED
  BY ONLY <1>3, <1>7, <1>8, <1>10

\* A limb times a word plus a carry: the low word and the high word make it
\* up.
LEMMA MulDigit ==
  ASSUME NEW x \in Word, NEW m \in Word, NEW c \in Word
  PROVE  /\ Wrap(x * m + c) \in Word
         /\ (x * m + c) \div Base \in Word
         /\ Wrap(x * m + c) + Base * ((x * m + c) \div Base) = x * m + c
<1> DEFINE t == x * m + c
           d == Base
<1>1. /\ x \in Nat /\ m \in Nat /\ c \in Nat /\ x <= d - 1 /\ m <= d - 1 /\ c <= d - 1
      /\ d \in Nat \ {0}
  BY WordIs, BaseIs
<1> HIDE DEF d
<1>2. t \in Nat /\ t < d * d
  <2> DEFINE p == x * m
  <2>1. x * m <= (d - 1) * m
    BY <1>1, TimesMono
  <2>2. m * (d - 1) <= (d - 1) * (d - 1)
    BY <1>1, TimesMono
  <2>3. (d - 1) * m = m * (d - 1) /\ (d - 1) * (d - 1) = d * d - d - d + 1
    BY <1>1
  <2>4. p \in Nat /\ d * d \in Nat /\ p <= d * d - d - d + 1
    BY <1>1, <2>1, <2>2, <2>3
  <2> HIDE DEF p
  <2>5. p + c \in Nat /\ p + c < d * d
    BY <1>1, <2>4
  <2> QED
    BY <2>5 DEF p
<1> HIDE DEF t
<1>3. PICK q \in Int, r \in 0 .. d - 1 : t = d * q + r /\ t \div d = q /\ t % d = r
  BY <1>1, <1>2, DivIs
<1>4. q \in Nat /\ q < d
  <2>1. ASSUME d <= q PROVE FALSE
    <3>1. d * d <= q * d
      BY <1>1, <2>1, TimesMono
    <3>2. q * d = d * q
      BY <1>1
    <3> QED
      BY <1>1, <1>2, <1>3, <3>1, <3>2
  <2>2. ASSUME q <= -1 PROVE FALSE
    <3>1. q * d <= (-1) * d
      BY <1>1, <2>2, TimesMono
    <3>2. q * d = d * q /\ (-1) * d = - d
      BY <1>1
    <3> QED
      BY <1>1, <1>2, <1>3, <3>1, <3>2
  <2> QED
    BY <1>1, <2>1, <2>2
<1>5. Wrap(t) = r
  BY <1>3 DEF Wrap, d
<1>6. r \in Word /\ q \in Word
  BY <1>1, <1>4, WordIs DEF d
<1>7. r + d * q = t
  <2>1. d * q \in Int
    BY <1>1
  <2> QED
    BY <1>1, <1>3, <2>1
<1>8. Wrap(t) \in Word /\ t \div d \in Word /\ Wrap(t) + d * (t \div d) = t
  BY ONLY <1>3, <1>5, <1>6, <1>7
<1> QED
  BY <1>8 DEF t, d

\* mul_u64 is exact.
LEMMA MulU64Is ==
  ASSUME NEW a \in Seq(Word), NEW m \in Word
  PROVE  MulU64(a, m) \in Number /\ Value(MulU64(a, m)) = Value(a) * m
<1> DEFINE n == Len(a)
           step(i, c) == (a[i] * m + c) \div Base
           Q == Word
           s == [i \in 1 .. n |-> [c \in Q |-> step(i, c)]]
           g == Threaded(n, 0, s)
           u == [i \in 1 .. n |-> Wrap(a[i] * m + g[i - 1])]
<1>1. MulU64From(a, m) = u \o LastCarry(g[n])
  BY DEF MulU64From
<1>2. ASSUME NEW i \in 1 .. n, NEW c \in Word PROVE step(i, c) \in Word
  <2>1. a[i] \in Word
    OBVIOUS
  <2> QED
    BY <2>1, MulDigit
<1> HIDE DEF g
<1>3. s \in Steps(1 .. n, Q) /\ 0 \in Q
  <2> HIDE DEF step
  <2> QED
    BY <1>2, BaseIs DEF Steps
<1>4. /\ g \in [0 .. n -> Q] /\ g[0] = 0
      /\ \A i \in 1 .. n : g[i] = s[i][g[i - 1]]
  <2> HIDE DEF s, Q
  <2> QED
    BY <1>3, ThreadedIs DEF g
<1>5. ASSUME NEW i \in 0 .. n - 1
      PROVE  /\ u[i + 1] \in Word
             /\ u[i + 1] + Base * g[i + 1] = Limb(a, i) * m + g[i]
  <2>1. i \in Nat /\ i + 1 \in 1 .. n /\ (i + 1) - 1 = i /\ i \in 0 .. n
    OBVIOUS
  <2>2. g[i] \in Word
    BY <1>4, <2>1
  <2>3. g[i + 1] = step(i + 1, g[i])
    <3>1. g[i + 1] = s[i + 1][g[i]]
      BY <1>4, <2>1
    <3> HIDE DEF step
    <3> QED
      BY <2>1, <2>2, <3>1
  <2>4. u[i + 1] = Wrap(a[i + 1] * m + g[i])
    BY <2>1
  <2>5. Limb(a, i) = a[i + 1] /\ a[i + 1] \in Word
    BY <2>1 DEF Limb
  <2> DEFINE x == a[i + 1]
             c == g[i]
  <2>6. /\ Wrap(x * m + c) \in Word
        /\ Wrap(x * m + c) + Base * ((x * m + c) \div Base) = x * m + c
    <3>1. x \in Word /\ c \in Word
      BY <2>2, <2>5
    <3> HIDE DEF x, c
    <3> QED
      BY <3>1, MulDigit
  <2> QED
    BY ONLY <2>3, <2>4, <2>5, <2>6 DEF x, c, step
<1>6. u = [i \in 1 .. n |-> u[i]]
  OBVIOUS
<1> HIDE DEF u
<1>7. u \in Seq(Word) /\ Len(u) = n /\ \A i \in 0 .. n - 1 : Limb(u, i) = u[i + 1]
  <2>1. n \in Nat
    OBVIOUS
  <2> QED
    BY <1>5, <1>6, <2>1, Words
<1>8. Scales(u, a, m, g)
  BY <1>4, <1>5, <1>7 DEF Scales
<1>9. /\ u \o LastCarry(g[n]) \in Seq(Word)
      /\ Value(u \o LastCarry(g[n])) = Value(a) * m + g[0]
  <2>1. m \in Nat
    BY WordIs
  <2> QED
    BY <1>7, <1>8, <2>1, Scaled
<1>10. Value(a) * m + 0 = Value(a) * m
  BY ValueIsNat, WordIs
<1> QED
  BY <1>1, <1>4, <1>9, <1>10, NormIs DEF MulU64

(* A word shifted left with what comes in below, and what goes out above.  *)
LEMMA ShlDigit ==
  ASSUME NEW x \in Word, NEW b \in 0 .. WordBits, NEW c \in Nat, c < Pow2[b]
  PROVE  /\ c \in Word
         /\ (ShlWord(x, b) | c) \in Word
         /\ ShrWord(x, WordBits - b) \in Nat
         /\ ShrWord(x, WordBits - b) < Pow2[b]
         /\ (ShlWord(x, b) | c) + Base * ShrWord(x, WordBits - b) = x * Pow2[b] + c
<1> DEFINE P == Pow2[b]
           R == Pow2[WordBits - b]
           B == Base
<1>1. b \in Nat /\ WordBits - b \in Nat /\ b <= WordBits /\ WordBits \in Nat
  BY BaseIs
<1>2. P \in Nat \ {0} /\ R \in Nat \ {0} /\ B \in Nat \ {0, 1} /\ B = P * R /\ P <= B
  BY <1>1, Pow2Pos, Pow2Split, BaseIs
<1>3. x \in Nat /\ x < B /\ c < P
  BY WordIs
<1>4. ShrWord(x, WordBits - b) = x \div R
  BY DEF ShrWord
<1>5. ShlWord(x, b) = (x * P) % B
  BY DEF ShlWord, Wrap
<1>6. \A y : y \in Word <=> y \in Nat /\ y < B
  BY WordIs
<1>7. ASSUME NEW r \in Nat, NEW y \in Word, y = r * P, NEW j \in 0 .. WordBits - 1
      PROVE  Bit(y, j) = 0 \/ Bit(c, j) = 0
  <2>1. CASE j < b
    <3>1. j \in 0 .. b - 1
      BY <1>1, <2>1
    <3>2. y \in Nat
      BY <1>6
    <3> QED
      BY <1>1, <1>7, <3>1, <3>2, ZeroBitsBelow
  <2>2. CASE b <= j
    <3>1. j \in Nat
      BY <1>1
    <3> QED
      BY <1>1, <2>2, <3>1, ZeroBitsAbove
  <2> QED
    BY <1>1, <2>1, <2>2
<1> HIDE DEF P, R, B
<1>8. PICK q \in Int, r \in 0 .. R - 1 : x = R * q + r /\ x \div R = q
  BY <1>2, <1>3, DivIs
<1>9. q \in Nat /\ q < P
  <2>1. ASSUME P <= q PROVE FALSE
    <3>1. P * R <= q * R
      BY <1>2, <2>1, TimesMono
    <3>2. q * R = R * q /\ R * q \in Int
      BY <1>2
    <3> QED
      BY <1>2, <1>3, <1>8, <3>1, <3>2
  <2>2. ASSUME q <= -1 PROVE FALSE
    <3>1. q * R <= (-1) * R
      BY <1>2, <2>2, TimesMono
    <3>2. q * R = R * q /\ (-1) * R = - R
      BY <1>2
    <3> QED
      BY <1>2, <1>3, <1>8, <3>1, <3>2
  <2> QED
    BY <1>2, <2>1, <2>2
<1> DEFINE s == r * P
<1>10. s \in Nat /\ s <= B - P
  <2>1. r * P <= (R - 1) * P
    BY <1>2, TimesMono
  <2>2. (R - 1) * P = P * R - P
    BY <1>2
  <2> QED
    BY <1>2, <2>1, <2>2
<1>11. x * P = B * q + s
  <2>1. x * P = (R * q) * P + r * P
    BY <1>2, <1>8
  <2>2. (R * q) * P = (P * R) * q
    BY <1>2
  <2> QED
    BY <1>2, <2>1, <2>2
<1>12. s = r * P /\ s \in 0 .. B - 1
  BY <1>2, <1>10
<1> HIDE DEF s
<1>13. x * P \in Int /\ B * q \in Int
  BY <1>2, <1>3
<1>14. (x * P) % B = s
  <2> DEFINE t == x * P
  <2>1. t \in Int /\ t = B * q + s /\ B \in Nat \ {0}
    BY <1>2, <1>11, <1>13
  <2> HIDE DEF t
  <2>2. t % B = s
    BY ZenonT(60), <1>12, <2>1, DivModOf
  <2> QED
    BY <2>2 DEF t
<1>15. c \in Word /\ s \in Word
  BY <1>2, <1>3, <1>6, <1>12
<1>16. (s | c) = s + c
  <2>1. \A j \in 0 .. WordBits - 1 : Bit(s, j) = 0 \/ Bit(c, j) = 0
    BY <1>7, <1>12, <1>15
  <2> QED
    BY <1>15, <2>1, OrDisjoint
<1>17. s + c \in Word
  BY <1>2, <1>3, <1>6, <1>10
<1>18. (s + c) + B * q = x * P + c
  BY <1>3, <1>10, <1>11, <1>13
<1> QED
  BY ONLY <1>4, <1>5, <1>8, <1>9, <1>14, <1>15, <1>16, <1>17, <1>18 DEF P, B

(* Limbs on top of limbs.                                                  *)
LEMMA OnTop ==
  ASSUME NEW u \in Seq(Word), NEW t \in Seq(Word)
  PROVE  /\ u \o t \in Seq(Word)
         /\ Value(u \o t) = Value(u) + Value(t) * Weight[Len(u)]
<1> DEFINE v == u \o t
           m == Len(u)
           n == Len(t)
<1>1. v \in Seq(Word) /\ Len(v) = m + n /\ n \in Nat /\ m \in Nat
  OBVIOUS
<1>2. \A i \in 0 .. m - 1 : Limb(v, i) = Limb(u, i)
  BY <1>1 DEF Limb
<1>3. \A i \in 0 .. n - 1 : Limb(v, m + i) = Limb(t, i)
  BY <1>1 DEF Limb
<1> HIDE DEF v
<1> DEFINE w == Weight[m]
           V == Value(u)
           T == {i \in 0 .. n : Low(v)[m + i] = V + Low(t)[i] * w}
<1>4. w \in Nat /\ V \in Nat /\ V = Low(u)[m]
  <2>1. w \in Nat
    BY <1>1, WeightIs
  <2> QED
    BY <2>1, ValueIsNat DEF Value
<1> HIDE DEF V, m
<1>5. 0 \in T
  <2>1. \A i \in 0 .. m : Low(v)[i] = Low(u)[i]
    BY <1>1, <1>2, LowSame
  <2>2. m + 0 = m /\ 0 * w = 0 /\ V + 0 = V /\ 0 \in 0 .. n /\ m \in 0 .. m
    BY <1>1, <1>4
  <2>3. Low(t)[0] = 0
    BY LowIs
  <2> QED
    BY <1>4, <2>1, <2>2, <2>3
<1>6. ASSUME NEW i \in 1 .. n, i - 1 \in T PROVE i \in T
  <2> DEFINE k == i - 1
  <2>1. k \in Nat /\ k + 1 = i /\ m + k \in Nat /\ m + i = (m + k) + 1 /\ k \in 0 .. n - 1
    BY <1>1
  <2>2. Low(v)[m + k] = V + Low(t)[k] * w
    BY <1>6
  <2> HIDE DEF k
  <2> DEFINE x == Limb(t, k)
             z == Weight[k]
             l == Low(t)[k]
  <2>3. x \in Int /\ z \in Int /\ l \in Int
    <3>1. x \in Nat
      BY <2>1, LimbIs
    <3>2. z \in Nat
      BY <2>1, WeightIs
    <3>3. l \in Nat
      BY <2>1, LowBound
    <3> QED
      BY <3>1, <3>2, <3>3
  <2>4. Low(v)[m + i] = (V + l * w) + x * (w * z)
    <3>1. Low(v)[(m + k) + 1] = Low(v)[m + k] + Limb(v, m + k) * Weight[m + k]
      BY <1>1, <2>1, LowStep
    <3>2. Weight[m + k] = w * z
      BY <1>1, <2>1, WeightPlus
    <3>3. Limb(v, m + k) = x
      BY <1>3, <2>1
    <3> QED
      BY ONLY <2>1, <2>2, <3>1, <3>2, <3>3
  <2>5. Low(t)[i] = l + x * z
    BY <2>1, LowStep
  <2> HIDE DEF x, z, l
  <2>6. (l + x * z) * w = l * w + (x * z) * w /\ (x * z) * w = x * (w * z)
    BY <1>4, <2>3
  <2>7. (V + l * w) + x * (w * z) = V + (l * w + x * (w * z))
    BY <1>4, <2>3
  <2>8. Low(v)[m + i] = V + Low(t)[i] * w
    BY ONLY <2>4, <2>5, <2>6, <2>7
  <2> QED
    BY <2>8
<1>7. n \in T
  <2> HIDE DEF T
  <2>1. \A i \in 1 .. n : i - 1 \in T => i \in T
    BY <1>6
  <2>2. \A i \in 0 .. n : i \in T
    BY <1>1, <1>5, <2>1, UpTo
  <2> QED
    BY <1>1, <2>2
<1>8. Low(v)[m + n] = V + Value(t) * w
  BY <1>7 DEF Value
<1>9. Value(v) = Low(v)[m + n]
  BY <1>1 DEF Value
<1> QED
  BY ONLY <1>1, <1>8, <1>9 DEF v, V, m

Zeros(j) == [i \in 1 .. j |-> 0]

\* Zero limbs pushed below multiply by a weight.
LEMMA ZeroPrefix ==
  ASSUME NEW j \in Nat, NEW u \in Seq(Word)
  PROVE  /\ Zeros(j) \o u \in Seq(Word)
         /\ Value(Zeros(j) \o u) = Value(u) * Weight[j]
<1> DEFINE z == Zeros(j)
<1>1. z \in Seq(Word) /\ Len(z) = j /\ \A i \in 0 .. 0 + j - 1 : Limb(z, i) = 0
  BY BaseIs DEF Zeros, Limb
<1> HIDE DEF z
<1>2. Low(z)[0 + j] = Low(z)[0]
  <2>1. 0 \in Nat /\ j \in 0 .. j
    OBVIOUS
  <2> QED
    BY <1>1, <2>1, LowZeros
<1>3. Value(z) = 0
  <2>1. 0 + j = j
    OBVIOUS
  <2> QED
    BY <1>1, <1>2, <2>1, LowIs DEF Value
<1>4. z \o u \in Seq(Word) /\ Value(z \o u) = 0 + Value(u) * Weight[j]
  BY <1>1, <1>3, OnTop
<1>5. Value(u) * Weight[j] \in Nat
  BY ValueIsNat, WeightIs
<1> QED
  BY <1>4, <1>5 DEF z

(* A shift by less than a word, onto what is there already.                *)
ShlCarries(v, b, c) ==
  [i \in 0 .. Len(v) |-> IF i = 0 THEN c ELSE ShrWord(v[i], WordBits - b)]

ShlLimbs(v, b, c) ==
  [i \in 1 .. Len(v) |-> ShlWord(v[i], b) | ShlCarries(v, b, c)[i - 1]]

ShlResult(v, b, c) == ShlLimbs(v, b, c) \o LastCarry(ShlCarries(v, b, c)[Len(v)])

\* shl_bits_from multiplies by 2^b and adds what is shifted in.
LEMMA ShlBitsIs ==
  ASSUME NEW v \in Seq(Word), NEW b \in 0 .. WordBits, NEW c \in Nat, c < Pow2[b]
  PROVE  /\ ShlLimbs(v, b, c) \in Seq(Word)
         /\ ShlCarries(v, b, c)[Len(v)] \in Word
         /\ ShlResult(v, b, c) \in Seq(Word)
         /\ Value(ShlResult(v, b, c)) = Value(v) * Pow2[b] + c
<1> DEFINE n == Len(v)
           high == ShlCarries(v, b, c)
           u == ShlLimbs(v, b, c)
<1>0. /\ high = [i \in 0 .. Len(v) |-> IF i = 0 THEN c ELSE ShrWord(v[i], WordBits - b)]
      /\ u = [i \in 1 .. Len(v) |-> ShlWord(v[i], b) | high[i - 1]]
  BY DEF ShlCarries, ShlLimbs
<1> HIDE DEF high, u
<1>1. n \in Nat /\ 0 \in 0 .. n /\ high[0] = c
  BY <1>0
<1>2. \A i \in 0 .. n : high[i] \in Nat /\ high[i] < Pow2[b] /\ high[i] \in Word
  <2> TAKE i \in 0 .. n
  <2>1. CASE i = 0
    <3>1. high[i] = c /\ c \in Word
      BY <1>1, <2>1, BaseIs, ShlDigit
    <3> QED
      BY <3>1
  <2>2. CASE i # 0
    <3>1. i \in 1 .. n /\ high[i] = ShrWord(v[i], WordBits - b) /\ v[i] \in Word
      BY <1>0, <2>2
    <3>2. high[i] \in Nat /\ high[i] < Pow2[b]
      BY <3>1, ShlDigit
    <3> QED
      BY <3>2, BaseIs, ShlDigit
  <2> QED
    BY <2>1, <2>2
<1>3. ASSUME NEW i \in 0 .. n - 1
      PROVE  /\ u[i + 1] \in Word
             /\ u[i + 1] + Base * high[i + 1] = Limb(v, i) * Pow2[b] + high[i]
  <2>1. i + 1 \in 1 .. n /\ i \in 0 .. n /\ i + 1 \in 0 .. n /\ (i + 1) - 1 = i /\ i + 1 # 0
    OBVIOUS
  <2>2. u[i + 1] = (ShlWord(v[i + 1], b) | high[i])
    BY <1>0, <2>1
  <2>3. high[i + 1] = ShrWord(v[i + 1], WordBits - b)
    BY <1>0, <2>1
  <2>4. Limb(v, i) = v[i + 1] /\ v[i + 1] \in Word
    BY <2>1 DEF Limb
  <2>5. high[i] \in Nat /\ high[i] < Pow2[b]
    BY <1>2, <2>1
  <2>6. /\ (ShlWord(v[i + 1], b) | high[i]) \in Word
        /\ (ShlWord(v[i + 1], b) | high[i]) + Base * ShrWord(v[i + 1], WordBits - b)
             = v[i + 1] * Pow2[b] + high[i]
    BY <2>4, <2>5, ShlDigit
  <2> QED
    BY ONLY <2>2, <2>3, <2>4, <2>6
<1>4. u = [i \in 1 .. n |-> u[i]]
  BY <1>0
<1>5. u \in Seq(Word) /\ Len(u) = n /\ \A i \in 0 .. n - 1 : Limb(u, i) = u[i + 1]
  <2>1. n \in Nat /\ \A i \in 0 .. n - 1 : u[i + 1] \in Word
    BY <1>1, <1>3
  <2> HIDE DEF n
  <2> QED
    BY ONLY <2>1, <1>4, Words
<1>6. Scales(u, v, Pow2[b], high)
  BY <1>2, <1>3, <1>5 DEF Scales
<1>7. Pow2[b] \in Nat /\ v \in Seq(Word)
  BY Pow2Pos
<1>8. /\ u \o LastCarry(high[n]) \in Seq(Word)
      /\ Value(u \o LastCarry(high[n])) = Value(v) * Pow2[b] + high[0]
  BY ONLY <1>5, <1>6, <1>7, Scaled
<1>9. high[n] \in Word
  BY <1>1, <1>2
<1> QED
  BY ONLY <1>1, <1>5, <1>8, <1>9 DEF ShlResult, high, u

\* Concatenation is associative.
LEMMA ConcatConcat ==
  ASSUME NEW S, NEW x \in Seq(S), NEW y \in Seq(S), NEW z \in Seq(S)
  PROVE  (x \o y) \o z = x \o (y \o z)
<1> DEFINE u == (x \o y) \o z
           v == x \o (y \o z)
<1>1. u \in Seq(S) /\ v \in Seq(S) /\ Len(u) = Len(v)
  OBVIOUS
<1>2. ASSUME NEW i \in 1 .. Len(u) PROVE u[i] = v[i]
  OBVIOUS
<1> HIDE DEF u, v
<1> QED
  BY ONLY <1>1, <1>2

\* shl_onto, onto j zero limbs, multiplies by 2^b and the weight of j limbs.
LEMMA ShlOntoIs ==
  ASSUME NEW a \in Seq(Word), NEW b \in 0 .. WordBits - 1, NEW j \in Nat
  PROVE  /\ ShlOnto(a, b, Zeros(j)) \in Number
         /\ Value(ShlOnto(a, b, Zeros(j))) = (Value(a) * Pow2[b]) * Weight[j]
<1>1. CASE b = 0
  <2> DEFINE u == [k \in 1 .. Len(a) |-> a[k + 0]]
  <2>1. Min({Len(a), Len(a)}) - 0 = Len(a)
    BY MinOfTwo
  <2>2. u = a
    OBVIOUS
  <2>3. ShlOnto(a, b, Zeros(j)) = Norm(Zeros(j) \o a)
    <3>1. \A k \in 1 .. Len(a) : k + 0 = k /\ 0 + k = k
      OBVIOUS
    <3>2. [k \in 1 .. Len(a) |-> a[0 + k]] = a
      BY <3>1
    <3> QED
      BY <1>1, <2>1, <3>2 DEF ShlOnto, CopyFrom
  <2>4. Pow2[0] = 1 /\ Value(a) * 1 = Value(a)
    BY Pow2Is, ValueIsNat
  <2>5. Zeros(j) \o a \in Seq(Word) /\ Value(Zeros(j) \o a) = Value(a) * Weight[j]
    BY ZeroPrefix
  <2>6. Norm(Zeros(j) \o a) \in Number /\ Value(Norm(Zeros(j) \o a)) = Value(a) * Weight[j]
    BY <2>5, NormIs
  <2> QED
    BY ONLY <1>1, <2>3, <2>4, <2>6
<1>2. CASE b # 0
  <2> DEFINE high == ShlCarries(a, b, 0)
             u == ShlLimbs(a, b, 0)
             w == ShlResult(a, b, 0)
  <2>1. b \in 0 .. WordBits /\ 0 < Pow2[b] /\ Pow2[b] \in Nat /\ 0 \in Nat
    BY Pow2Pos, BaseIs
  <2>2. /\ u \in Seq(Word) /\ high[Len(a)] \in Word
        /\ w \in Seq(Word) /\ Value(w) = Value(a) * Pow2[b] + 0
    BY <2>1, ShlBitsIs
  <2>3. ShlBitsFrom(a, b, Zeros(j)) = Zeros(j) \o w
    <3>1. \A i \in 1 .. Len(a) : i - 1 \in 0 .. Len(a) /\ (i - 1 = 0 <=> i = 1)
      OBVIOUS
    <3>2. ShlBitsFrom(a, b, Zeros(j)) = (Zeros(j) \o u) \o LastCarry(high[Len(a)])
      BY <3>1 DEF ShlBitsFrom, ShlCarries, ShlLimbs
    <3>3. u \in Seq(Word) /\ LastCarry(high[Len(a)]) \in Seq(Word) /\ Zeros(j) \in Seq(Word)
      <4> HIDE DEF u, high
      <4> QED
        BY <2>2, BaseIs DEF LastCarry, Zeros
    <3>4. w = u \o LastCarry(high[Len(a)])
      BY DEF ShlResult
    <3> HIDE DEF u, high, w
    <3>5. (Zeros(j) \o u) \o LastCarry(high[Len(a)])
            = Zeros(j) \o (u \o LastCarry(high[Len(a)]))
      BY ONLY <3>3, ConcatConcat
    <3> QED
      BY ONLY <3>2, <3>4, <3>5
  <2>4. Value(a) * Pow2[b] + 0 = Value(a) * Pow2[b]
    BY <2>1, ValueIsNat
  <2>5. ShlOnto(a, b, Zeros(j)) = Norm(Zeros(j) \o w)
    BY <1>2, <2>3 DEF ShlOnto
  <2> HIDE DEF w
  <2>6. Zeros(j) \o w \in Seq(Word) /\ Value(Zeros(j) \o w) = Value(w) * Weight[j]
    BY <2>2, ZeroPrefix
  <2>7. /\ Norm(Zeros(j) \o w) \in Number
        /\ Value(Norm(Zeros(j) \o w)) = Value(w) * Weight[j]
    BY <2>6, NormIs
  <2> QED
    BY ONLY <2>2, <2>4, <2>5, <2>7
<1> QED
  BY <1>1, <1>2

(* A shift by a word is a product by a power of two.                       *)
LEMMA ShiftLeftIs ==
  ASSUME NEW a \in Seq(Word), NEW k \in Nat
  PROVE  ShiftLeft(a, k) \in Number /\ Value(ShiftLeft(a, k)) = Value(a) * Pow2[k]
<1>0. Value(a) \in Nat /\ Pow2[k] \in Nat
  BY ValueIsNat, Pow2Pos
<1>1. CASE IsZero(a)
  <2>1. ShiftLeft(a, k) = Zero /\ Value(a) = 0
    BY <1>1, LowIs DEF ShiftLeft, IsZero, Value
  <2>2. Zero = FromU64(0) /\ 0 \in Word
    BY BaseIs DEF FromU64
  <2>3. Zero \in Number /\ Value(Zero) = 0
    BY <2>2, FromU64Is
  <2>4. 0 * Pow2[k] = 0
    BY <1>0
  <2> QED
    BY ONLY <2>1, <2>3, <2>4
<1>2. CASE ~ IsZero(a)
  <2>1. PICK q \in Int, b \in 0 .. WordBits - 1 :
          k = WordBits * q + b /\ k \div WordBits = q /\ k % WordBits = b
    <3>1. WordBits \in Nat \ {0} /\ k \in Int
      BY BaseIs
    <3> QED
      BY ONLY <3>1, DivIs
  <2>2. q \in Nat
    <3>1. ASSUME q <= -1 PROVE FALSE
      <4>1. q * WordBits <= (-1) * WordBits
        BY <3>1, BaseIs, TimesMono
      <4>2. q * WordBits = WordBits * q /\ (-1) * WordBits = - WordBits /\ WordBits \in Nat
        BY BaseIs
      <4> QED
        BY <2>1, <4>1, <4>2
    <3> QED
      BY <3>1
  <2>3. PushZeros(<<>>, q) = Zeros(q)
    BY <2>2 DEF PushZeros, Zeros
  <2>4. ShiftLeft(a, k) = ShlOnto(a, b, Zeros(q))
    BY ONLY <1>2, <2>1, <2>3 DEF ShiftLeft
  <2>5. /\ ShlOnto(a, b, Zeros(q)) \in Number
        /\ Value(ShlOnto(a, b, Zeros(q))) = (Value(a) * Pow2[b]) * Weight[q]
    BY <2>2, ShlOntoIs
  <2>6. Pow2[k] = Weight[q] * Pow2[b]
    <3>1. WordBits * q \in Nat /\ b \in Nat
      BY <2>1, <2>2, BaseIs
    <3>2. Pow2[WordBits * q + b] = Pow2[WordBits * q] * Pow2[b]
      BY <3>1, Pow2Plus
    <3> QED
      BY ONLY <2>1, <2>2, <3>2, WeightIsPow2
  <2>7. (Value(a) * Pow2[b]) * Weight[q] = Value(a) * (Weight[q] * Pow2[b])
    <3>1. Pow2[b] \in Nat /\ Weight[q] \in Nat
      <4>1. b \in Nat
        BY <2>1, BaseIs
      <4>2. Pow2[b] \in Nat
        BY <4>1, Pow2Pos
      <4>3. Weight[q] \in Nat
        BY <2>2, WeightIs
      <4> QED
        BY <4>2, <4>3
    <3> QED
      BY <1>0, <3>1
  <2> QED
    BY ONLY <2>4, <2>5, <2>6, <2>7
<1> QED
  BY <1>1, <1>2

(* Twice a number with a bit below, the step of the division.              *)
LEMMA Shl1OrIs ==
  ASSUME NEW a \in Seq(Word), NEW bit \in {0, 1}
  PROVE  Shl1Or(a, bit) \in Number /\ Value(Shl1Or(a, bit)) = 2 * Value(a) + bit
<1> DEFINE w == ShlResult(a, 1, bit)
<1>1. Pow2[1] = 2
  <2>1. Pow2[0 + 1] = 2 * Pow2[0] /\ Pow2[0] = 1
    BY Pow2Step, Pow2Is
  <2> QED
    BY <2>1
<1>2. 1 \in 0 .. WordBits /\ bit \in Nat /\ bit < Pow2[1]
  BY <1>1, BaseIs
<1>3. w \in Seq(Word) /\ Value(w) = Value(a) * Pow2[1] + bit
  BY <1>2, ShlBitsIs
<1>4. Shl1From(a, bit) = w
  <2>1. \A i \in 1 .. Len(a) : i - 1 \in 0 .. Len(a) /\ (i - 1 = 0 <=> i = 1)
    OBVIOUS
  <2> QED
    BY <2>1 DEF Shl1From, ShlResult, ShlLimbs, ShlCarries
<1> HIDE DEF w
<1>5. Value(a) * 2 + bit = 2 * Value(a) + bit
  BY <1>2, ValueIsNat
<1>6. Norm(w) \in Number /\ Value(Norm(w)) = Value(w)
  BY <1>3, NormIs
<1> QED
  BY ONLY <1>1, <1>3, <1>4, <1>5, <1>6 DEF Shl1Or

(* Multiplication by rows: after i rows the product with the limbs below.  *)
LEMMA MulIs ==
  ASSUME NEW a \in Seq(Word), NEW b \in Seq(Word)
  PROVE  Mul(a, b) \in Number /\ Value(Mul(a, b)) = Value(a) * Value(b)
<1> DEFINE n == Len(b)
           row(i) == ShiftLeft(MulU64(a, b[i]), WordBits * (i - 1))
           Q == Seq(Word)
           s == [i \in 1 .. n |-> [acc \in Q |-> Add(acc, row(i))]]
           g == Threaded(n, Zero, s)
           A == Value(a)
           T == {i \in 0 .. n : g[i] \in Number /\ Value(g[i]) = A * Low(b)[i]}
<1>0. n \in Nat /\ A \in Nat
  BY ValueIsNat
<1>1. Mul(a, b) = g[n]
  BY DEF Mul, MulFrom
<1>2. ASSUME NEW i \in 1 .. n
      PROVE  row(i) \in Seq(Word) /\ Value(row(i)) = (A * b[i]) * Weight[i - 1]
  <2>1. b[i] \in Word /\ i - 1 \in Nat /\ WordBits * (i - 1) \in Nat
    BY BaseIs
  <2>2. MulU64(a, b[i]) \in Seq(Word) /\ Value(MulU64(a, b[i])) = A * b[i]
    BY <2>1, MulU64Is DEF Number
  <2>3. row(i) \in Number /\ Value(row(i)) = (A * b[i]) * Pow2[WordBits * (i - 1)]
    BY <2>1, <2>2, ShiftLeftIs
  <2> HIDE DEF row
  <2> QED
    BY <2>1, <2>3, WeightIsPow2 DEF Number
<1> HIDE DEF g, row, A
<1>3. s \in Steps(1 .. n, Q) /\ Zero \in Q
  BY <1>2, AddIs DEF Steps, Number, Zero
<1>4. /\ g \in [0 .. n -> Q] /\ g[0] = Zero
      /\ \A i \in 1 .. n : g[i] = s[i][g[i - 1]]
  <2> HIDE DEF s, Q
  <2> QED
    BY <1>3, <1>0, ThreadedIs DEF g
<1>5. 0 \in T
  <2>1. Zero \in Number /\ Value(Zero) = 0
    <3>1. FromU64(0) = Zero /\ 0 \in Word
      BY BaseIs DEF FromU64
    <3> QED
      BY <3>1, FromU64Is
  <2>2. Low(b)[0] = 0 /\ A * 0 = 0 /\ 0 \in 0 .. n
    BY <1>0, LowIs
  <2> QED
    BY <1>4, <2>1, <2>2
<1>6. ASSUME NEW i \in 1 .. n, i - 1 \in T PROVE i \in T
  <2>1. i - 1 \in Nat /\ i - 1 \in 0 .. n /\ i - 1 < n /\ (i - 1) + 1 = i /\ i \in 0 .. n
    BY <1>0
  <2>2. g[i - 1] \in Seq(Word) /\ g[i] = Add(g[i - 1], row(i))
    <3>1. g[i - 1] \in Q /\ g[i] = s[i][g[i - 1]]
      BY <1>4, <2>1
    <3> QED
      BY <3>1
  <2> DEFINE l == Low(b)[i - 1]
             w == Weight[i - 1]
             x == b[i]
  <2>3. l \in Nat /\ w \in Nat /\ x \in Nat
    <3>1. l \in Nat
      BY <2>1, LowBound
    <3>2. w \in Nat
      BY <2>1, WeightIs
    <3>3. x \in Word
      OBVIOUS
    <3> QED
      BY <3>1, <3>2, <3>3, WordIs
  <2>4. g[i] \in Number /\ Value(g[i]) = A * l + (A * x) * w
    BY <1>2, <1>6, <2>2, AddIs
  <2>5. Low(b)[i] = l + x * w
    <3>1. Low(b)[(i - 1) + 1] = Low(b)[i - 1] + Limb(b, i - 1) * Weight[i - 1]
      BY <2>1, LowStep
    <3>2. Limb(b, i - 1) = b[i]
      BY <2>1 DEF Limb
    <3> QED
      BY ONLY <2>1, <3>1, <3>2
  <2> HIDE DEF l, w, x
  <2>6. A * (l + x * w) = A * l + (A * x) * w
    BY <1>0, <2>3
  <2> QED
    BY ONLY <2>1, <2>4, <2>5, <2>6
<1>7. n \in T
  <2> HIDE DEF T
  <2>1. \A i \in 1 .. n : i - 1 \in T => i \in T
    BY <1>6
  <2>2. \A i \in 0 .. n : i \in T
    BY <1>0, <1>5, <2>1, UpTo
  <2> QED
    BY <1>0, <2>2
<1> QED
  BY ONLY <1>1, <1>7 DEF A, Value

-----------------------------------------------------------------------------
(* A word shifted by one, with a bit below it.                             *)
LEMMA NextBit ==
  ASSUME NEW q \in Word
  PROVE  /\ ShlWord(q, 1) \in Word
         /\ (ShlWord(q, 1) | 1) \in Word
         /\ 2 * q < Base => ShlWord(q, 1) = 2 * q
         /\ 2 * q + 1 < Base => (ShlWord(q, 1) | 1) = 2 * q + 1
<1>1. Pow2[1] = 2
  <2>1. Pow2[0 + 1] = 2 * Pow2[0] /\ Pow2[0] = 1
    BY Pow2Step, Pow2Is
  <2> QED
    BY <2>1
<1>2. 1 \in 0 .. WordBits /\ 1 \in Nat /\ 1 < Pow2[1] /\ Base \in Nat
  BY <1>1, BaseIs
<1>3. q \in Nat
  BY WordIs
<1>4. ShlWord(q, 1) = Wrap(2 * q)
  <2>1. q * 2 = 2 * q
    BY <1>3
  <2> QED
    BY ONLY <1>1, <2>1 DEF ShlWord
<1>5. Wrap(2 * q) \in Word /\ (2 * q < Base => Wrap(2 * q) = 2 * q)
  BY <1>2, <1>3, WrapIs, WrapOf
<1> DEFINE x == (ShlWord(q, 1) | 1)
           h == ShrWord(q, WordBits - 1)
<1>6. /\ x \in Word /\ h \in Nat
      /\ x + Base * h = q * Pow2[1] + 1
  BY <1>2, ShlDigit
<1> HIDE DEF x, h
<1>7. x + Base * h = 2 * q + 1 /\ x \in Nat
  BY <1>1, <1>3, <1>6, WordIs
<1>8. ASSUME 2 * q + 1 < Base PROVE x = 2 * q + 1
  <2>1. ASSUME 1 <= h PROVE FALSE
    <3>1. 1 * Base <= h * Base
      BY <1>2, <1>6, <2>1, TimesMono
    <3> DEFINE y == Base * h
    <3>2. h * Base = y /\ 1 * Base = Base /\ y \in Int /\ x + y = 2 * q + 1
      BY <1>2, <1>6, <1>7
    <3> HIDE DEF y
    <3>3. Base <= y
      BY ONLY <3>1, <3>2
    <3> QED
      BY ONLY <1>2, <1>3, <1>7, <1>8, <3>2, <3>3
  <2>2. h = 0
    BY <1>6, <2>1
  <2> QED
    BY <1>2, <1>7, <2>2
<1> QED
  BY <1>4, <1>5, <1>6, <1>8 DEF x

(* One step of the division: the remainder stays below the divisor, and    *)
(* what was divided is the quotient's new bit times the divisor with it.   *)
LEMMA DmStepIs ==
  ASSUME NEW b \in Number, NEW r \in Number, NEW q \in Word
  PROVE  /\ DmStep(b, r, q)[1] \in Word /\ DmStep(b, r, q)[2] \in Number
         /\ DmStep(b, r, q) = <<DmStep(b, r, q)[1], DmStep(b, r, q)[2]>>
         /\ Value(r) < 2 * Value(b) /\ 2 * q + 1 < Base =>
              \E bit \in {0, 1} :
                /\ DmStep(b, r, q)[1] = 2 * q + bit
                /\ Value(r) = bit * Value(b) + Value(DmStep(b, r, q)[2])
                /\ Value(DmStep(b, r, q)[2]) < Value(b)
<1> DEFINE B == Value(b)
           R == Value(r)
<1>1. B \in Nat /\ R \in Nat /\ q \in Nat /\ Base \in Nat
  BY ValueIsNat, WordIs, BaseIs DEF Number
<1>2. Cmp(r, b) = "lt" <=> R < B
  BY <1>1, CmpIs DEF Order
<1>3. CASE R < B
  <2>1. DmStep(b, r, q) = <<ShlWord(q, 1), r>>
    BY <1>2, <1>3 DEF DmStep
  <2>2. 2 * q + 1 < Base => ShlWord(q, 1) = 2 * q + 0
    BY <1>1, NextBit
  <2>3. R = 0 * B + R
    BY <1>1
  <2>4. ShlWord(q, 1) \in Word
    BY NextBit
  <2> QED
    BY <1>3, <2>1, <2>2, <2>3, <2>4
<1>4. CASE ~ (R < B)
  <2>1. DmStep(b, r, q) = <<ShlWord(q, 1) | 1, Sub(r, b)>>
    BY <1>2, <1>4 DEF DmStep
  <2>2. Sub(r, b) \in Number /\ Value(Sub(r, b)) = R - B
    <3>1. Value(Sub(r, b)) = IF B < R THEN R - B ELSE 0
      BY SubIs
    <3> QED
      BY <1>1, <1>4, <3>1, SubIs
  <2>3. R = 1 * B + (R - B) /\ (R < 2 * B => R - B < B)
    BY <1>1
  <2>4. (ShlWord(q, 1) | 1) \in Word /\ (2 * q + 1 < Base => (ShlWord(q, 1) | 1) = 2 * q + 1)
    BY NextBit
  <2> QED
    BY <2>1, <2>2, <2>3, <2>4
<1> QED
  BY <1>3, <1>4

\* Of the words and remainders the bits of x are threaded through: what is
\* done of the division is exact, and the bits below k are still to come.
BitsDone(q, r, j, k, b, x, R) ==
  /\ q \in Word /\ q < Pow2[j]
  /\ r \in Number /\ Value(r) < Value(b)
  /\ (q * Value(b) + Value(r)) * Pow2[k] + LowBits(x, k) = R * Base + x

\* One step of the division keeps the equation of its bits.
LEMMA BitDone ==
  ASSUME NEW b \in Number, NEW x \in Word, NEW R \in Nat, NEW j \in Nat, NEW k \in Nat,
         j + 1 + k = WordBits, NEW q, NEW r, BitsDone(q, r, j, k + 1, b, x, R),
         NEW t, t = DmStep(b, Shl1Or(r, Bit(x, k)), q)
  PROVE  BitsDone(t[1], t[2], j + 1, k, b, x, R)
<1> DEFINE B == Value(b)
           V == Value(r)
           i == Bit(x, k)
           r1 == Shl1Or(r, i)
           p == Pow2[k]
           l == LowBits(x, k)
<1>1. /\ q \in Word /\ q < Pow2[j] /\ r \in Number /\ V < B
      /\ (q * B + V) * Pow2[k + 1] + LowBits(x, k + 1) = R * Base + x
  BY DEF BitsDone
<1>2. B \in Nat /\ V \in Nat /\ q \in Nat /\ Base \in Nat /\ x \in Nat
  BY <1>1, ValueIsNat, WordIs, BaseIs DEF Number
<1>3. i \in {0, 1} /\ l \in Nat /\ LowBits(x, k + 1) = l + i * p /\ p \in Nat /\ Pow2[k + 1] = 2 * p
  BY <1>2, LowBitsStep, Pow2Pos, Pow2Step
<1>4. r1 \in Number /\ Value(r1) = 2 * V + i
  BY <1>1, <1>3, Shl1OrIs DEF Number
<1>5. Pow2[j + 1] = 2 * Pow2[j] /\ Pow2[j] \in Nat /\ Pow2[j + 1] <= Base
  <2>1. j + 1 \in Nat /\ j + 1 <= WordBits
    BY BaseIs
  <2> QED
    BY <2>1, Pow2Step, Pow2Pos, Pow2Split, BaseIs
<1>6. Value(r1) < 2 * B /\ 2 * q + 1 < Base
  BY <1>1, <1>2, <1>3, <1>4, <1>5
<1>7. t = DmStep(b, r1, q)
  OBVIOUS
<1> HIDE DEF r1, B, V, i, p, l
<1>8. PICK bit \in {0, 1} :
        /\ t[1] = 2 * q + bit
        /\ Value(r1) = bit * B + Value(t[2])
        /\ Value(t[2]) < B
  <2>1. b \in Number /\ r1 \in Number /\ q \in Word /\ Value(r1) < 2 * Value(b) /\ 2 * q + 1 < Base
    BY <1>1, <1>4, <1>6 DEF B
  <2>2. \E bit \in {0, 1} :
          /\ DmStep(b, r1, q)[1] = 2 * q + bit
          /\ Value(r1) = bit * Value(b) + Value(DmStep(b, r1, q)[2])
          /\ Value(DmStep(b, r1, q)[2]) < Value(b)
    BY ONLY <2>1, DmStepIs
  <2> QED
    BY ONLY <1>7, <2>2 DEF B
<1>9. t[1] \in Word /\ t[2] \in Number
  BY <1>1, <1>4, <1>7, DmStepIs
<1> DEFINE S == Value(t[2])
<1>10. S \in Nat
  BY <1>9, ValueIsNat DEF Number
<1> HIDE DEF S
<1>11. t[1] < Pow2[j + 1]
  BY <1>1, <1>2, <1>5, <1>8
<1>12. ((2 * q + bit) * B + S) * p + l = (q * B + V) * (2 * p) + (l + i * p)
  <2>1. (2 * q + bit) * B + S = 2 * (q * B) + (2 * V + i)
    <3>1. (2 * q + bit) * B = 2 * (q * B) + bit * B
      BY <1>2
    <3>2. bit * B + S = 2 * V + i
      BY <1>4, <1>8 DEF S
    <3>3. q * B \in Nat /\ bit * B \in Nat
      BY <1>2
    <3> QED
      BY <1>2, <1>3, <1>10, <3>1, <3>2, <3>3
  <2> DEFINE y == q * B
  <2>2. y \in Nat
    BY <1>2
  <2> HIDE DEF y
  <2>3. (2 * y + (2 * V + i)) * p + l = (y + V) * (2 * p) + (l + i * p)
    <3>1. (2 * y + (2 * V + i)) * p = 2 * (y * p) + (2 * (V * p) + i * p)
      BY <1>2, <1>3, <2>2
    <3>2. (y + V) * (2 * p) = 2 * (y * p) + 2 * (V * p)
      BY <1>2, <1>3, <2>2
    <3>3. y * p \in Nat /\ V * p \in Nat /\ i * p \in Nat
      BY <1>2, <1>3, <2>2
    <3> QED
      BY <1>3, <3>1, <3>2, <3>3
  <2> QED
    BY ONLY <2>1, <2>3 DEF y
<1>13. (t[1] * B + S) * p + l = R * Base + x
  BY ONLY <1>1, <1>3, <1>8, <1>12
<1> QED
  BY ONLY <1>8, <1>9, <1>11, <1>13 DEF BitsDone, B, S, p, l

\* The bits of one limb: its quotient bits are a word, and the remainder is
\* below the divisor.
LEMMA DmBitsIs ==
  ASSUME NEW x \in Word, NEW b \in Number, NEW rem \in Seq(Word)
  PROVE  /\ DmBits(x, b, rem)[1] \in Word /\ DmBits(x, b, rem)[2] \in Number
         /\ rem \in Number /\ Value(rem) < Value(b) =>
              /\ Value(DmBits(x, b, rem)[2]) < Value(b)
              /\ DmBits(x, b, rem)[1] * Value(b) + Value(DmBits(x, b, rem)[2])
                   = Value(rem) * Base + x
<1> DEFINE n == WordBits
           Q == Word \X Seq(Word)
           next(j, qr) == DmStep(b, Shl1Or(qr[2], Bit(x, n - j)), qr[1])
           s == [j \in 1 .. n |-> [qr \in Q |-> next(j, qr)]]
           g == Threaded(n, <<0, rem>>, s)
           R == Value(rem)
<1>0. n \in Nat \ {0} /\ x \in Nat /\ x < Pow2[n] /\ R \in Nat /\ Pow2[n] = Base /\ Base \in Nat
  BY BaseIs, WordIs, ValueIsNat
<1>1. DmBits(x, b, rem) = g[n]
  BY DEF DmBits
<1> HIDE DEF g, R, n
<1>2. ASSUME NEW j \in 1 .. n, NEW qr \in Q
      PROVE  next(j, qr) \in Q /\ next(j, qr)[2] \in Number
  <2>1. qr[1] \in Word /\ qr[2] \in Seq(Word) /\ n - j \in Nat
    BY <1>0
  <2>2. Bit(x, n - j) \in {0, 1}
    BY <1>0, <2>1, LowBitsStep
  <2> DEFINE r1 == Shl1Or(qr[2], Bit(x, n - j))
             q == qr[1]
  <2>3. r1 \in Number /\ q \in Word
    BY <2>1, <2>2, Shl1OrIs
  <2> HIDE DEF r1, q
  <2>4. /\ DmStep(b, r1, q)[1] \in Word /\ DmStep(b, r1, q)[2] \in Number
        /\ DmStep(b, r1, q) = <<DmStep(b, r1, q)[1], DmStep(b, r1, q)[2]>>
    BY <2>3, DmStepIs
  <2>5. next(j, qr) = DmStep(b, r1, q)
    BY DEF r1, q
  <2> HIDE DEF next
  <2>6. DmStep(b, r1, q) \in Q
    BY <2>4 DEF Number
  <2> QED
    BY <2>4, <2>5, <2>6
<1> HIDE DEF next
<1>3. s \in Steps(1 .. n, Q) /\ <<0, rem>> \in Q
  BY <1>2, BaseIs DEF Steps
<1>4. /\ g \in [0 .. n -> Q] /\ g[0] = <<0, rem>>
      /\ \A j \in 1 .. n : g[j] = s[j][g[j - 1]]
  <2> DEFINE q0 == <<0, rem>>
  <2>1. n \in Nat /\ q0 \in Q /\ s \in Steps(1 .. n, Q) /\ g = Threaded(n, q0, s)
    BY <1>0, <1>3 DEF g
  <2> HIDE DEF s, Q, q0
  <2>2. /\ g \in [0 .. n -> Q] /\ g[0] = q0
        /\ \A j \in 1 .. n : g[j] = s[j][g[j - 1]]
    BY ONLY <2>1, ThreadedIs
  <2> QED
    BY <2>2 DEF q0
<1>5. ASSUME NEW j \in 1 .. n PROVE g[j] = next(j, g[j - 1]) /\ g[j - 1] \in Q
  <2>1. j - 1 \in 0 .. n
    BY <1>0
  <2>2. g[j - 1] \in Q /\ g[j] = s[j][g[j - 1]]
    BY <1>4, <2>1
  <2> HIDE DEF Q
  <2> QED
    BY <2>2
<1>6. g[n][1] \in Word /\ g[n][2] \in Number
  <2>1. n \in 1 .. n
    BY <1>0
  <2>2. g[n] \in Q /\ g[n][2] \in Number
    BY <1>2, <1>5, <2>1
  <2> QED
    BY <2>2
<1>7. ASSUME rem \in Number, Value(rem) < Value(b)
      PROVE  /\ Value(g[n][2]) < Value(b)
             /\ g[n][1] * Value(b) + Value(g[n][2]) = R * Base + x
  <2> DEFINE T == {j \in 0 .. n : BitsDone(g[j][1], g[j][2], j, n - j, b, x, R)}
  <2>0. Value(b) \in Nat
    BY ValueIsNat DEF Number
  <2>1. 0 \in T
    <3>1. 0 * Value(b) + R = R /\ n - 0 = n /\ 0 \in 0 .. n /\ 0 \in Nat
      BY <1>0, <2>0
    <3>2. LowBits(x, n) = x
      BY <1>0, LowBitsEnds
    <3>3. Pow2[0] = 1 /\ 0 \in Word /\ 0 < 1
      BY Pow2Is, BaseIs
    <3>4. g[0][1] = 0 /\ g[0][2] = rem
      BY <1>4
    <3>5. (0 * Value(b) + Value(rem)) * Pow2[n] + LowBits(x, n) = R * Base + x
      BY ONLY <3>1, <3>2, <1>0 DEF R
    <3>6. BitsDone(0, rem, 0, n, b, x, R)
      BY <1>7, <3>3, <3>5 DEF BitsDone
    <3> QED
      BY <3>1, <3>4, <3>6
  <2>2. ASSUME NEW j \in 1 .. n, j - 1 \in T PROVE j \in T
    <3> DEFINE i == j - 1
               k == n - j
               q == g[i][1]
               r == g[i][2]
    <3>1. /\ i \in Nat /\ k \in Nat /\ i + 1 = j /\ n - i = k + 1 /\ i + 1 + k = n
          /\ j \in 0 .. n
      BY <1>0
    <3>2. BitsDone(g[i][1], g[i][2], i, n - i, b, x, R)
      BY <2>2
    <3>3. g[j] = DmStep(b, Shl1Or(r, Bit(x, k)), q)
      BY <1>5 DEF next
    <3> HIDE DEF i, k
    <3>4. BitsDone(q, r, i, k + 1, b, x, R)
      BY ONLY <3>1, <3>2
    <3> HIDE DEF q, r
    <3>5. i + 1 + k = WordBits
      BY <3>1 DEF n
    <3>6. BitsDone(g[j][1], g[j][2], i + 1, k, b, x, R)
      BY <1>0, <3>1, <3>3, <3>4, <3>5, BitDone
    <3>7. BitsDone(g[j][1], g[j][2], j, n - j, b, x, R)
      BY ONLY <3>1, <3>6 DEF k
    <3> QED
      BY <3>1, <3>7
  <2>3. n \in T
    <3> HIDE DEF T
    <3>1. \A j \in 1 .. n : j - 1 \in T => j \in T
      BY <2>2
    <3>2. \A j \in 0 .. n : j \in T
      BY <1>0, <2>1, <3>1, UpTo
    <3> QED
      BY <1>0, <3>2
  <2>4. n - n = 0 /\ LowBits(x, 0) = 0 /\ Pow2[0] = 1
    BY <1>0, LowBitsEnds, Pow2Is
  <2> DEFINE y == g[n][1] * Value(b) + Value(g[n][2])
  <2>5. Value(g[n][2]) < Value(b) /\ y * 1 + 0 = R * Base + x
    BY ONLY <2>3, <2>4 DEF BitsDone
  <2>6. y \in Nat
    <3>1. g[n][1] \in Nat /\ Value(g[n][2]) \in Nat
      BY <1>6, WordIs, ValueIsNat DEF Number
    <3> DEFINE u == g[n][1]
               v == Value(g[n][2])
               w == Value(b)
    <3> HIDE DEF u, v, w
    <3>2. u * w \in Nat /\ u * w + v \in Nat
      BY <2>0, <3>1 DEF u, v, w
    <3> QED
      BY ONLY <3>2 DEF u, v, w
  <2> HIDE DEF y
  <2>7. y = R * Base + x
    BY <2>5, <2>6
  <2> QED
    BY <2>5, <2>7 DEF y
<1> QED
  BY <1>1, <1>6, <1>7 DEF R

(* A limb below the others.                                                *)
LEMMA Below ==
  ASSUME NEW s \in Seq(Word), NEW x \in Word
  PROVE  /\ Append(s, x) \in Seq(Word)
         /\ Reverse(s) \in Seq(Word) /\ Len(Reverse(s)) = Len(s)
         /\ Reverse(Append(s, x)) \in Seq(Word)
         /\ Value(Reverse(Append(s, x))) = x + Value(Reverse(s)) * Base
<1> DEFINE r == Reverse(s)
           u == <<x>>
<1>1. r \in Seq(Word) /\ Len(r) = Len(s)
  BY DEF Reverse
<1>2. Reverse(Append(s, x)) = u \o r
  <2> DEFINE t == Append(s, x)
             n == Len(s)
  <2>1. n \in Nat /\ Len(t) = n + 1 /\ t \in Seq(Word)
    OBVIOUS
  <2>2. Reverse(t) = [i \in 1 .. n + 1 |-> t[(n + 1 - i) + 1]]
    BY <2>1 DEF Reverse
  <2>3. Reverse(t) \in Seq(Word) /\ Len(Reverse(t)) = n + 1
    BY <2>1, <2>2
  <2>4. u \o r \in Seq(Word) /\ Len(u \o r) = n + 1
    BY <1>1, <2>1
  <2>5. ASSUME NEW i \in 1 .. n + 1 PROVE Reverse(t)[i] = (u \o r)[i]
    <3>1. CASE i = 1
      BY <2>1, <2>2, <1>1, <3>1
    <3>2. CASE i # 1
      <4>1. i - 1 \in 1 .. n /\ (n + 1 - i) + 1 = (n - (i - 1)) + 1 /\ (n - (i - 1)) + 1 \in 1 .. n
        BY <2>1, <3>2
      <4>2. (u \o r)[i] = r[i - 1]
        BY <1>1, <2>1, <3>2
      <4>3. r[i - 1] = s[(n - (i - 1)) + 1]
        BY <4>1 DEF Reverse
      <4>4. Reverse(t)[i] = t[(n - (i - 1)) + 1]
        BY <2>2, <4>1
      <4>5. t[(n - (i - 1)) + 1] = s[(n - (i - 1)) + 1]
        BY <2>1, <4>1
      <4> QED
        BY ONLY <4>2, <4>3, <4>4, <4>5
    <3> QED
      BY <3>1, <3>2
  <2> HIDE DEF t, r, u
  <2> QED
    BY <2>1, <2>3, <2>4, <2>5 DEF t
<1>3. u \in Seq(Word) /\ Len(u) = 1 /\ Value(u) = x
  <2>1. u \in Seq(Word) /\ Len(u) = 1 /\ Limb(u, 0) = x /\ x \in Nat
    BY WordIs DEF Limb
  <2> HIDE DEF u
  <2>2. Low(u)[0 + 1] = Low(u)[0] + Limb(u, 0) * Weight[0]
    BY <2>1, LowStep
  <2>3. Weight[0] = 1 /\ Low(u)[0] = 0 /\ 0 + 1 = 1 /\ 0 + x * 1 = x
    BY <2>1, WeightIs, LowIs
  <2> QED
    BY ONLY <2>1, <2>2, <2>3 DEF Value
<1>4. Weight[1] = Base
  <2>1. Weight[0 + 1] = Base * Weight[0] /\ Weight[0] = 1 /\ Base \in Nat /\ 0 + 1 = 1
    BY WeightStep, WeightIs, BaseIs
  <2> QED
    BY <2>1
<1> HIDE DEF r, u
<1>5. u \o r \in Seq(Word) /\ Value(u \o r) = x + Value(r) * Base
  BY <1>1, <1>3, <1>4, OnTop
<1> QED
  BY <1>1, <1>2, <1>5 DEF r

\* Of the limbs of a: those above the k-th are divided, exactly.
LimbsDone(qs, r, k, a, b) ==
  /\ qs \in Seq(Word) /\ r \in Number /\ Value(r) < Value(b)
  /\ (Value(Reverse(qs)) * Value(b) + Value(r)) * Weight[k] + Low(a)[k] = Value(a)

\* The division of one limb keeps the equation of the limbs.
LEMMA LimbDone ==
  ASSUME NEW a \in Seq(Word), NEW b \in Number, NEW k \in 0 .. Len(a) - 1, NEW qs, NEW r,
         LimbsDone(qs, r, k + 1, a, b), NEW t, t = DmBits(a[k + 1], b, r)
  PROVE  LimbsDone(Append(qs, t[1]), t[2], k, a, b)
<1> DEFINE B == Value(b)
           V == Value(r)
           Y == Value(Reverse(qs))
           x == a[k + 1]
           w == Weight[k]
           l == Low(a)[k]
           S == Value(t[2])
           q == t[1]
<1>1. /\ qs \in Seq(Word) /\ r \in Number /\ V < B
      /\ (Y * B + V) * Weight[k + 1] + Low(a)[k + 1] = Value(a)
  BY DEF LimbsDone
<1>2. k \in Nat /\ x \in Word /\ Limb(a, k) = x /\ x \in Nat
  BY WordIs DEF Limb
<1>3. /\ q \in Word /\ t[2] \in Number /\ S < B /\ q * B + S = V * Base + x
  BY <1>1, <1>2, DmBitsIs DEF Number
<1>4. /\ Append(qs, q) \in Seq(Word)
      /\ Value(Reverse(Append(qs, q))) = q + Y * Base
      /\ Reverse(qs) \in Seq(Word)
  BY <1>1, <1>3, Below
<1>5. B \in Nat /\ V \in Nat /\ Y \in Nat /\ S \in Nat /\ q \in Nat /\ Base \in Nat
  BY <1>1, <1>3, <1>4, ValueIsNat, WordIs, BaseIs DEF Number
<1>6. w \in Nat /\ Weight[k + 1] = Base * w
  BY <1>2, WeightIs, WeightStep
<1>7. l \in Nat /\ Low(a)[k + 1] = l + x * w
  BY <1>2, LowBound, LowStep
<1> DEFINE C == Base
<1> HIDE DEF B, V, Y, x, w, l, S, q, C
<1>8. ((q + Y * C) * B + S) * w + l = (Y * B + V) * (C * w) + (l + x * w)
  <2> DEFINE y == Y * B
  <2>0. y \in Nat /\ C \in Nat
    BY <1>5 DEF C
  <2>1. (q + Y * C) * B + S = y * C + (V * C + x)
    <3>1. (q + Y * C) * B = q * B + (Y * C) * B /\ (Y * C) * B = y * C
      BY <1>5, <2>0
    <3>2. q * B + S = V * C + x
      BY <1>3 DEF C
    <3>3. q * B \in Nat /\ y * C \in Nat /\ V * C \in Nat
      BY <1>5, <2>0
    <3> DEFINE m1 == q * B
               m2 == y * C
               m3 == V * C
    <3> HIDE DEF m1, m2, m3
    <3>4. (m1 + m2) + S = m2 + (m3 + x)
      BY <1>2, <1>5, <3>2, <3>3 DEF m1, m2, m3
    <3> QED
      BY ONLY <3>1, <3>4 DEF m1, m2, m3
  <2> HIDE DEF y
  <2>2. (y * C + (V * C + x)) * w = (y * C) * w + ((V * C) * w + x * w)
    BY <1>2, <1>5, <1>6, <2>0
  <2>3. (y + V) * (C * w) = (y * C) * w + (V * C) * w
    BY <1>5, <1>6, <2>0
  <2>4. (y * C) * w \in Nat /\ (V * C) * w \in Nat /\ x * w \in Nat
    BY <1>2, <1>5, <1>6, <2>0 DEF x
  <2> DEFINE m1 == (y * C) * w
             m2 == (V * C) * w
             m3 == x * w
  <2> HIDE DEF m1, m2, m3
  <2>5. (m1 + (m2 + m3)) + l = (m1 + m2) + (l + m3)
    BY <1>7, <2>4 DEF m1, m2, m3
  <2> QED
    BY ONLY <2>1, <2>2, <2>3, <2>5 DEF m1, m2, m3, y
<1>9. (Value(Reverse(Append(qs, q))) * B + S) * w + l = Value(a)
  BY ONLY <1>1, <1>4, <1>6, <1>7, <1>8 DEF C
<1> QED
  BY ONLY <1>3, <1>4, <1>9 DEF LimbsDone, B, S, w, l, q

\* dm_limbs divides all the limbs.
LEMMA DmLimbsIs ==
  ASSUME NEW a \in Seq(Word), NEW b \in Number, 0 < Value(b)
  PROVE  LimbsDone(DmLimbs(a, b)[1], DmLimbs(a, b)[2], 0, a, b)
<1> DEFINE n == Len(a)
           Q == Seq(Word) \X Seq(Word)
           limb(i, qr) == DmBits(a[n + 1 - i], b, qr[2])
           next(i, qr) == <<Append(qr[1], limb(i, qr)[1]), limb(i, qr)[2]>>
           s == [i \in 1 .. n |-> [qr \in Q |-> next(i, qr)]]
           q0 == <<<<>>, Zero>>
           g == Threaded(n, q0, s)
<1>0. n \in Nat
  OBVIOUS
<1>1. DmLimbs(a, b) = g[n]
  BY DEF DmLimbs
<1> HIDE DEF g
<1>2. ASSUME NEW i \in 1 .. n, NEW qr \in Q PROVE next(i, qr) \in Q
  <2>1. qr[1] \in Seq(Word) /\ qr[2] \in Seq(Word) /\ a[n + 1 - i] \in Word
    BY <1>0
  <2>2. limb(i, qr)[1] \in Word /\ limb(i, qr)[2] \in Seq(Word)
    BY <2>1, DmBitsIs DEF Number
  <2> DEFINE u == qr[1]
             v == limb(i, qr)[1]
             w == limb(i, qr)[2]
  <2>3. u \in Seq(Word) /\ v \in Word /\ w \in Seq(Word)
    BY <2>1, <2>2
  <2> HIDE DEF u, v, w
  <2>4. <<Append(u, v), w>> \in Q
    <3> DEFINE x == Append(u, v)
    <3>1. x \in Seq(Word)
      BY ONLY <2>3
    <3> HIDE DEF x
    <3>2. <<x, w>> \in Q
      BY ONLY <2>3, <3>1
    <3> QED
      BY ONLY <3>2 DEF x
  <2> QED
    BY ONLY <2>4 DEF u, v, w
<1> HIDE DEF next
<1>3. s \in Steps(1 .. n, Q) /\ q0 \in Q
  <2>1. s \in [1 .. n -> [Q -> Q]]
    <3> HIDE DEF Q, n
    <3> QED
      BY <1>2
  <2>2. <<>> \in Seq(Word)
    OBVIOUS
  <2>3. q0 \in Q
    BY <2>2 DEF Zero
  <2> QED
    BY <2>1, <2>3 DEF Steps
<1>4. /\ g \in [0 .. n -> Q] /\ g[0] = q0
      /\ \A i \in 1 .. n : g[i] = s[i][g[i - 1]]
  <2> HIDE DEF s, Q, q0, n
  <2> QED
    BY ONLY <1>0, <1>3, ThreadedIs DEF g
<1>5. ASSUME NEW i \in 1 .. n PROVE g[i] = next(i, g[i - 1])
  <2>1. i - 1 \in 0 .. n
    BY <1>0
  <2>2. g[i - 1] \in Q /\ g[i] = s[i][g[i - 1]]
    BY <1>4, <2>1
  <2> HIDE DEF Q
  <2> QED
    BY <2>2
<1> DEFINE T == {i \in 0 .. n : LimbsDone(g[i][1], g[i][2], n - i, a, b)}
<1>6. 0 \in T
  <2>1. g[0][1] = <<>> /\ g[0][2] = Zero /\ n - 0 = n /\ 0 \in 0 .. n
    BY <1>0, <1>4
  <2>2. Zero \in Number /\ Value(Zero) = 0
    <3>1. FromU64(0) = Zero /\ 0 \in Word
      BY BaseIs DEF FromU64
    <3> QED
      BY <3>1, FromU64Is
  <2>3. <<>> \in Seq(Word) /\ Reverse(<<>>) = Zero
    BY DEF Reverse, Zero
  <2>4. (0 * Value(b) + 0) * Weight[n] + Low(a)[n] = Value(a)
    <3>1. Value(b) \in Nat /\ Weight[n] \in Nat /\ Low(a)[n] = Value(a) /\ Value(a) \in Nat
      BY <1>0, ValueIsNat, WeightIs DEF Number, Value
    <3>2. 0 * Value(b) + 0 = 0 /\ 0 * Weight[n] = 0 /\ 0 + Value(a) = Value(a)
      BY <3>1
    <3> QED
      BY ONLY <3>1, <3>2
  <2>5. LimbsDone(<<>>, Zero, n, a, b)
    BY <2>2, <2>3, <2>4 DEF LimbsDone
  <2> QED
    BY <2>1, <2>5
<1>7. ASSUME NEW i \in 1 .. n, i - 1 \in T PROVE i \in T
  <2> DEFINE h == i - 1
             k == n - i
             qs == g[h][1]
             r == g[h][2]
             t == DmBits(a[k + 1], b, r)
  <2>1. /\ k \in 0 .. Len(a) - 1 /\ n - h = k + 1 /\ n + 1 - i = k + 1 /\ i \in 0 .. n
    BY <1>0
  <2>2. LimbsDone(qs, r, k + 1, a, b)
    <3>1. LimbsDone(g[h][1], g[h][2], n - h, a, b)
      BY <1>7
    <3> QED
      BY ONLY <2>1, <3>1
  <2>3. g[i] = <<Append(qs, t[1]), t[2]>>
    <3>1. g[i] = <<Append(qs, limb(i, g[h])[1]), limb(i, g[h])[2]>>
      BY <1>5 DEF next
    <3>2. limb(i, g[h]) = t
      BY ONLY <2>1
    <3> QED
      BY ONLY <3>1, <3>2
  <2> HIDE DEF h, qs, r, k
  <2>4. LimbsDone(Append(qs, t[1]), t[2], k, a, b)
    BY <2>1, <2>2, LimbDone
  <2> HIDE DEF t
  <2>5. g[i][1] = Append(qs, t[1]) /\ g[i][2] = t[2]
    BY <2>3
  <2>6. LimbsDone(g[i][1], g[i][2], n - i, a, b)
    BY ONLY <2>4, <2>5 DEF k
  <2> QED
    BY <2>1, <2>6
<1>8. n \in T
  <2> HIDE DEF T
  <2>1. \A i \in 1 .. n : i - 1 \in T => i \in T
    BY <1>7
  <2>2. \A i \in 0 .. n : i \in T
    BY <1>0, <1>6, <2>1, UpTo
  <2> QED
    BY <1>0, <2>2
<1>9. n - n = 0
  BY <1>0
<1> QED
  BY ONLY <1>1, <1>8, <1>9

\* A number that is not zero has a value that is not.
LEMMA ZeroIs ==
  ASSUME NEW b \in Number
  PROVE  /\ Zero \in Number /\ Value(Zero) = 0
         /\ IsZero(b) <=> Value(b) = 0
         /\ IsZero(b) <=> b = Zero
<1>1. Zero \in Number /\ Value(Zero) = 0
  <2>1. FromU64(0) = Zero /\ 0 \in Word
    BY BaseIs DEF FromU64
  <2> QED
    BY <2>1, FromU64Is
<1>2. Value(b) = 0 => b = Zero
  BY <1>1, CmpIs
<1>3. IsZero(b) <=> b = Zero
  BY DEF IsZero, Zero, Number
<1> QED
  BY <1>1, <1>2, <1>3

\* div_mod is exact, and gives (0, a) for a division by zero.
LEMMA DivModIs ==
  ASSUME NEW a \in Number, NEW b \in Number
  PROVE  /\ Div(a, b) \in Number /\ Modulo(a, b) \in Number
         /\ IF Value(b) = 0 THEN Value(Div(a, b)) = 0 /\ Value(Modulo(a, b)) = Value(a)
            ELSE /\ Value(Div(a, b)) = Value(a) \div Value(b)
                 /\ Value(Modulo(a, b)) = Value(a) % Value(b)
<1>0. Value(a) \in Nat /\ Value(b) \in Nat /\ a \in Seq(Word)
  BY ValueIsNat DEF Number
<1>1. CASE Value(b) = 0
  <2>1. DivMod(a, b) = <<Zero, a>>
    BY <1>1, ZeroIs DEF DivMod
  <2> QED
    BY <1>1, <2>1, ZeroIs DEF Div, Modulo
<1>2. CASE Value(b) # 0
  <2> DEFINE qr == DmLimbs(a, b)
             qs == qr[1]
             r == qr[2]
             q == Reverse(qs)
             B == Value(b)
             Y == Value(q)
             R == Value(r)
  <2>1. LimbsDone(qs, r, 0, a, b)
    BY <1>0, <1>2, DmLimbsIs
  <2>2. DivMod(a, b) = <<Norm(q), r>>
    BY <1>2, ZeroIs DEF DivMod
  <2> HIDE DEF qr, qs
  <2>3. /\ qs \in Seq(Word) /\ r \in Number /\ R < B
        /\ (Y * B + R) * Weight[0] + Low(a)[0] = Value(a)
    BY <2>1 DEF LimbsDone
  <2>4. q \in Seq(Word)
    BY <2>3 DEF Reverse
  <2>5. Y \in Nat /\ R \in Nat /\ Weight[0] = 1 /\ Low(a)[0] = 0
    BY <1>0, <2>3, <2>4, ValueIsNat, WeightIs, LowIs DEF Number
  <2>6. Norm(q) \in Number /\ Value(Norm(q)) = Y
    BY <2>4, NormIs
  <2> DEFINE A == Value(a)
  <2> HIDE DEF q, r, B, Y, R, A
  <2>7. A = B * Y + R
    <3> DEFINE y == Y * B
    <3>1. y \in Nat /\ B * Y = y
      BY <1>0, <2>5 DEF B
    <3>2. (y + R) * 1 + 0 = A
      BY ONLY <2>3, <2>5 DEF A
    <3> HIDE DEF y
    <3> QED
      BY <2>5, <3>1, <3>2
  <2>8. A \div B = Y /\ A % B = R
    <3>1. B \in Nat \ {0} /\ Y \in Int /\ R \in 0 .. B - 1 /\ A \in Int
      BY <1>0, <1>2, <2>3, <2>5 DEF A, B
    <3> QED
      BY <2>7, <3>1, DivModOf
  <2>9. Div(a, b) = Norm(q) /\ Modulo(a, b) = r
    BY <2>2 DEF Div, Modulo
  <2> QED
    BY ONLY <1>2, <2>3, <2>6, <2>8, <2>9 DEF A, B, R
<1> QED
  BY <1>1, <1>2

-----------------------------------------------------------------------------
(* Quotients.                                                              *)

\* A quotient of a quotient.
LEMMA DivDiv ==
  ASSUME NEW x \in Nat, NEW w \in Nat \ {0}, NEW p \in Nat \ {0}
  PROVE  (x \div w) \div p = x \div (w * p) /\ x \div w \in Nat
<1>1. PICK q \in Int, e \in 0 .. w - 1 : x = w * q + e /\ x \div w = q
  BY DivIs
<1>2. q \in Nat
  <2>1. ASSUME q <= -1 PROVE FALSE
    <3>1. q * w <= (-1) * w
      BY <2>1, TimesMono
    <3>2. q * w = w * q /\ (-1) * w = - w /\ w * q \in Int
      OBVIOUS
    <3> QED
      BY <1>1, <3>1, <3>2
  <2> QED
    BY <2>1
<1>3. PICK u \in Int, r \in 0 .. p - 1 : q = p * u + r /\ q \div p = u
  BY DivIs
<1> DEFINE m == w * r + e
           d == w * p
<1>4. d \in Nat \ {0}
  <2>1. 1 * p <= w * p
    BY TimesMono
  <2> QED
    BY <2>1
<1>5. m \in 0 .. d - 1
  <2>1. r * w <= (p - 1) * w
    BY <1>3, TimesMono
  <2>2. r * w = w * r /\ (p - 1) * w = d - w /\ w * r \in Nat
    BY <1>3
  <2> HIDE DEF d
  <2> QED
    BY <1>1, <1>4, <2>1, <2>2
<1>6. x = d * u + m
  <2>1. w * (p * u + r) = (w * p) * u + w * r
    BY <1>3
  <2>2. w * r \in Int /\ (w * p) * u \in Int
    BY <1>3
  <2> QED
    BY <1>1, <1>3, <2>1, <2>2
<1> HIDE DEF m, d
<1>7. x \div d = u
  BY <1>4, <1>5, <1>6, DivModOf
<1> QED
  BY ONLY <1>1, <1>2, <1>3, <1>7 DEF d

(* The limbs above the lowest s.                                           *)
Drop(a, s) == [k \in 1 .. Len(a) - s |-> a[s + k]]

\* Leaving out the low s limbs divides by their weight.
LEMMA DropIs ==
  ASSUME NEW a \in Seq(Word), NEW s \in 0 .. Len(a)
  PROVE  /\ Drop(a, s) \in Seq(Word) /\ Len(Drop(a, s)) = Len(a) - s
         /\ \A i \in Nat : Limb(Drop(a, s), i) = Limb(a, s + i)
         /\ Value(Drop(a, s)) = Value(a) \div Weight[s]
         /\ Value(a) = Low(a)[s] + Value(Drop(a, s)) * Weight[s]
<1> DEFINE n == Len(a)
           d == Drop(a, s)
           t == [k \in 1 .. s |-> a[k]]
<1>1. n \in Nat /\ s \in Nat /\ s <= n /\ n - s \in Nat
  OBVIOUS
<1>2. d \in Seq(Word) /\ Len(d) = n - s /\ \A k \in 1 .. n - s : d[k] = a[s + k]
  <2>1. \A k \in 1 .. n - s : a[s + k] \in Word
    BY <1>1
  <2> QED
    BY <1>1, <2>1 DEF Drop
<1>3. t \in Seq(Word) /\ Len(t) = s /\ \A k \in 1 .. s : t[k] = a[k]
  BY <1>1
<1> HIDE DEF d, t
<1>4. a = t \o d
  <2>1. t \o d \in Seq(Word) /\ Len(t \o d) = n
    <3>1. t \in Seq(Word) /\ d \in Seq(Word) /\ Len(t) = s /\ Len(d) = n - s /\ s + (n - s) = n
      BY <1>1, <1>2, <1>3
    <3> HIDE DEF n
    <3> QED
      BY ONLY <3>1
  <2>2. ASSUME NEW k \in 1 .. n PROVE a[k] = (t \o d)[k]
    <3>1. CASE k <= s
      BY <1>1, <1>2, <1>3, <3>1
    <3>2. CASE ~ (k <= s)
      <4>1. k - s \in 1 .. n - s /\ s + (k - s) = k
        BY <1>1, <3>2
      <4>2. (t \o d)[k] = d[k - s]
        BY <1>1, <1>2, <1>3, <3>2
      <4> QED
        BY <1>2, <4>1, <4>2
    <3> QED
      BY <3>1, <3>2
  <2> DEFINE v == t \o d
  <2>3. v \in Seq(Word) /\ Len(v) = Len(a) /\ \A k \in 1 .. Len(a) : a[k] = v[k]
    BY <2>1, <2>2
  <2> HIDE DEF v
  <2>4. a = v
    BY <2>3
  <2> QED
    BY <2>4 DEF v
<1>5. \A i \in Nat : Limb(d, i) = Limb(a, s + i)
  <2> TAKE i \in Nat
  <2>1. CASE i < n - s
    BY <1>1, <1>2, <2>1 DEF Limb
  <2>2. CASE ~ (i < n - s)
    BY <1>1, <1>2, <2>2 DEF Limb
  <2> QED
    BY <2>1, <2>2
<1> DEFINE w == Weight[s]
           D == Value(d)
           L == Low(a)[s]
<1>6. Value(a) = L + D * w
  <2>1. Value(t \o d) = Value(t) + Value(d) * Weight[Len(t)]
    BY <1>2, <1>3, OnTop
  <2>2. \A i \in 0 .. s - 1 : Limb(t, i) = Limb(a, i)
    BY <1>1, <1>3 DEF Limb
  <2>3. \A i \in 0 .. s : Low(t)[i] = Low(a)[i]
    BY <1>1, <1>3, <2>2, LowSame
  <2>4. Value(t) = Low(t)[s] /\ s \in 0 .. s
    BY <1>1, <1>3 DEF Value
  <2> QED
    BY <1>3, <1>4, <2>1, <2>3, <2>4
<1>7. L \in Nat /\ L < w /\ D \in Nat
  BY <1>1, <1>2, LowBound, ValueIsNat
<1>8. w \in Nat \ {0}
  BY <1>1, WeightIs
<1> DEFINE A == Value(a)
<1> HIDE DEF w, D, L, A
<1>9. A \div w = D
  <2>1. D * w = w * D /\ w * D \in Nat
    BY <1>7, <1>8
  <2>2. A = w * D + L /\ A \in Int /\ L \in 0 .. w - 1 /\ D \in Int
    BY <1>6, <1>7, <1>8, <2>1 DEF A
  <2> QED
    BY <1>8, <2>2, DivModOf
<1> QED
  BY ONLY <1>1, <1>2, <1>5, <1>6, <1>9 DEF d, n, w, D, L, A

\* The bitwise or of words is commutative.
LEMMA OrComm == ASSUME NEW x \in Word, NEW y \in Word PROVE (x | y) = (y | x)
<1>1. \A j : <<Bit(x, j), Bit(y, j)>> \in OrBits <=> <<Bit(y, j), Bit(x, j)>> \in OrBits
  BY DEF OrBits
<1> QED
  BY <1>1 DEF |, BitsBelow

(* A word shifted right with what comes in above.                          *)
LEMMA ShrDigit ==
  ASSUME NEW x \in Word, NEW y \in Word, NEW b \in 0 .. WordBits
  PROVE  /\ (ShrWord(x, b) | ShlWord(y, WordBits - b)) \in Word
         /\ (ShrWord(x, b) | ShlWord(y, WordBits - b)) * Pow2[b] + (x % Pow2[b])
              = x + Base * (y % Pow2[b])
<1> DEFINE P == Pow2[b]
           R == Pow2[WordBits - b]
           B == Base
           c == ShrWord(x, b)
           u == (ShlWord(y, WordBits - b) | c)
<1>1. b \in Nat /\ WordBits - b \in 0 .. WordBits /\ b <= WordBits /\ WordBits - (WordBits - b) = b
  BY BaseIs
<1>2. P \in Nat \ {0} /\ R \in Nat \ {0} /\ B \in Nat \ {0, 1} /\ B = P * R
  BY <1>1, Pow2Pos, Pow2Split, BaseIs
<1>3. x \in Nat /\ x < B /\ y \in Nat
  BY WordIs
<1>4. c = x \div P /\ ShrWord(y, b) = y \div P
  BY DEF ShrWord
<1> HIDE DEF P, R, B, c
<1>5. PICK xq \in Int, xr \in 0 .. P - 1 : x = P * xq + xr /\ x \div P = xq /\ x % P = xr
  BY <1>2, <1>3, DivIs
<1>6. PICK yq \in Int, yr \in 0 .. P - 1 : y = P * yq + yr /\ y \div P = yq /\ y % P = yr
  BY <1>2, <1>3, DivIs
<1>7. xq \in Nat /\ xq < R
  <2>1. ASSUME R <= xq PROVE FALSE
    <3>1. R * P <= xq * P
      BY <1>2, <2>1, TimesMono
    <3>2. xq * P = P * xq /\ R * P = P * R /\ P * xq \in Int
      BY <1>2
    <3> QED
      BY <1>2, <1>3, <1>5, <3>1, <3>2
  <2>2. ASSUME xq <= -1 PROVE FALSE
    <3>1. xq * P <= (-1) * P
      BY <1>2, <2>2, TimesMono
    <3>2. xq * P = P * xq /\ (-1) * P = - P
      BY <1>2
    <3> QED
      BY <1>2, <1>3, <1>5, <3>1, <3>2
  <2> QED
    BY <1>2, <2>1, <2>2
<1>8. c \in Nat /\ c < Pow2[WordBits - b] /\ c = xq
  BY <1>4, <1>5, <1>7 DEF R
<1>9. /\ c \in Word /\ u \in Word
      /\ u + Base * ShrWord(y, WordBits - (WordBits - b)) = y * Pow2[WordBits - b] + c
  BY <1>1, <1>8, ShlDigit
<1>10. (c | ShlWord(y, WordBits - b)) = u
  <2>1. WordBits - b \in 0 .. WordBits /\ 0 \in Nat /\ 0 < Pow2[WordBits - b]
    BY <1>1, <1>2 DEF R
  <2>2. ShlWord(y, WordBits - b) \in Word
    BY WrapIs, <1>2, <1>3 DEF ShlWord, R
  <2> QED
    BY <1>9, <2>2, OrComm
<1>11. u + B * yq = y * R + xq
  BY ONLY <1>1, <1>4, <1>6, <1>8, <1>9 DEF B, R
<1>12. u \in Nat
  BY <1>9, WordIs
<1> HIDE DEF u
<1>13. u * P + xr = x + B * yr
  <2>1. (u + B * yq) * P = u * P + B * (P * yq)
    BY <1>2, <1>12
  <2>2. (y * R + xq) * P = B * y + P * xq
    <3>1. (y * R + xq) * P = (y * R) * P + xq * P
      BY <1>2, <1>3
    <3>2. (y * R) * P = (P * R) * y /\ xq * P = P * xq
      BY <1>2, <1>3
    <3> QED
      BY ONLY <1>2, <3>1, <3>2
  <2>3. B * y = B * (P * yq) + B * yr
    BY <1>2, <1>6
  <2> DEFINE m1 == u * P
             m2 == B * (P * yq)
             m3 == B * yr
             m4 == P * xq
  <2>4. m1 \in Int /\ m2 \in Int /\ m3 \in Int /\ m4 \in Int
    BY <1>2, <1>5, <1>6, <1>12
  <2>5. m1 + m2 = (m2 + m3) + m4
    BY ONLY <1>11, <2>1, <2>2, <2>3
  <2> HIDE DEF m1, m2, m3, m4
  <2>6. m1 + xr = x + m3
    <3>1. x = m4 + xr
      BY <1>5 DEF m4
    <3> QED
      BY <1>5, <2>4, <2>5, <3>1
  <2> QED
    BY <2>6 DEF m1, m3
<1>14. u * P + (x % P) = x + B * (y % P)
  <2> DEFINE e == x % P
             f == y % P
  <2>1. e = xr /\ f = yr
    BY <1>5, <1>6
  <2> HIDE DEF e, f
  <2>2. u * P + e = x + B * f
    BY ONLY <2>1, <1>13
  <2> QED
    BY ONLY <2>2, Zenon DEF e, f
<1>15. (c | ShlWord(y, WordBits - b)) * P + (x % P) = x + B * (y % P)
  BY ONLY <1>10, <1>14
<1>16. (c | ShlWord(y, WordBits - b)) \in Word
  BY ONLY <1>9, <1>10
<1> QED
  BY <1>15, <1>16 DEF P, B, c

(* Limbs that are each moved down into the one below.                      *)
ShrLimbs(v, b) ==
  [i \in 1 .. Len(v) |-> ShrWord(v[i], b) | ShlWord(Limb(v, i), WordBits - b)]

\* shr_bits_from divides by 2^b.
LEMMA ShrBitsIs ==
  ASSUME NEW v \in Seq(Word), NEW b \in 0 .. WordBits
  PROVE  /\ ShrLimbs(v, b) \in Seq(Word)
         /\ Value(ShrLimbs(v, b)) = Value(v) \div Pow2[b]
<1> DEFINE n == Len(v)
           u == ShrLimbs(v, b)
           P == Pow2[b]
           r(i) == (Limb(v, i) % P)
<1>1. n \in Nat /\ P \in Nat \ {0}
  BY Pow2Pos
<1>2. u = [i \in 1 .. n |-> u[i]]
      /\ \A i \in 1 .. n : u[i] = (ShrWord(v[i], b) | ShlWord(Limb(v, i), WordBits - b))
  BY DEF ShrLimbs
<1> HIDE DEF u
<1>3. ASSUME NEW i \in 0 .. n - 1
      PROVE  u[i + 1] \in Word /\ u[i + 1] * P + r(i) = Limb(v, i) + Base * r(i + 1)
  <2>1. i + 1 \in 1 .. n /\ Limb(v, i) = v[i + 1] /\ i \in Nat /\ i + 1 \in Nat
    BY DEF Limb
  <2> DEFINE x == Limb(v, i)
             y == Limb(v, i + 1)
  <2>2. x \in Word /\ y \in Word
    BY <2>1, LimbIs
  <2>3. u[i + 1] = (ShrWord(x, b) | ShlWord(y, WordBits - b))
    BY <1>2, <2>1
  <2> HIDE DEF x, y
  <2>4. /\ (ShrWord(x, b) | ShlWord(y, WordBits - b)) \in Word
        /\ (ShrWord(x, b) | ShlWord(y, WordBits - b)) * Pow2[b] + (x % Pow2[b])
             = x + Base * (y % Pow2[b])
    BY <2>2, ShrDigit
  <2>5. u[i + 1] \in Word /\ u[i + 1] * Pow2[b] + (x % Pow2[b]) = x + Base * (y % Pow2[b])
    BY ONLY <2>3, <2>4
  <2> QED
    BY ONLY <2>5, Zenon DEF x, y
<1>4. u \in Seq(Word) /\ Len(u) = n /\ \A i \in 0 .. n - 1 : Limb(u, i) = u[i + 1]
  <2>1. n \in Nat /\ \A i \in 0 .. n - 1 : u[i + 1] \in Word
    BY <1>1, <1>3
  <2>2. u = [i \in 1 .. n |-> u[i]]
    BY <1>2
  <2> HIDE DEF n
  <2> QED
    BY ONLY <2>1, <2>2, Words
<1>5. ASSUME NEW i \in Nat PROVE r(i) \in 0 .. P - 1
  <2>1. Limb(v, i) \in Nat
    BY LimbIs
  <2> HIDE DEF P
  <2> QED
    BY <1>1, <2>1
<1> HIDE DEF P
<1> DEFINE T == {i \in 0 .. n : Low(u)[i] * P + r(0) = Low(v)[i] + r(i) * Weight[i]}
<1>6. 0 \in T
  <2>1. Low(u)[0] = 0 /\ Low(v)[0] = 0 /\ Weight[0] = 1 /\ 0 * P = 0 /\ 0 \in 0 .. n
    BY <1>1, <1>4, LowIs, WeightIs
  <2>2. r(0) \in Int
    BY <1>5
  <2> HIDE DEF r
  <2>3. 0 + r(0) = 0 + r(0) * 1
    BY <2>2
  <2> QED
    BY <2>1, <2>3
<1>7. ASSUME NEW i \in 1 .. n, i - 1 \in T PROVE i \in T
  <2> DEFINE k == i - 1
  <2>1. k \in Nat /\ k + 1 = i /\ k \in 0 .. n - 1 /\ i \in 0 .. n /\ i \in Nat /\ 0 \in Nat
    BY <1>1
  <2>2. Low(u)[k] * P + r(0) = Low(v)[k] + r(k) * Weight[k]
    BY <1>7
  <2>3. r(k) \in Int /\ r(i) \in Int /\ r(0) \in Int
    BY <1>5, <2>1
  <2>4. Limb(u, k) * P + r(k) = Limb(v, k) + Base * r(i)
    <3>1. u[k + 1] * P + r(k) = Limb(v, k) + Base * r(k + 1)
      BY <1>3, <2>1
    <3>2. Limb(u, k) = u[k + 1]
      BY <1>4, <2>1
    <3> HIDE DEF k
    <3> QED
      BY ONLY <2>1, <3>1, <3>2
  <2> HIDE DEF k
  <2> DEFINE lu == Low(u)[k]
             lv == Low(v)[k]
             x == Limb(u, k)
             y == Limb(v, k)
             w == Weight[k]
             rk == r(k)
             ri == r(i)
             r0 == r(0)
  <2>5. lu \in Nat /\ lv \in Nat
    BY <1>4, <2>1, LowBound
  <2>6. x \in Nat /\ y \in Nat
    BY <1>4, <2>1, LimbIs
  <2>7. w \in Nat /\ Weight[i] = Base * w /\ Base \in Nat
    BY <2>1, WeightIs, WeightStep, BaseIs
  <2>8. Low(u)[i] = lu + x * w /\ Low(v)[i] = lv + y * w
    BY <1>4, <2>1, LowStep
  <2> DEFINE C == Base
  <2>9. C \in Nat /\ lu * P + r0 = lv + rk * w /\ x * P + rk = y + C * ri
    BY <2>2, <2>4, <2>7
  <2>10. rk \in Int /\ ri \in Int /\ r0 \in Int
    BY <2>3
  <2> HIDE DEF lu, lv, x, y, w, rk, ri, r0, C
  <2>11. (lu + x * w) * P + r0 = (lv + y * w) + ri * (C * w)
    <3>1. (lu + x * w) * P = lu * P + (x * P) * w
      BY <1>1, <2>5, <2>6, <2>7 DEF w
    <3>2. (x * P + rk) * w = (x * P) * w + rk * w
      BY <1>1, <2>6, <2>7, <2>10 DEF w
    <3>3. (y + C * ri) * w = y * w + ri * (C * w)
      <4>1. y \in Int /\ C \in Int /\ ri \in Int /\ w \in Int
        BY <2>6, <2>7, <2>9, <2>10 DEF w
      <4>2. C * ri \in Int /\ C * ri = ri * C
        BY ONLY <4>1, Times
      <4>3. (y + C * ri) * w = y * w + (C * ri) * w
        BY ONLY <4>1, <4>2, Times
      <4>4. (ri * C) * w = ri * (C * w)
        BY ONLY <4>1, Times
      <4> QED
        BY ONLY <4>2, <4>3, <4>4
    <3> DEFINE m1 == lu * P
               m2 == (x * P) * w
               m3 == rk * w
               m4 == y * w
               m5 == ri * (C * w)
    <3>4. /\ m1 \in Int /\ m2 \in Int /\ m3 \in Int /\ m4 \in Int /\ m5 \in Int
      <4>0. w \in Int /\ P \in Int /\ C \in Int /\ x \in Int /\ y \in Int
        BY <1>1, <2>6, <2>7, <2>9 DEF w
      <4>1. m1 \in Int
        BY <4>0, <2>5
      <4>2. m2 \in Int
        BY <4>0
      <4>3. m3 \in Int
        BY <4>0, <2>10
      <4>4. m4 \in Int
        BY <4>0
      <4>5. m5 \in Int
        BY <4>0, <2>10
      <4> QED
        BY ONLY <4>1, <4>2, <4>3, <4>4, <4>5
    <3>5. m2 + m3 = m4 + m5 /\ m1 + r0 = lv + m3
      BY ONLY <2>9, <3>2, <3>3
    <3> HIDE DEF m1, m2, m3, m4, m5
    <3>6. (m1 + m2) + r0 = (lv + m4) + m5
      BY <2>5, <2>10, <3>4, <3>5
    <3> QED
      BY ONLY <3>1, <3>6 DEF m1, m2, m4, m5
  <2>12. Low(u)[i] * P + r0 = Low(v)[i] + ri * Weight[i]
    BY ONLY <2>7, <2>8, <2>11 DEF C
  <2> QED
    BY <2>1, <2>12 DEF r0, ri
<1>8. n \in T
  <2> HIDE DEF T
  <2>1. \A i \in 1 .. n : i - 1 \in T => i \in T
    BY <1>7
  <2>2. \A i \in 0 .. n : i \in T
    BY <1>1, <1>6, <2>1, UpTo
  <2> QED
    BY <1>1, <2>2
<1>9. Low(u)[n] * P + r(0) = Low(v)[n] + r(n) * Weight[n]
  BY <1>8
<1>10. r(n) = 0
  <2>1. Limb(v, n) = 0
    BY DEF Limb
  <2>2. 0 % P = 0
    BY <1>1, SmallMod
  <2> QED
    BY ONLY <2>1, <2>2
<1>11. r(0) \in 0 .. P - 1
  BY <1>5
<1> DEFINE U == Value(u)
           V == Value(v)
           r0 == r(0)
<1>12. U \in Nat /\ V \in Nat /\ Low(u)[n] = U /\ Low(v)[n] = V
  BY <1>4, ValueIsNat DEF Value
<1>13. 0 * Weight[n] = 0
  BY <1>1, WeightIs
<1>14. U * P + r0 = V + 0
  BY ONLY <1>9, <1>10, <1>12, <1>13
<1>15. r0 \in 0 .. P - 1
  BY <1>11
<1> HIDE DEF U, V, r0
<1>16. V \div P = U
  <2>1. U * P = P * U /\ P * U \in Nat
    BY <1>1, <1>12
  <2>2. V = P * U + r0
    BY <1>12, <1>14, <1>15, <2>1
  <2> QED
    <3>1. V \in Int /\ U \in Int /\ P \in Nat \ {0}
      BY <1>1, <1>12
    <3> QED
      BY ONLY <3>1, <1>15, <2>2, DivModOf
<1> QED
  BY ONLY <1>4, <1>16 DEF U, V, u, P

\* What a number is is below its own weight, and below every larger one.
LEMMA ValueBelow ==
  ASSUME NEW a \in Seq(Word), NEW n \in Nat, Len(a) <= n
  PROVE  Value(a) < Weight[n]
<1>1. Low(a)[n] = Value(a)
  BY ValueFrom
<1> QED
  BY <1>1, LowBound

(* A shift right of a whole number of limbs, then of less than one.        *)
LEMMA ShrFromIs ==
  ASSUME NEW a \in Seq(Word), NEW q \in Nat, NEW b \in 0 .. WordBits - 1
  PROVE  /\ ShrFrom(a, SkipIndex(a, q), b) \in Number
         /\ Value(ShrFrom(a, SkipIndex(a, q), b)) = Value(a) \div (Weight[q] * Pow2[b])
<1> DEFINE s == SkipIndex(a, q)
           d == Drop(a, s)
           P == Pow2[b]
           A == Value(a)
<1>0. Len(a) \in Nat /\ b \in Nat /\ b \in 0 .. WordBits /\ A \in Nat
  BY BaseIs, ValueIsNat
<1>1. s = IF Len(a) < q THEN Len(a) ELSE q
  BY <1>0, MinOfTwo DEF SkipIndex
<1>2. s \in 0 .. Len(a)
  BY <1>0, <1>1
<1> HIDE DEF s
<1>3. /\ d \in Seq(Word) /\ Len(d) = Len(a) - s
      /\ \A i \in Nat : Limb(d, i) = Limb(a, s + i)
      /\ Value(d) = A \div Weight[s]
  BY <1>2, DropIs
<1>4. A \div Weight[s] = A \div Weight[q]
  <2>1. CASE ~ (Len(a) < q)
    BY <1>1, <2>1
  <2>2. CASE Len(a) < q
    <3>1. s = Len(a)
      BY <1>1, <2>2
    <3>2. A < Weight[Len(a)] /\ A < Weight[q]
      BY <1>0, <2>2, ValueBelow
    <3>3. Weight[Len(a)] \in Nat \ {0} /\ Weight[q] \in Nat \ {0}
      BY <1>0, WeightIs
    <3>4. A \div Weight[Len(a)] = 0 /\ A \div Weight[q] = 0
      BY <1>0, <3>2, <3>3, SmallMod
    <3> QED
      BY ONLY <3>1, <3>4
  <2> QED
    BY <2>1, <2>2
<1>5. (A \div Weight[q]) \div P = A \div (Weight[q] * P)
  <2>1. Weight[q] \in Nat \ {0} /\ P \in Nat \ {0}
    BY <1>0, WeightIs, Pow2Pos
  <2> QED
    BY <1>0, <2>1, DivDiv
<1>6. \E v \in Seq(Word) : ShrFrom(a, s, b) = Norm(v) /\ Value(v) = Value(d) \div P
  <2>1. CASE b = 0
    <3>1. Min({Len(a), Len(a)}) = Len(a)
      BY <1>0, MinOfTwo
    <3>2. ShrFrom(a, s, b) = Norm(<<>> \o d)
      BY <2>1, <3>1 DEF ShrFrom, CopyFrom, Drop
    <3>3. <<>> \o d = d
      <4> HIDE DEF d
      <4> QED
        BY <1>3
    <3>4. Value(d) \div P = Value(d)
      <4> DEFINE V == Value(d)
      <4>1. V \in Nat
        BY <1>3, ValueIsNat
      <4> HIDE DEF V
      <4>2. V = 1 * V + 0 /\ 1 \in Nat \ {0} /\ 0 \in 0 .. 1 - 1 /\ V \in Int
        BY <4>1
      <4>3. V \div 1 = V
        BY <4>2, DivModOf
      <4>4. P = 1
        BY <2>1, Pow2Is
      <4> QED
        BY ONLY <4>3, <4>4 DEF V
    <3> QED
      BY ONLY <1>3, <3>2, <3>3, <3>4
  <2>2. CASE b # 0
    <3>1. ShrBitsFrom(a, s, b) = ShrLimbs(d, b)
      <4>1. ASSUME NEW i \in 1 .. Len(a) - s
            PROVE  a[s + i] = d[i] /\ Limb(a, s + i) = Limb(d, i)
        BY <1>3 DEF Drop
      <4>2. ShrLimbs(d, b) = [i \in 1 .. Len(a) - s |->
                                ShrWord(d[i], b) | ShlWord(Limb(d, i), WordBits - b)]
        BY ONLY <1>3 DEF ShrLimbs
      <4> HIDE DEF d
      <4> QED
        BY ONLY <4>1, <4>2 DEF ShrBitsFrom
    <3>2. ShrFrom(a, s, b) = Norm(ShrLimbs(d, b))
      BY ONLY <2>2, <3>1 DEF ShrFrom
    <3>3. ShrLimbs(d, b) \in Seq(Word) /\ Value(ShrLimbs(d, b)) = Value(d) \div P
      BY <1>0, <1>3, ShrBitsIs
    <3> QED
      BY <3>2, <3>3
  <2> QED
    BY <2>1, <2>2
<1>7. PICK v \in Seq(Word) : ShrFrom(a, s, b) = Norm(v) /\ Value(v) = Value(d) \div P
  BY <1>6
<1>8. Norm(v) \in Number /\ Value(Norm(v)) = Value(v)
  BY NormIs
<1>9. Value(v) = A \div (Weight[q] * P)
  BY ONLY <1>3, <1>4, <1>5, <1>7
<1> QED
  BY ONLY <1>7, <1>8, <1>9 DEF A, P, s

\* A shift amount, taken apart.
LEMMA Amount ==
  ASSUME NEW k \in Nat
  PROVE  \E q \in Nat, b \in 0 .. WordBits - 1 :
           /\ k = WordBits * q + b /\ k \div WordBits = q /\ k % WordBits = b
           /\ Pow2[k] = Weight[q] * Pow2[b]
<1>1. PICK q \in Int, b \in 0 .. WordBits - 1 :
        k = WordBits * q + b /\ k \div WordBits = q /\ k % WordBits = b
  <2>1. WordBits \in Nat \ {0} /\ k \in Int
    BY BaseIs
  <2> QED
    BY ONLY <2>1, DivIs
<1>2. q \in Nat
  <2>1. ASSUME q <= -1 PROVE FALSE
    <3>1. q * WordBits <= (-1) * WordBits
      BY <2>1, BaseIs, TimesMono
    <3>2. q * WordBits = WordBits * q /\ (-1) * WordBits = - WordBits /\ WordBits \in Nat
      BY BaseIs
    <3> QED
      BY <1>1, <3>1, <3>2
  <2> QED
    BY <2>1
<1>3. Pow2[k] = Weight[q] * Pow2[b]
  <2>1. WordBits * q \in Nat /\ b \in Nat
    BY <1>1, <1>2, BaseIs
  <2>2. Pow2[WordBits * q + b] = Pow2[WordBits * q] * Pow2[b]
    BY <2>1, Pow2Plus
  <2> QED
    BY ONLY <1>1, <1>2, <2>2, WeightIsPow2
<1> QED
  BY ONLY <1>1, <1>2, <1>3

\* shift_right is exact for an amount that is a word.
LEMMA ShiftRightIs ==
  ASSUME NEW a \in Seq(Word), NEW k \in Nat
  PROVE  ShiftRight(a, k) \in Number /\ Value(ShiftRight(a, k)) = Value(a) \div Pow2[k]
<1>1. PICK q \in Nat, b \in 0 .. WordBits - 1 :
        /\ k = WordBits * q + b /\ k \div WordBits = q /\ k % WordBits = b
        /\ Pow2[k] = Weight[q] * Pow2[b]
  BY Amount
<1>2. ShiftRight(a, k) = ShrFrom(a, SkipIndex(a, q), b)
  BY ONLY <1>1 DEF ShiftRight
<1>3. /\ ShrFrom(a, SkipIndex(a, q), b) \in Number
      /\ Value(ShrFrom(a, SkipIndex(a, q), b)) = Value(a) \div (Weight[q] * Pow2[b])
  BY <1>1, ShrFromIs
<1> QED
  BY ONLY <1>1, <1>2, <1>3

\* The numbers of one word.
LEMMA IsU64Is ==
  ASSUME NEW a \in Number
  PROVE  /\ IsU64(a) <=> Value(a) <= MaxWord
         /\ LowLimb(a) \in Word
         /\ IsU64(a) => LowLimb(a) = Value(a)
         /\ \E q \in Nat : Value(a) = LowLimb(a) + Base * q
<1>0. /\ a \in Seq(Word) /\ Len(a) \in Nat /\ Value(a) \in Nat
      /\ Base \in Nat \ {0, 1} /\ MaxWord = Base - 1
  BY ValueIsNat, BaseIs DEF Number
<1>1. LowLimb(a) \in Word /\ LowLimb(a) \in Nat
  BY <1>0, LimbIs DEF LowLimb
<1>2. Weight[0] = 1 /\ Weight[1] = Base
  <2>1. Weight[0 + 1] = Base * Weight[0] /\ Weight[0] = 1
    BY WeightStep, WeightIs
  <2> QED
    BY <1>0, <2>1
<1>3. Low(a)[1] = LowLimb(a)
  <2>1. Low(a)[0 + 1] = Low(a)[0] + Limb(a, 0) * Weight[0] /\ Low(a)[0] = 0
    BY <1>0, LowStep, LowIs
  <2> QED
    BY <1>1, <1>2, <2>1 DEF LowLimb
<1>4. CASE Len(a) <= 1
  <2>1. Low(a)[1] = Value(a)
    BY <1>0, <1>4, ValueFrom
  <2>2. LowLimb(a) = Value(a) /\ LowLimb(a) <= MaxWord
    BY <1>0, <1>1, <1>3, <2>1, WordIs
  <2>3. Value(a) = LowLimb(a) + Base * 0
    BY <1>0, <2>2
  <2> QED
    BY <1>1, <1>4, <2>2, <2>3 DEF IsU64
<1>5. CASE ~ (Len(a) <= 1)
  <2>1. 1 \in 0 .. Len(a) /\ 1 \in Nat
    BY <1>0, <1>5
  <2> DEFINE D == Value(Drop(a, 1))
             A == Value(a)
  <2>2. Drop(a, 1) \in Seq(Word) /\ A = LowLimb(a) + D * Base
    BY <1>0, <1>2, <1>3, <2>1, DropIs
  <2>3. D \in Nat
    BY <2>2, ValueIsNat
  <2>4. A > MaxWord
    <3>1. MaxWord \in Word /\ MaxWord \in Nat
      BY <1>0, WordIs
    <3>2. FromU64(MaxWord) \in Number /\ Value(FromU64(MaxWord)) = MaxWord
      BY <3>1, FromU64Is
    <3>3. Len(FromU64(MaxWord)) < Len(a)
      BY <1>0, <1>5 DEF FromU64, Zero
    <3> QED
      BY <3>2, <3>3, LongerIsGreater
  <2> HIDE DEF D, A
  <2>5. A = LowLimb(a) + Base * D
    BY <1>0, <2>2, <2>3
  <2>6. ~ IsU64(a) /\ A \in Nat
    BY <1>0, <1>5 DEF IsU64, A
  <2>7. ~ (A <= MaxWord)
    BY <1>0, <2>4, <2>6
  <2> QED
    BY ONLY <1>1, <2>3, <2>5, <2>6, <2>7 DEF A
<1> QED
  BY <1>4, <1>5

\* A power of two exceeds its exponent.
LEMMA Pow2Above == \A n \in Nat : n < Pow2[n]
<1> DEFINE T == {n \in Nat : n < Pow2[n]}
<1>1. 0 \in T
  BY Pow2Is
<1>2. ASSUME NEW n \in Nat, n \in T PROVE n + 1 \in T
  BY <1>2, Pow2Step, Pow2Pos
<1>3. Nat \subseteq T
  <2> HIDE DEF T
  <2> QED
    BY <1>1, <1>2, UpToNat
<1> QED
  BY <1>3

(* The amount of a shift as a number: its words, and the bits that are     *)
(* left of it in its lowest limb.                                          *)
LEMMA NatAmount ==
  ASSUME NEW k \in Number
  PROVE  /\ ShiftRight(k, LogBits) \in Number
         /\ Value(ShiftRight(k, LogBits)) = Value(k) \div WordBits
         /\ LowLimb(k) % WordBits = Value(k) % WordBits
<1>1. k \in Seq(Word) /\ LogBits \in Nat /\ Value(k) \in Nat /\ WordBits \in Nat \ {0}
  BY BaseIs, ValueIsNat DEF Number
<1>2. /\ ShiftRight(k, LogBits) \in Number
      /\ Value(ShiftRight(k, LogBits)) = Value(k) \div WordBits
  BY <1>1, ShiftRightIs DEF WordBits
<1>3. PICK e \in Nat : Base = WordBits * e
  <2>1. LogBits < WordBits
    BY <1>1, Pow2Above DEF WordBits
  <2>2. Pow2[WordBits] = Pow2[LogBits] * Pow2[WordBits - LogBits]
    BY <1>1, <2>1, Pow2Split
  <2>3. WordBits - LogBits \in Nat
    BY <1>1, <2>1
  <2>4. Pow2[WordBits - LogBits] \in Nat
    BY <2>3, Pow2Pos
  <2>5. Base = WordBits * Pow2[WordBits - LogBits]
    BY <2>2 DEF WordBits, Base
  <2> QED
    BY <2>4, <2>5
<1>4. PICK t \in Nat : Value(k) = LowLimb(k) + Base * t
  BY IsU64Is
<1> DEFINE W == WordBits
           K == Value(k)
           l == LowLimb(k)
<1>5. l \in Nat /\ l \in Int /\ W \in Nat \ {0} /\ K \in Nat
  BY <1>1, IsU64Is, WordIs
<1> HIDE DEF W, K, l
<1>6. PICK q \in Int, r \in 0 .. W - 1 : l = W * q + r /\ l % W = r
  BY ONLY <1>5, DivIs
<1>7. K = W * (q + e * t) + r
  <2>1. K = l + (W * e) * t
    BY <1>3, <1>4 DEF K, W, l
  <2>2. (W * e) * t = W * (e * t) /\ W * (q + e * t) = W * q + W * (e * t)
    BY <1>1 DEF W
  <2>3. W * q \in Int /\ W * (e * t) \in Int
    BY <1>1 DEF W
  <2> QED
    BY <1>6, <2>1, <2>2, <2>3
<1>8. K % W = r
  <2>1. q + e * t \in Int
    OBVIOUS
  <2> QED
    BY <1>5, <1>7, <2>1, DivModOf
<1> QED
  BY ONLY <1>2, <1>6, <1>8 DEF W, K, l

(* A number that memory can hold, shifted right by a number of any size.   *)
LEMMA ShiftRightNatIs ==
  ASSUME NEW a \in Number, NEW k \in Number, Len(a) <= Base
  PROVE  /\ ShiftRightNat(a, k) \in Number
         /\ Value(ShiftRightNat(a, k)) = Value(a) \div Pow2[Value(k)]
<1> DEFINE words == ShiftRight(k, LogBits)
           K == Value(k)
           A == Value(a)
<1>0. K \in Nat /\ A \in Nat /\ a \in Seq(Word) /\ Base \in Nat \ {0} /\ MaxWord = Base - 1
  BY ValueIsNat, BaseIs DEF Number
<1> HIDE DEF K
<1>1. PICK q \in Nat, b \in 0 .. WordBits - 1 :
        /\ K = WordBits * q + b /\ K \div WordBits = q /\ K % WordBits = b
        /\ Pow2[K] = Weight[q] * Pow2[b]
  BY <1>0, Amount
<1>2. words \in Number /\ Value(words) = q /\ LowLimb(k) % WordBits = b
  BY ONLY <1>1, NatAmount, k \in Number DEF K
<1>3. CASE IsU64(words)
  <2>1. LowLimb(words) = q
    BY <1>2, <1>3, IsU64Is
  <2>2. ShiftRightNat(a, k) = ShrFrom(a, SkipIndex(a, q), b)
    BY ONLY <1>2, <1>3, <2>1 DEF ShiftRightNat
  <2>3. /\ ShrFrom(a, SkipIndex(a, q), b) \in Number
        /\ Value(ShrFrom(a, SkipIndex(a, q), b)) = Value(a) \div (Weight[q] * Pow2[b])
    BY <1>0, ShrFromIs
  <2> QED
    BY ONLY <1>1, <2>2, <2>3 DEF K
<1>4. CASE ~ IsU64(words)
  <2>1. ShiftRightNat(a, k) = Zero
    BY <1>4 DEF ShiftRightNat
  <2>2. Zero \in Number /\ Value(Zero) = 0
    BY ZeroIs
  <2>3. Base <= q
    <3>1. ~ (q <= MaxWord)
      BY <1>2, <1>4, IsU64Is
    <3> QED
      BY <1>0, <3>1
  <2>4. A < Weight[q]
    <3>1. Len(a) <= q /\ Len(a) \in Nat
      BY <1>0, <2>3
    <3> QED
      BY <1>0, <3>1, ValueBelow
  <2>5. A < Pow2[K] /\ Pow2[K] \in Nat \ {0}
    <3>1. Weight[q] \in Nat /\ Pow2[b] \in Nat /\ 1 <= Pow2[b]
      <4>1. b \in Nat
        BY <1>1, BaseIs
      <4>2. Pow2[b] \in Nat /\ 1 <= Pow2[b]
        BY <4>1, Pow2Pos
      <4>3. Weight[q] \in Nat
        BY WeightIs
      <4> QED
        BY <4>2, <4>3
    <3> DEFINE w == Weight[q]
               p == Pow2[b]
    <3>2. Pow2[K] = w * p /\ A < w
      BY <1>1, <2>4
    <3>3. w \in Nat /\ p \in Nat /\ 1 <= p
      BY <3>1
    <3> HIDE DEF w, p
    <3>4. 1 * w <= p * w
      BY <3>3, TimesMono
    <3>5. p * w = w * p /\ 1 * w = w /\ w * p \in Nat
      BY <3>3
    <3>6. w <= w * p
      BY ONLY <3>3, <3>4, <3>5
    <3> DEFINE v == w * p
    <3>7. v \in Nat /\ w <= v /\ Pow2[K] = v
      BY ONLY <3>2, <3>5, <3>6
    <3> HIDE DEF v
    <3> QED
      BY <1>0, <3>2, <3>3, <3>7
  <2>6. A \div Pow2[K] = 0
    BY <1>0, <2>5, SmallMod
  <2> QED
    BY ONLY <2>1, <2>2, <2>6 DEF K
<1> QED
  BY <1>3, <1>4

-----------------------------------------------------------------------------
(* Recursive functions whose argument shrinks.                             *)

\* What the recursion makes of f at x.
Unfold(f, x, last, base, next, step) ==
  IF x \in last THEN base[x] ELSE step[x][f[next[x]]]

Shrinks(D, Q, last, size, next) ==
  /\ last \subseteq D
  /\ size \in [D -> Nat]
  /\ next \in [D \ last -> D]
  /\ \A x \in D \ last : size[next[x]] < size[x]

\* g is what the recursion says it is, at arguments of size below n.
SolvesTo(g, n, D, Q, last, base, size, next, step) ==
  /\ g \in [D -> Q]
  /\ \A x \in D : size[x] < n => g[x] = Unfold(g, x, last, base, next, step)

\* One unfolding of the recursion is a result.
LEMMA UnfoldIs ==
  ASSUME NEW D, NEW Q, NEW last, NEW size, NEW next, Shrinks(D, Q, last, size, next),
         NEW base \in [last -> Q], NEW step \in Steps(D \ last, Q), NEW f \in [D -> Q],
         NEW x \in D
  PROVE  Unfold(f, x, last, base, next, step) \in Q
BY DEF Unfold, Shrinks, Steps

\* A solution for sizes below n gives one for sizes below n + 1.
LEMMA SolvesNext ==
  ASSUME NEW D, NEW Q, NEW last, NEW size, NEW next, Shrinks(D, Q, last, size, next),
         NEW base \in [last -> Q], NEW step \in Steps(D \ last, Q),
         NEW n \in Nat, NEW g, SolvesTo(g, n, D, Q, last, base, size, next, step)
  PROVE  \E h : SolvesTo(h, n + 1, D, Q, last, base, size, next, step)
<1> DEFINE U(f, x) == Unfold(f, x, last, base, next, step)
           h == [x \in D |-> U(g, x)]
<1>1. g \in [D -> Q] /\ \A x \in D : size[x] < n => g[x] = U(g, x)
  BY DEF SolvesTo
<1>2. ASSUME NEW x \in D PROVE U(g, x) \in Q
  BY <1>1, UnfoldIs
<1>3. h \in [D -> Q] /\ \A x \in D : h[x] = U(g, x)
  <2> HIDE DEF U
  <2> QED
    BY <1>2
<1> HIDE DEF h
<1>4. ASSUME NEW x \in D, size[x] < n + 1 PROVE h[x] = U(h, x)
  <2>1. CASE x \in last
    BY <1>3, <2>1 DEF Unfold
  <2>2. CASE x \notin last
    <3> DEFINE y == next[x]
    <3>1. y \in D /\ size[y] \in Nat /\ size[x] \in Nat /\ size[y] < size[x]
      BY <2>2 DEF Shrinks
    <3>2. size[y] < n
      BY <1>4, <3>1
    <3>3. h[y] = g[y]
      BY <1>1, <1>3, <3>1, <3>2
    <3>4. U(g, x) = step[x][g[y]] /\ U(h, x) = step[x][h[y]]
      BY <2>2 DEF Unfold
    <3> QED
      BY ONLY <1>3, <1>4, <3>3, <3>4
  <2> QED
    BY <2>1, <2>2
<1>5. SolvesTo(h, n + 1, D, Q, last, base, size, next, step)
  BY <1>3, <1>4 DEF SolvesTo
<1> QED
  BY <1>5

\* Two solutions agree on the sizes both solve.
LEMMA SolvesAlike ==
  ASSUME NEW D, NEW Q, NEW last, NEW size, NEW next, Shrinks(D, Q, last, size, next),
         NEW base, NEW step, NEW m \in Nat, NEW n \in Nat, m <= n,
         NEW g, SolvesTo(g, n, D, Q, last, base, size, next, step),
         NEW h, SolvesTo(h, m, D, Q, last, base, size, next, step)
  PROVE  \A x \in D : size[x] < m => h[x] = g[x]
<1> DEFINE T == {k \in 0 .. m : \A x \in D : size[x] < k => h[x] = g[x]}
<1>0. \A x \in D : size[x] \in Nat
  BY DEF Shrinks
<1>1. 0 \in T
  BY <1>0
<1>2. ASSUME NEW k \in 1 .. m, k - 1 \in T PROVE k \in T
  <2>1. ASSUME NEW x \in D, size[x] < k PROVE h[x] = g[x]
    <3>1. h[x] = Unfold(h, x, last, base, next, step) /\ g[x] = Unfold(g, x, last, base, next, step)
      <4>1. size[x] < m /\ size[x] < n
        BY <1>0, <2>1
      <4> QED
        BY <4>1 DEF SolvesTo
    <3>2. CASE x \in last
      BY <3>1, <3>2 DEF Unfold
    <3>3. CASE x \notin last
      <4> DEFINE y == next[x]
      <4>1. y \in D /\ size[y] < size[x]
        BY <3>3 DEF Shrinks
      <4>2. size[y] < k - 1
        BY <1>0, <2>1, <4>1
      <4>3. h[y] = g[y]
        BY <1>2, <4>1, <4>2
      <4> QED
        BY ONLY <3>1, <3>3, <4>3 DEF Unfold
    <3> QED
      BY <3>2, <3>3
  <2> QED
    BY <2>1
<1>3. m \in T
  <2> HIDE DEF T
  <2>1. \A k \in 1 .. m : k - 1 \in T => k \in T
    BY <1>2
  <2>2. \A k \in 0 .. m : k \in T
    BY <1>1, <2>1, UpTo
  <2> QED
    BY <2>2
<1> QED
  BY <1>3

\* A recursion whose argument shrinks has a solution on its whole domain.
LEMMA RecShrinks ==
  ASSUME NEW D, NEW Q, NEW q \in Q, NEW last, NEW size, NEW next,
         Shrinks(D, Q, last, size, next),
         NEW base \in [last -> Q], NEW step \in Steps(D \ last, Q)
  PROVE  \E f \in [D -> Q] : \A x \in D : f[x] = Unfold(f, x, last, base, next, step)
<1> DEFINE solves(g, n) == SolvesTo(g, n, D, Q, last, base, size, next, step)
           T == {n \in Nat : \E g : solves(g, n)}
<1>0. \A x \in D : size[x] \in Nat
  BY DEF Shrinks
<1>1. 0 \in T
  <2> DEFINE g == [x \in D |-> q]
  <2>1. g \in [D -> Q]
    OBVIOUS
  <2> HIDE DEF g
  <2>2. solves(g, 0)
    BY <1>0, <2>1 DEF SolvesTo
  <2> QED
    BY <2>2
<1>2. ASSUME NEW n \in Nat, n \in T PROVE n + 1 \in T
  <2>1. PICK g : solves(g, n)
    BY <1>2
  <2>2. \E h : solves(h, n + 1)
    BY <2>1, SolvesNext
  <2> QED
    BY <2>2
<1>3. Nat \subseteq T
  <2> HIDE DEF T
  <2> QED
    BY <1>1, <1>2, UpToNat
<1> DEFINE G == [n \in Nat |-> CHOOSE g : solves(g, n)]
<1>4. ASSUME NEW n \in Nat PROVE solves(G[n], n)
  <2>1. \E g : solves(g, n)
    BY <1>3
  <2> HIDE DEF solves
  <2> QED
    BY <2>1
<1> HIDE DEF G, T
<1> DEFINE f == [x \in D |-> G[size[x] + 1][x]]
<1>5. ASSUME NEW x \in D
      PROVE  /\ size[x] + 1 \in Nat
             /\ G[size[x] + 1] \in [D -> Q]
             /\ G[size[x] + 1][x] = Unfold(G[size[x] + 1], x, last, base, next, step)
             /\ f[x] = G[size[x] + 1][x]
  <2>1. size[x] + 1 \in Nat /\ size[x] < size[x] + 1
    BY <1>0
  <2> QED
    BY <1>4, <2>1 DEF SolvesTo
<1>6. f \in [D -> Q]
  BY <1>5
<1> HIDE DEF f
<1>7. ASSUME NEW x \in D PROVE f[x] = Unfold(f, x, last, base, next, step)
  <2> DEFINE g == G[size[x] + 1]
  <2>1. f[x] = Unfold(g, x, last, base, next, step)
    BY <1>5
  <2>2. CASE x \in last
    BY <2>1, <2>2 DEF Unfold
  <2>3. CASE x \notin last
    <3> DEFINE y == next[x]
               h == G[size[y] + 1]
    <3>1. y \in D /\ size[y] < size[x]
      BY <2>3 DEF Shrinks
    <3>2. size[y] + 1 \in Nat /\ size[x] + 1 \in Nat /\ size[y] + 1 <= size[x] + 1 /\ size[y] < size[y] + 1
      BY <1>0, <3>1
    <3>3. solves(g, size[x] + 1) /\ solves(h, size[y] + 1)
      BY <1>4, <3>2
    <3> HIDE DEF g, h, y
    <3>4. \A z \in D : size[z] < size[y] + 1 => h[z] = g[z]
      BY <3>2, <3>3, SolvesAlike
    <3>5. h[y] = g[y]
      BY <3>1, <3>2, <3>4
    <3>6. f[y] = h[y]
      BY <1>5, <3>1 DEF h
    <3> QED
      BY ONLY <2>1, <2>3, <3>5, <3>6 DEF Unfold, y
  <2> QED
    BY <2>2, <2>3
<1> QED
  BY <1>6, <1>7

(* A count of any size is worked off in chunks of the largest word.        *)
LEMMA ZerosNatIs ==
  ASSUME NEW count \in Number
  PROVE  ZerosNat[count] = Zeros(Value(count))
<1> DEFINE D == Number
           Q == Seq(Word)
           last == {c \in D : IsU64(c)}
           size == [c \in D |-> Value(c)]
           less(c) == Sub(c, FromU64(MaxWord))
           next == [c \in D \ last |-> less(c)]
           base == [c \in last |-> PushZeros(<<>>, LowLimb(c))]
           step == [c \in D \ last |-> [out \in Q |-> PushZeros(out, MaxWord)]]
<1>0. /\ MaxWord \in Nat \ {0} /\ FromU64(MaxWord) \in Number
      /\ Value(FromU64(MaxWord)) = MaxWord
  <2>1. MaxWord \in Nat \ {0} /\ MaxWord \in Word
    BY BaseIs, WordIs
  <2> QED
    BY <2>1, FromU64Is
<1>1. ASSUME NEW c \in D PROVE Value(c) \in Nat /\ LowLimb(c) \in Nat
  BY ValueIsNat, IsU64Is, WordIs DEF Number
<1>2. ASSUME NEW c \in D \ last
      PROVE  less(c) \in D /\ Value(less(c)) < Value(c) /\ Value(c) = Value(less(c)) + MaxWord
  <2>1. ~ (Value(c) <= MaxWord)
    BY IsU64Is
  <2>2. /\ Sub(c, FromU64(MaxWord)) \in Number
        /\ Value(Sub(c, FromU64(MaxWord))) = IF MaxWord < Value(c) THEN Value(c) - MaxWord ELSE 0
    BY <1>0, SubIs
  <2> QED
    BY <1>0, <1>1, <2>1, <2>2
<1>3. ASSUME NEW out \in Q, NEW n \in Nat PROVE PushZeros(out, n) \in Q
  <2>1. [i \in 1 .. n |-> 0] \in Seq(Word)
    BY BaseIs
  <2> QED
    BY <2>1 DEF PushZeros
<1>4. Shrinks(D, Q, last, size, next)
  <2> HIDE DEF D, less
  <2>1. ASSUME NEW c \in D \ last
        PROVE  next[c] = less(c) /\ size[next[c]] = Value(less(c)) /\ size[c] = Value(c)
    BY <1>2
  <2>2. size \in [D -> Nat]
    BY <1>1
  <2>3. next \in [D \ last -> D]
    BY <1>2
  <2>4. \A c \in D \ last : size[next[c]] < size[c]
    BY <1>2, <2>1
  <2>5. last \subseteq D
    OBVIOUS
  <2> HIDE DEF last, size, next
  <2> QED
    BY <2>2, <2>3, <2>4, <2>5 DEF Shrinks
<1>5. base \in [last -> Q] /\ step \in Steps(D \ last, Q) /\ <<>> \in Q
  <2>1. <<>> \in Q
    OBVIOUS
  <2> HIDE DEF D, Q
  <2>2. \A c \in last : c \in D
    OBVIOUS
  <2>3. base \in [last -> Q]
    BY <1>1, <1>3, <2>1, <2>2
  <2>4. step \in [D \ last -> [Q -> Q]]
    BY <1>0, <1>3
  <2> QED
    BY <2>1, <2>3, <2>4 DEF Steps
<1>6. PICK f \in [D -> Q] : \A c \in D : f[c] = Unfold(f, c, last, base, next, step)
  <2> HIDE DEF D, Q, last, size, next, base, step
  <2> QED
    BY <1>4, <1>5, RecShrinks
<1> DEFINE eq(g) == g = [c \in D |-> IF IsU64(c) THEN PushZeros(<<>>, LowLimb(c))
                                    ELSE PushZeros(g[less(c)], MaxWord)]
<1>7. eq(f)
  <2>1. ASSUME NEW c \in D
        PROVE  f[c] = IF IsU64(c) THEN PushZeros(<<>>, LowLimb(c))
                      ELSE PushZeros(f[less(c)], MaxWord)
    <3>1. CASE IsU64(c)
      BY <1>6, <3>1 DEF Unfold
    <3>2. CASE ~ IsU64(c)
      <4>1. c \in D \ last /\ c \notin last
        BY <3>2
      <4>2. f[c] = step[c][f[next[c]]]
        BY <1>6, <4>1 DEF Unfold
      <4>3. next[c] = less(c) /\ f[less(c)] \in Q
        BY <1>2, <1>6, <4>1
      <4> HIDE DEF less
      <4>4. step[c][f[less(c)]] = PushZeros(f[less(c)], MaxWord)
        BY <4>1, <4>3
      <4> QED
        BY ONLY <3>2, <4>2, <4>3, <4>4
    <3> QED
      BY <3>1, <3>2
  <2> HIDE DEF less
  <2> QED
    BY <1>6, <2>1
<1>8. eq(ZerosNat)
  <2> DEFINE h == CHOOSE g : eq(g)
  <2>1. eq(h)
    <3> HIDE DEF eq
    <3> QED
      BY <1>7
  <2>2. ZerosNat = h
    BY DEF ZerosNat
  <2> HIDE DEF h
  <2> QED
    BY <2>1, <2>2
<1>9. \A c \in D : ZerosNat[c] = IF IsU64(c) THEN PushZeros(<<>>, LowLimb(c))
                                ELSE PushZeros(ZerosNat[less(c)], MaxWord)
  <2> DEFINE z == ZerosNat
  <2>1. eq(z)
    BY <1>8
  <2> HIDE DEF z, less, D
  <2>2. \A c \in D : z[c] = IF IsU64(c) THEN PushZeros(<<>>, LowLimb(c))
                                ELSE PushZeros(z[less(c)], MaxWord)
    BY <2>1
  <2> QED
    BY <2>2 DEF z
<1> DEFINE T == {n \in Nat : \A c \in D : Value(c) < n => ZerosNat[c] = Zeros(Value(c))}
<1>10. 0 \in T
  BY <1>1
<1>11. ASSUME NEW n \in Nat, n \in T PROVE n + 1 \in T
  <2>1. ASSUME NEW c \in D, Value(c) < n + 1 PROVE ZerosNat[c] = Zeros(Value(c))
    <3>1. CASE IsU64(c)
      <4>1. ZerosNat[c] = PushZeros(<<>>, Value(c))
        BY <1>9, <3>1, IsU64Is
      <4>2. Zeros(Value(c)) \in Seq({0})
        BY <1>1 DEF Zeros
      <4> QED
        BY <4>1, <4>2 DEF PushZeros, Zeros
    <3>2. CASE ~ IsU64(c)
      <4> DEFINE d == less(c)
      <4>1. d \in D /\ Value(d) < Value(c) /\ Value(c) = Value(d) + MaxWord
        BY <1>2, <3>2
      <4>2. ZerosNat[c] = PushZeros(ZerosNat[d], MaxWord)
        BY <1>9, <3>2
      <4> HIDE DEF d
      <4>3. ZerosNat[d] = Zeros(Value(d))
        <5>1. Value(d) < n
          BY <1>1, <2>1, <4>1
        <5> QED
          BY <1>11, <4>1, <5>1
      <4>4. PushZeros(Zeros(Value(d)), MaxWord) = Zeros(Value(d) + MaxWord)
        <5> DEFINE m == Value(d)
        <5>1. m \in Nat
          BY <1>1, <4>1
        <5> HIDE DEF m
        <5>2. PushZeros(Zeros(m), MaxWord) = Zeros(m + MaxWord)
          BY <1>0, <5>1 DEF PushZeros, Zeros
        <5> QED
          BY <5>2 DEF m
      <4> QED
        BY ONLY <4>1, <4>2, <4>3, <4>4
    <3> QED
      BY <3>1, <3>2
  <2> QED
    BY <2>1
<1>12. Nat \subseteq T
  <2> HIDE DEF T
  <2> QED
    BY <1>10, <1>11, UpToNat
<1> QED
  <2>1. Value(count) + 1 \in Nat /\ Value(count) < Value(count) + 1
    BY <1>1
  <2> QED
    BY <1>12, <2>1

\* shift_left_nat is exact for an amount of any size.
LEMMA ShiftLeftNatIs ==
  ASSUME NEW a \in Number, NEW k \in Number
  PROVE  /\ ShiftLeftNat(a, k) \in Number
         /\ Value(ShiftLeftNat(a, k)) = Value(a) * Pow2[Value(k)]
<1> DEFINE words == ShiftRight(k, LogBits)
           K == Value(k)
<1>0. K \in Nat /\ a \in Seq(Word) /\ Value(a) \in Nat /\ Pow2[K] \in Nat
  BY ValueIsNat, Pow2Pos DEF Number
<1> HIDE DEF K
<1>1. PICK q \in Nat, b \in 0 .. WordBits - 1 :
        /\ K = WordBits * q + b /\ K \div WordBits = q /\ K % WordBits = b
        /\ Pow2[K] = Weight[q] * Pow2[b]
  BY <1>0, Amount
<1>2. words \in Number /\ Value(words) = q /\ LowLimb(k) % WordBits = b
  BY ONLY <1>1, NatAmount, k \in Number DEF K
<1>3. CASE IsZero(a)
  <2>1. ShiftLeftNat(a, k) = Zero /\ Value(a) = 0
    BY <1>3, ZeroIs DEF ShiftLeftNat
  <2>2. Zero \in Number /\ Value(Zero) = 0
    BY ZeroIs
  <2>3. 0 * Pow2[K] = 0
    BY <1>0
  <2> QED
    BY ONLY <2>1, <2>2, <2>3 DEF K
<1>4. CASE ~ IsZero(a)
  <2>1. ZerosNat[words] = Zeros(q)
    BY ONLY <1>2, ZerosNatIs
  <2>2. ShiftLeftNat(a, k) = ShlOnto(a, b, Zeros(q))
    BY ONLY <1>2, <1>4, <2>1 DEF ShiftLeftNat
  <2>3. /\ ShlOnto(a, b, Zeros(q)) \in Number
        /\ Value(ShlOnto(a, b, Zeros(q))) = (Value(a) * Pow2[b]) * Weight[q]
    BY <1>0, ShlOntoIs
  <2>4. (Value(a) * Pow2[b]) * Weight[q] = Value(a) * (Weight[q] * Pow2[b])
    <3>1. b \in Nat
      BY BaseIs
    <3>2. Pow2[b] \in Nat
      BY <3>1, Pow2Pos
    <3>3. Weight[q] \in Nat
      BY WeightIs
    <3> QED
      BY <1>0, <3>2, <3>3
  <2> QED
    BY ONLY <1>1, <2>2, <2>3, <2>4 DEF K
<1> QED
  BY <1>3, <1>4

-----------------------------------------------------------------------------
(* Powers.                                                                 *)

\* The powers of a number satisfy their recursion.
LEMMA RaisedIs ==
  ASSUME NEW m \in Nat
  PROVE  /\ Raised(m) \in [Nat -> Nat]
         /\ Raised(m)[0] = 1
         /\ \A k \in Nat : Raised(m)[k + 1] = m * Raised(m)[k]
<1> DEFINE Q == Nat
           s == [i \in Nat \ {0} |-> [x \in Q |-> m * x]]
<1>1. s \in Steps(Nat \ {0}, Q) /\ 1 \in Q
  BY DEF Steps
<1>2. PICK g \in [Nat -> Q] : g[0] = 1 /\ \A i \in Nat \ {0} : g[i] = s[i][g[i - 1]]
  <2> HIDE DEF s, Q
  <2> QED
    BY <1>1, RecNat
<1>3. \A i \in Nat \ {0} : i - 1 \in Nat /\ g[i] = m * g[i - 1]
  <2> SUFFICES ASSUME NEW i \in Nat \ {0} PROVE i - 1 \in Nat /\ g[i] = m * g[i - 1]
    OBVIOUS
  <2>1. i - 1 \in Nat
    OBVIOUS
  <2>2. g[i - 1] \in Q
    BY <2>1
  <2>3. s[i][g[i - 1]] = m * g[i - 1]
    BY <2>2
  <2> QED
    BY <1>2, <2>1, <2>3
<1> DEFINE eq(f) == f = [k \in Nat |-> IF k = 0 THEN 1 ELSE m * f[k - 1]]
           h == CHOOSE f : eq(f)
<1>4. eq(g)
  BY <1>2, <1>3
<1>5. eq(h)
  <2> HIDE DEF eq
  <2> QED
    BY <1>4
<1>6. Raised(m) = h
  BY DEF Raised
<1> HIDE DEF h
<1>7. h[0] = 1 /\ \A k \in Nat : h[k + 1] = m * h[k]
  <2>1. h[0] = 1
    BY <1>5
  <2>2. ASSUME NEW k \in Nat PROVE h[k + 1] = m * h[k]
    <3>1. k + 1 \in Nat /\ k + 1 # 0 /\ (k + 1) - 1 = k
      OBVIOUS
    <3> QED
      BY <1>5, <3>1
  <2> QED
    BY <2>1, <2>2
<1> DEFINE T == {k \in Nat : h[k] \in Nat}
<1>8. Nat \subseteq T
  <2>1. 0 \in T
    BY <1>7
  <2>2. ASSUME NEW k \in Nat, k \in T PROVE k + 1 \in T
    <3>1. h[k + 1] = m * h[k] /\ h[k] \in Nat
      BY <1>7, <2>2
    <3>2. m * h[k] \in Nat
      BY <3>1
    <3> QED
      BY <3>1, <3>2
  <2> HIDE DEF T
  <2> QED
    BY <2>1, <2>2, UpToNat
<1>9. h \in [Nat -> Nat]
  BY <1>5, <1>8
<1> QED
  BY <1>6, <1>7, <1>9

\* Exponents add, for every number.
LEMMA RaisedPlus ==
  ASSUME NEW m \in Nat, NEW i \in Nat, NEW j \in Nat
  PROVE  Raised(m)[i + j] = Raised(m)[i] * Raised(m)[j]
<1> DEFINE p == Raised(m)
           T == {k \in Nat : p[i + k] = p[i] * p[k]}
<1>0. \A k \in Nat : p[k] \in Nat
  BY RaisedIs
<1>1. 0 \in T
  <2>1. p[0] = 1 /\ p[i] \in Nat /\ i + 0 = i
    BY <1>0, RaisedIs
  <2> DEFINE x == p[i]
  <2>2. x * 1 = x
    <3>1. x \in Nat
      BY <2>1
    <3> HIDE DEF x
    <3> QED
      BY <3>1
  <2>3. p[i + 0] = p[i] * p[0]
    BY ONLY <2>1, <2>2
  <2> QED
    BY <2>3
<1>2. ASSUME NEW k \in Nat, k \in T PROVE k + 1 \in T
  <2>1. p[i + k] = p[i] * p[k]
    BY <1>2
  <2>2. p[(i + k) + 1] = m * p[i + k] /\ p[k + 1] = m * p[k] /\ i + (k + 1) = (i + k) + 1
    BY RaisedIs
  <2> DEFINE x == p[i]
             y == p[k]
  <2>3. x \in Nat /\ y \in Nat
    BY <1>0
  <2> HIDE DEF x, y, p
  <2>4. m * (x * y) = x * (m * y)
    BY <2>3
  <2>5. p[i + (k + 1)] = p[i] * p[k + 1]
    BY ONLY <2>1, <2>2, <2>4 DEF x, y
  <2> QED
    BY <2>5
<1>3. Nat \subseteq T
  <2> HIDE DEF T
  <2> QED
    BY <1>1, <1>2, UpToNat
<1> QED
  BY <1>3

(* Squaring: half the exponent, squared, with one more factor when it was  *)
(* odd.                                                                    *)
LEMMA PowIs ==
  ASSUME NEW a \in Number, NEW e \in Nat
  PROVE  Pow(a, e) \in Number /\ Value(Pow(a, e)) = Raised(Value(a))[e]
<1> DEFINE D == 0 .. e
           Q == Number
           last == {0}
           size == [k \in D |-> k]
           half(k) == k \div 2
           next == [k \in D \ last |-> half(k)]
           base == [k \in last |-> One]
           more(k, h) == IF k % 2 = 0 THEN Mul(h, h) ELSE Mul(Mul(h, h), a)
           step == [k \in D \ last |-> [h \in Q |-> more(k, h)]]
           A == Value(a)
           p == Raised(A)
<1>0. One \in Number /\ Value(One) = 1 /\ a \in Seq(Word) /\ A \in Nat
  BY FromU64Is, BaseIs, ValueIsNat DEF One, Number
<1>1. ASSUME NEW k \in D, k # 0
      PROVE  /\ half(k) \in D /\ half(k) < k
             /\ k % 2 = 0 => k = half(k) + half(k)
             /\ k % 2 # 0 => k = (half(k) + half(k)) + 1
  <2>1. PICK q \in Int, r \in 0 .. 1 : k = 2 * q + r /\ k \div 2 = q /\ k % 2 = r
    <3>1. 2 \in Nat \ {0} /\ k \in Int /\ 2 - 1 = 1
      OBVIOUS
    <3>2. \E q \in Int, r \in 0 .. 2 - 1 : k = 2 * q + r /\ k \div 2 = q /\ k % 2 = r
      BY ONLY <3>1, DivIs
    <3> QED
      BY ONLY <3>1, <3>2
  <2> QED
    BY <1>1, <2>1
<1>2. ASSUME NEW h \in Q, NEW k PROVE more(k, h) \in Q
  BY <1>0, MulIs DEF Number
<1> HIDE DEF half, more
<1>3. Shrinks(D, Q, last, size, next)
  <2>1. size \in [D -> Nat] /\ next \in [D \ last -> D] /\ last \subseteq D
    BY <1>1
  <2>2. \A k \in D \ last : size[next[k]] < size[k]
    BY <1>1
  <2> HIDE DEF size, next, last, D
  <2> QED
    BY <2>1, <2>2 DEF Shrinks
<1>4. base \in [last -> Q] /\ step \in Steps(D \ last, Q) /\ One \in Q
  <2> HIDE DEF D, last, Q
  <2> QED
    BY <1>0, <1>2 DEF Steps, Q
<1>5. PICK f \in [D -> Q] : \A k \in D : f[k] = Unfold(f, k, last, base, next, step)
  <2> HIDE DEF D, Q, last, size, next, base, step
  <2> QED
    BY <1>3, <1>4, RecShrinks
<1> DEFINE eq(g) == g = [k \in D |-> IF k = 0 THEN One ELSE more(k, g[half(k)])]
           h == CHOOSE g : eq(g)
<1>6. eq(f)
  <2>1. ASSUME NEW k \in D PROVE f[k] = IF k = 0 THEN One ELSE more(k, f[half(k)])
    <3>1. CASE k = 0
      BY <1>5, <3>1 DEF Unfold
    <3>2. CASE k # 0
      <4>1. k \in D \ last /\ k \notin last
        BY <3>2
      <4>2. f[k] = step[k][f[next[k]]]
        BY <1>5, <4>1 DEF Unfold
      <4>3. next[k] = half(k) /\ f[half(k)] \in Q
        BY <1>1, <1>5, <4>1
      <4>4. step[k][f[half(k)]] = more(k, f[half(k)])
        BY <4>1, <4>3
      <4> QED
        BY ONLY <3>2, <4>2, <4>3, <4>4
    <3> QED
      BY <3>1, <3>2
  <2> HIDE DEF D, Q
  <2> QED
    BY <1>5, <2>1
<1>7. eq(h)
  <2> HIDE DEF eq
  <2> QED
    BY <1>6
<1>8. Pow(a, e) = h[e]
  BY DEF Pow, more, half
<1> HIDE DEF h
<1> DEFINE T == {n \in Nat : \A k \in D : k < n => h[k] \in Number /\ Value(h[k]) = p[k]}
<1>9. 0 \in T
  OBVIOUS
<1>10. ASSUME NEW n \in Nat, n \in T PROVE n + 1 \in T
  <2>1. ASSUME NEW k \in D, k < n + 1 PROVE h[k] \in Number /\ Value(h[k]) = p[k]
    <3>1. CASE k = 0
      <4>1. h[k] = One
        BY <1>7, <3>1
      <4>2. p[0] = 1
        BY <1>0, RaisedIs
      <4> QED
        BY <1>0, <3>1, <4>1, <4>2
    <3>2. CASE k # 0
      <4> DEFINE i == half(k)
                 g == h[i]
                 gg == Mul(g, g)
      <4>1. /\ i \in D /\ i < k /\ (k % 2 = 0 => k = i + i) /\ (k % 2 # 0 => k = (i + i) + 1)
        BY <1>1, <3>2
      <4>2. h[k] = more(k, g)
        BY <1>7, <3>2
      <4>3. g \in Number /\ Value(g) = p[i]
        BY <1>10, <2>1, <4>1
      <4>4. g \in Seq(Word) /\ i \in Nat
        BY <4>1, <4>3 DEF Number
      <4> HIDE DEF g, i
      <4>5. gg \in Number /\ Value(gg) = p[i + i]
        <5>1. gg \in Number /\ Value(gg) = Value(g) * Value(g)
          BY <4>4, MulIs
        <5>2. p[i + i] = p[i] * p[i]
          BY <1>0, <4>4, RaisedPlus
        <5> QED
          BY ONLY <4>3, <5>1, <5>2
      <4> HIDE DEF gg
      <4>6. CASE k % 2 = 0
        BY <4>1, <4>2, <4>5, <4>6 DEF more, gg
      <4>7. CASE k % 2 # 0
        <5>1. gg \in Seq(Word)
          BY <4>5 DEF Number
        <5>2. Mul(gg, a) \in Number /\ Value(Mul(gg, a)) = Value(gg) * A
          BY <1>0, <5>1, MulIs
        <5>3. p[(i + i) + 1] = A * p[i + i] /\ p[i + i] \in Nat
          <6>1. i + i \in Nat
            BY <4>4
          <6>2. \A j \in Nat : p[j + 1] = A * p[j] /\ p[j] \in Nat
            BY <1>0, RaisedIs
          <6> QED
            BY ONLY <6>1, <6>2
        <5> DEFINE y == p[i + i]
        <5> HIDE DEF A, p, y
        <5>4. y * A = A * y
          BY <1>0, <5>3 DEF y
        <5>5. h[k] = Mul(gg, a)
          BY ONLY <4>2, <4>7 DEF more, gg
        <5> QED
          BY ONLY <4>1, <4>5, <4>7, <5>2, <5>3, <5>4, <5>5 DEF y
      <4> QED
        BY <4>6, <4>7
    <3> QED
      BY <3>1, <3>2
  <2> QED
    BY <2>1
<1>11. Nat \subseteq T
  <2> HIDE DEF T
  <2> QED
    BY <1>9, <1>10, UpToNat
<1> QED
  <2>1. e + 1 \in Nat /\ e < e + 1 /\ e \in D
    OBVIOUS
  <2> QED
    BY <1>8, <1>11, <2>1

-----------------------------------------------------------------------------
(* The greatest common divisor.                                            *)

Multiple(d, n) == \E q \in Nat : n = d * q

\* g divides both, and is divided by whatever divides both.
IsGcd(g, m, n) ==
  /\ g \in Nat
  /\ m + n # 0 => g # 0
  /\ Multiple(g, m) /\ Multiple(g, n)
  /\ \A d \in Nat \ {0} : Multiple(d, m) /\ Multiple(d, n) => Multiple(d, g)

\* The greatest common divisor with zero is the other number.
LEMMA GcdZero ==
  ASSUME NEW n \in Nat
  PROVE  IsGcd(n, 0, n)
<1>1. 0 = n * 0 /\ n = n * 1 /\ 0 \in Nat /\ 1 \in Nat
  OBVIOUS
<1>2. Multiple(n, 0) /\ Multiple(n, n)
  BY ONLY <1>1 DEF Multiple
<1> QED
  BY <1>2 DEF IsGcd

\* A step of Euclid keeps the common divisors.
LEMMA GcdStep ==
  ASSUME NEW m \in Nat \ {0}, NEW n \in Nat, NEW g, IsGcd(g, n % m, m)
  PROVE  IsGcd(g, m, n)
<1>1. PICK q \in Int, r \in 0 .. m - 1 : n = m * q + r /\ n % m = r
  BY DivIs
<1>2. q \in Nat
  <2>1. ASSUME q <= -1 PROVE FALSE
    <3>1. q * m <= (-1) * m
      BY <2>1, TimesMono
    <3>2. q * m = m * q /\ (-1) * m = - m
      OBVIOUS
    <3> QED
      BY <1>1, <3>1, <3>2
  <2> QED
    BY <2>1
<1>3. IsGcd(g, r, m)
  BY ONLY <1>1, IsGcd(g, n % m, m)
<1>4. g \in Nat /\ g # 0 /\ Multiple(g, r) /\ Multiple(g, m)
  BY <1>1, <1>3 DEF IsGcd
<1>5. Multiple(g, n)
  <2>1. PICK x \in Nat : r = g * x
    BY <1>4 DEF Multiple
  <2>2. PICK y \in Nat : m = g * y
    BY <1>4 DEF Multiple
  <2>3. g * (y * q + x) = (g * y) * q + g * x
    BY <1>2, <1>4
  <2>4. y * q + x \in Nat
    BY <1>2
  <2>5. n = g * (y * q + x)
    BY ONLY <1>1, <2>1, <2>2, <2>3
  <2> QED
    BY <2>4, <2>5 DEF Multiple
<1>6. ASSUME NEW d \in Nat \ {0}, Multiple(d, m), Multiple(d, n) PROVE Multiple(d, g)
  <2>1. PICK x \in Nat : m = d * x
    BY <1>6 DEF Multiple
  <2>2. PICK y \in Nat : n = d * y
    BY <1>6 DEF Multiple
  <2> DEFINE t == x * q
             z == y - t
  <2>3. t \in Nat /\ z \in Int
    BY <1>2
  <2>4. r = d * z
    <3>1. (d * x) * q = d * t
      BY <1>2
    <3>2. m * q = d * t
      BY ONLY <2>1, <3>1
    <3> HIDE DEF t
    <3>3. d * (y - t) = d * y - d * t
      BY <2>3
    <3> DEFINE u == d * y
               v == d * t
    <3>4. u \in Nat /\ v \in Nat /\ n = u /\ m * q = v
      BY <2>2, <2>3, <3>2
    <3> HIDE DEF u, v
    <3>5. r = u - v
      BY <1>1, <3>4
    <3> QED
      BY ONLY <3>3, <3>5 DEF u, v
  <2> HIDE DEF z
  <2>5. z \in Nat
    <3>1. ASSUME z <= -1 PROVE FALSE
      <4>1. z * d <= (-1) * d
        BY <2>3, <3>1, TimesMono
      <4>2. z * d = d * z /\ (-1) * d = - d
        BY <2>3
      <4> QED
        BY <1>1, <2>4, <4>1, <4>2
    <3> QED
      BY <2>3, <3>1
  <2>6. Multiple(d, r)
    BY <2>4, <2>5 DEF Multiple
  <2> QED
    BY <1>3, <1>6, <2>6 DEF IsGcd
<1> QED
  BY <1>4, <1>5, <1>6 DEF IsGcd

\* The recursion of gcd ends, as its first argument shrinks, in the greatest
\* common divisor.
LEMMA GcdOfIs ==
  ASSUME NEW a \in Number, NEW b \in Number
  PROVE  GcdOf[<<a, b>>] \in Number /\ IsGcd(Value(GcdOf[<<a, b>>]), Value(a), Value(b))
<1> DEFINE D == Number \X Number
           Q == Number
           last == {p \in D : IsZero(p[1])}
           size == [p \in D |-> Value(p[1])]
           rest(p) == <<Modulo(p[2], p[1]), p[1]>>
           next == [p \in D \ last |-> rest(p)]
           base == [p \in last |-> p[2]]
           step == [p \in D \ last |-> [g \in Q |-> g]]
<1>1. ASSUME NEW p \in D
      PROVE  p[1] \in Number /\ p[2] \in Number /\ Value(p[1]) \in Nat /\ Value(p[2]) \in Nat
  BY ValueIsNat DEF Number
<1>2. ASSUME NEW p \in D \ last
      PROVE  /\ rest(p) \in D /\ rest(p)[2] = p[1]
             /\ Value(p[1]) # 0
             /\ Value(rest(p)[1]) = Value(p[2]) % Value(p[1])
             /\ Value(rest(p)[1]) < Value(p[1])
  <2> DEFINE x == p[1]
             y == p[2]
  <2>1. x \in Number /\ y \in Number /\ Value(x) \in Nat /\ Value(y) \in Nat /\ ~ IsZero(x)
    BY <1>1
  <2> HIDE DEF x, y
  <2>2. Value(x) # 0
    BY <2>1, ZeroIs
  <2>3. Modulo(y, x) \in Number /\ Value(Modulo(y, x)) = Value(y) % Value(x)
    BY <2>1, <2>2, DivModIs
  <2>4. Value(y) % Value(x) < Value(x)
    <3> DEFINE X == Value(x)
               Y == Value(y)
    <3>1. X \in Nat \ {0} /\ Y \in Int
      BY <2>1, <2>2
    <3> HIDE DEF X, Y
    <3>2. Y % X < X
      BY <3>1
    <3> QED
      BY ONLY <3>2 DEF X, Y
  <2>5. <<Modulo(y, x), x>> \in D
    BY <2>1, <2>3
  <2>6. rest(p) = <<Modulo(y, x), x>>
    BY DEF x, y
  <2>7. rest(p)[1] = Modulo(y, x) /\ rest(p)[2] = x
    BY <2>6
  <2> HIDE DEF rest
  <2>8. rest(p) \in D /\ rest(p)[2] = x /\ Value(x) # 0
    BY ONLY <2>2, <2>5, <2>6, <2>7
  <2>9. Value(rest(p)[1]) = Value(y) % Value(x) /\ Value(rest(p)[1]) < Value(x)
    BY ONLY <2>3, <2>4, <2>7
  <2> QED
    BY ONLY <2>8, <2>9 DEF x, y
<1> HIDE DEF rest
<1>3. Shrinks(D, Q, last, size, next)
  <2>1. size \in [D -> Nat]
    BY <1>1
  <2>2. next \in [D \ last -> D] /\ last \subseteq D
    <3> HIDE DEF D
    <3> QED
      BY <1>2
  <2>3. ASSUME NEW p \in D \ last PROVE size[next[p]] < size[p]
    <3>1. next[p] = rest(p) /\ rest(p) \in D
      BY <1>2
    <3>2. size[rest(p)] = Value(rest(p)[1]) /\ size[p] = Value(p[1])
      <4> HIDE DEF D
      <4> QED
        BY <3>1
    <3> HIDE DEF size, next
    <3> QED
      BY <1>2, <3>1, <3>2
  <2> HIDE DEF size, next, last, D
  <2> QED
    BY <2>1, <2>2, <2>3 DEF Shrinks
<1>4. base \in [last -> Q] /\ step \in Steps(D \ last, Q) /\ Zero \in Q
  <2>1. base \in [last -> Q]
    BY <1>1
  <2>2. Zero \in Q
    BY ZeroIs
  <2> HIDE DEF D, last, Q, base
  <2> QED
    BY <2>1, <2>2 DEF Steps
<1>5. PICK f \in [D -> Q] : \A p \in D : f[p] = Unfold(f, p, last, base, next, step)
  <2> HIDE DEF D, Q, last, size, next, base, step
  <2> QED
    BY <1>3, <1>4, RecShrinks
<1> DEFINE eq(g) == g = [p \in D |-> IF IsZero(p[1]) THEN p[2] ELSE g[rest(p)]]
           h == CHOOSE g : eq(g)
<1>6. eq(f)
  <2>1. ASSUME NEW p \in D PROVE f[p] = IF IsZero(p[1]) THEN p[2] ELSE f[rest(p)]
    <3> HIDE DEF D
    <3>1. CASE IsZero(p[1])
      BY <1>5, <3>1 DEF Unfold
    <3>2. CASE ~ IsZero(p[1])
      <4>1. p \in D \ last /\ p \notin last
        BY <3>2
      <4>2. f[p] = step[p][f[next[p]]]
        BY <1>5, <4>1 DEF Unfold
      <4>3. next[p] = rest(p) /\ f[rest(p)] \in Q
        BY <1>2, <1>5, <4>1
      <4>4. step[p][f[rest(p)]] = f[rest(p)]
        BY <4>1, <4>3
      <4> QED
        BY ONLY <3>2, <4>2, <4>3, <4>4
    <3> QED
      BY <3>1, <3>2
  <2> HIDE DEF D, Q
  <2> QED
    BY <1>5, <2>1
<1>7. eq(h)
  <2> HIDE DEF eq
  <2> QED
    BY <1>6
<1>8. GcdOf = h
  BY DEF GcdOf, rest
<1> HIDE DEF h
<1>9. \A p \in D : h[p] = IF IsZero(p[1]) THEN p[2] ELSE h[rest(p)]
  <2> HIDE DEF D
  <2> QED
    BY <1>7
<1> DEFINE Done(p) == h[p] \in Number /\ IsGcd(Value(h[p]), Value(p[1]), Value(p[2]))
           T == {n \in Nat : \A p \in D : Value(p[1]) < n => Done(p)}
<1>10. 0 \in T
  BY <1>1
<1>11. ASSUME NEW n \in Nat, n \in T PROVE n + 1 \in T
  <2>1. ASSUME NEW p \in D, Value(p[1]) < n + 1 PROVE Done(p)
    <3>1. CASE IsZero(p[1])
      <4>1. h[p] = p[2] /\ Value(p[1]) = 0
        BY <1>1, <1>9, <3>1, ZeroIs
      <4>2. IsGcd(Value(p[2]), 0, Value(p[2]))
        BY <1>1, GcdZero
      <4> QED
        BY <1>1, <4>1, <4>2
    <3>2. CASE ~ IsZero(p[1])
      <4> DEFINE r == rest(p)
                 X == Value(p[1])
                 Y == Value(p[2])
      <4>1. r \in D /\ r[2] = p[1] /\ X # 0 /\ Value(r[1]) = Y % X /\ Value(r[1]) < X
        BY <1>2, <3>2
      <4>2. h[p] = h[r]
        BY <1>9, <3>2
      <4>3. X \in Nat /\ Y \in Nat /\ Value(r[1]) \in Nat
        BY <1>1, <4>1
      <4> HIDE DEF D, r
      <4>4. Done(r)
        <5>1. Value(r[1]) < n
          BY <2>1, <4>1, <4>3
        <5> QED
          BY <1>11, <4>1, <5>1
      <4>5. h[r] \in Number /\ IsGcd(Value(h[r]), Y % X, X)
        BY ONLY <4>1, <4>4
      <4> HIDE DEF X, Y
      <4>6. IsGcd(Value(h[r]), X, Y)
        BY <4>1, <4>3, <4>5, GcdStep
      <4> QED
        BY ONLY <4>2, <4>5, <4>6 DEF X, Y
    <3> QED
      BY <3>1, <3>2
  <2> HIDE DEF Done
  <2> QED
    BY <2>1
<1>12. Nat \subseteq T
  <2> HIDE DEF T
  <2> QED
    BY <1>10, <1>11, UpToNat
<1> QED
  <2> DEFINE p == <<a, b>>
  <2>1. p \in D /\ p[1] = a /\ p[2] = b
    OBVIOUS
  <2>2. Value(p[1]) + 1 \in Nat /\ Value(p[1]) < Value(p[1]) + 1
    BY <1>1, <2>1
  <2> HIDE DEF p, D
  <2>3. Done(p)
    BY <1>12, <2>1, <2>2
  <2> QED
    BY ONLY <1>8, <2>1, <2>3 DEF p

\* gcd returns a common divisor that every common divisor divides.
LEMMA GcdIs ==
  ASSUME NEW a \in Number, NEW b \in Number
  PROVE  Gcd(a, b) \in Number /\ IsGcd(Value(Gcd(a, b)), Value(a), Value(b))
BY GcdOfIs DEF Gcd

\* A divisor of a positive number is at most that number.
LEMMA MultipleLe ==
  ASSUME NEW d \in Nat, NEW n \in Nat \ {0}, Multiple(d, n)
  PROVE  d \in 1 .. n /\ Divides(d, n)
<1>1. PICK q \in Nat : n = d * q
  BY DEF Multiple
<1>2. d # 0
  <2>1. 0 * q = 0
    OBVIOUS
  <2> QED
    BY <1>1, <2>1
<1>3. q # 0
  <2>1. d * 0 = 0
    OBVIOUS
  <2> QED
    BY <1>1, <2>1
<1>4. 1 * d <= q * d /\ 1 * q <= d * q
  BY <1>2, <1>3, TimesMono
<1>5. q * d = d * q /\ 1 * d = d /\ 1 * q = q
  OBVIOUS
<1>6. d <= n /\ q <= n
  BY ONLY <1>1, <1>4, <1>5
<1>7. Divides(d, n)
  BY <1>1, <1>6 DEF Divides
<1> QED
  BY <1>2, <1>6, <1>7

\* The common divisor that all others divide is the greatest of them.
LEMMA GcdMax ==
  ASSUME NEW m \in Nat, NEW n \in Nat, NEW g, IsGcd(g, m, n)
  PROVE  g = IF m = 0 \/ n = 0 THEN m + n
             ELSE Max({d \in 1 .. m : Divides(d, m) /\ Divides(d, n)})
<1>0. g \in Nat /\ Multiple(g, m) /\ Multiple(g, n)
  BY DEF IsGcd
<1>1. \A x \in Nat : Multiple(x, x) /\ Multiple(x, 0)
  <2> TAKE x \in Nat
  <2>1. x = x * 1 /\ 0 = x * 0 /\ 1 \in Nat /\ 0 \in Nat
    OBVIOUS
  <2> QED
    BY ONLY <2>1 DEF Multiple
<1>2. CASE m = 0 /\ n = 0
  <2>1. PICK q \in Nat : 0 = g * q
    BY <1>0, <1>2 DEF Multiple
  <2>2. g = 0
    <3>2. ASSUME g # 0 PROVE FALSE
      <4> DEFINE d == g + 1
      <4>1. d \in Nat \ {0} /\ d \in Nat
        BY <1>0
      <4> HIDE DEF d
      <4>2. Multiple(d, m) /\ Multiple(d, n)
        BY <1>1, <1>2, <4>1
      <4>3. Multiple(d, g)
        BY <4>1, <4>2 DEF IsGcd
      <4>4. d \in 1 .. g
        BY <1>0, <3>2, <4>1, <4>3, MultipleLe
      <4> QED
        BY <1>0, <4>4 DEF d
    <3> QED
      BY <3>2
  <2> QED
    BY <1>2, <2>2
<1>3. CASE m = 0 /\ n # 0
  <2>1. Multiple(n, g)
    <3>1. n \in Nat \ {0} /\ Multiple(n, m) /\ Multiple(n, n)
      BY <1>1, <1>3
    <3> QED
      BY <3>1 DEF IsGcd
  <2>2. g # 0
    BY <1>3 DEF IsGcd
  <2>3. n <= g /\ g <= n
    BY <1>0, <1>3, <2>1, <2>2, MultipleLe
  <2> QED
    BY <1>0, <1>3, <2>3
<1>4. CASE m # 0 /\ n = 0
  <2>1. Multiple(m, g)
    <3>1. m \in Nat \ {0} /\ Multiple(m, m) /\ Multiple(m, n)
      BY <1>1, <1>4
    <3> QED
      BY <3>1 DEF IsGcd
  <2>2. g # 0
    BY <1>4 DEF IsGcd
  <2>3. m <= g /\ g <= m
    BY <1>0, <1>4, <2>1, <2>2, MultipleLe
  <2> QED
    BY <1>0, <1>4, <2>3
<1>5. CASE m # 0 /\ n # 0
  <2> DEFINE S == {d \in 1 .. m : Divides(d, m) /\ Divides(d, n)}
  <2>1. g # 0
    BY <1>5 DEF IsGcd
  <2>2. g \in S
    BY <1>0, <1>5, MultipleLe
  <2>3. Max(S) \in S /\ \A d \in S : d <= Max(S)
    <3>1. S \subseteq 0 .. m /\ S # {}
      BY <2>2
    <3> HIDE DEF S
    <3> QED
      BY <3>1, MaxIs
  <2>4. ASSUME NEW d \in S PROVE d <= g
    <3>1. d \in Nat \ {0}
      OBVIOUS
    <3>2. Multiple(d, m) /\ Multiple(d, n)
      BY DEF Divides, Multiple
    <3>3. Multiple(d, g)
      BY <3>1, <3>2 DEF IsGcd
    <3> QED
      BY <1>0, <2>1, <3>1, <3>3, MultipleLe
  <2>5. Max(S) <= g /\ g <= Max(S) /\ Max(S) \in Int
    BY <2>2, <2>3, <2>4
  <2> QED
    BY <1>0, <1>5, <2>5
<1> QED
  BY <1>2, <1>3, <1>4, <1>5

-----------------------------------------------------------------------------
(* Bits.                                                                   *)

\* A number is its low limb and a multiple of the base.
LEMMA LowLimbIs ==
  ASSUME NEW v \in Seq(Word)
  PROVE  \E q \in Nat : Value(v) = Limb(v, 0) + Base * q
<1>0. Base \in Nat /\ Limb(v, 0) \in Nat /\ Len(v) \in Nat
  BY BaseIs, LimbIs
<1>1. CASE Len(v) = 0
  <2>1. Value(v) = 0 /\ Limb(v, 0) = 0
    <3>1. Low(v)[0] = 0
      BY LowIs
    <3>2. Value(v) = 0
      BY ONLY <1>1, <3>1 DEF Value
    <3> QED
      BY <1>1, <3>2 DEF Limb
  <2>2. 0 = 0 + Base * 0
    BY <1>0
  <2> QED
    BY <2>1, <2>2
<1>2. CASE Len(v) # 0
  <2> DEFINE D == Value(Drop(v, 1))
  <2>1. 1 \in 0 .. Len(v)
    BY <1>0, <1>2
  <2>2. Weight[0] = 1 /\ Weight[0 + 1] = Base * Weight[0] /\ Low(v)[0] = 0
        /\ Low(v)[0 + 1] = Low(v)[0] + Limb(v, 0) * Weight[0]
    BY WeightIs, WeightStep, LowIs, LowStep
  <2>3. Weight[1] = Base /\ Low(v)[1] = Limb(v, 0)
    BY <1>0, <2>2
  <2>4. D \in Nat /\ Value(v) = Limb(v, 0) + D * Base
    <3>1. Drop(v, 1) \in Seq(Word) /\ Value(v) = Low(v)[1] + D * Weight[1]
      BY <2>1, DropIs
    <3> QED
      BY <2>3, <3>1, ValueIsNat
  <2> HIDE DEF D
  <2>5. D * Base = Base * D
    BY <1>0, <2>4
  <2> QED
    BY <2>4, <2>5
<1> QED
  BY <1>1, <1>2

\* What is above a word does not show in its bits.
LEMMA BitBelow ==
  ASSUME NEW l \in Nat, NEW q \in Nat, NEW j \in 0 .. WordBits - 1
  PROVE  Bit(l + Base * q, j) = Bit(l, j)
<1> DEFINE d == Pow2[j]
           k == WordBits - (j + 1)
           e == Pow2[k]
           B == Base
<1>1. j \in Nat /\ j + 1 \in Nat /\ k \in Nat /\ j + 1 <= WordBits /\ WordBits \in Nat
  BY BaseIs
<1>2. d \in Nat \ {0} /\ e \in Nat /\ B = (2 * d) * e
  <2>1. Pow2[WordBits] = Pow2[j + 1] * Pow2[WordBits - (j + 1)] /\ Pow2[j + 1] = 2 * Pow2[j]
    BY <1>1, Pow2Split, Pow2Step
  <2>2. Pow2[j] \in Nat \ {0} /\ Pow2[k] \in Nat
    BY <1>1, Pow2Pos
  <2> QED
    BY <2>1, <2>2 DEF Base
<1> HIDE DEF d, e, k, B
<1>3. PICK u \in Int, r \in 0 .. d - 1 : l = d * u + r /\ l \div d = u
  BY <1>2, DivIs
<1>4. PICK h \in Int, b \in 0 .. 1 : u = 2 * h + b /\ u % 2 = b
  <2>1. 2 \in Nat \ {0} /\ u \in Int /\ 2 - 1 = 1
    OBVIOUS
  <2>2. \E h \in Int, b \in 0 .. 2 - 1 : u = 2 * h + b /\ u % 2 = b
    BY ONLY <2>1, DivIs
  <2> QED
    BY ONLY <2>1, <2>2
<1> DEFINE t == e * q
           y == l + B * q
           z == u + 2 * t
<1>5. t \in Nat
  BY <1>2
<1>6. y = d * z + r
  <2>1. B * q = d * (2 * t)
    BY <1>2
  <2> HIDE DEF t
  <2>2. d * (u + 2 * t) = d * u + d * (2 * t)
    BY <1>2, <1>5
  <2> DEFINE m1 == d * u
             m2 == d * (2 * t)
  <2>3. m1 \in Int /\ m2 \in Int
    BY <1>2, <1>5
  <2> HIDE DEF m1, m2
  <2>4. (m1 + r) + m2 = (m1 + m2) + r
    BY <2>3
  <2> QED
    BY ONLY <1>3, <2>1, <2>2, <2>4 DEF m1, m2
<1>7. y \in Int /\ z \in Int
  <2>1. B * q \in Nat
    BY <1>2
  <2> QED
    BY <1>5, <2>1
<1>8. z = 2 * (h + t) + b /\ h + t \in Int
  BY <1>4, <1>5
<1> HIDE DEF y, z, t
<1>9. y \div d = z
  BY <1>2, <1>3, <1>6, <1>7, DivModOf
<1>10. z % 2 = b
  <2>1. 2 \in Nat \ {0} /\ b \in 0 .. 2 - 1 /\ 2 - 1 = 1
    BY <1>4
  <2> QED
    BY <1>7, <1>8, <2>1, DivModOf
<1>11. (y \div d) % 2 = (l \div d) % 2
  BY ONLY <1>3, <1>4, <1>9, <1>10
<1> QED
  BY ONLY <1>11 DEF Bit, y, B, d

\* A bit of a number is a bit of one of its limbs.
LEMMA BitOfLimb ==
  ASSUME NEW a \in Seq(Word), NEW i \in Nat, NEW j \in 0 .. WordBits - 1
  PROVE  Bit(Value(a), WordBits * i + j) = Bit(Limb(a, i), j)
<1> DEFINE A == Value(a)
           W == WordBits
<1>0. A \in Nat /\ Len(a) \in Nat /\ j \in Nat /\ W \in Nat /\ W * i \in Nat /\ W * i + j \in Nat
  BY ValueIsNat, BaseIs
<1>1. CASE Len(a) <= i
  <2>1. Limb(a, i) = 0
    BY <1>0, <1>1 DEF Limb
  <2>2. Bit(0, j) = 0
    <3>1. 0 < Pow2[0] /\ 0 \in Nat /\ 0 <= j
      BY <1>0, Pow2Is
    <3> QED
      BY <1>0, <3>1, ZeroBitsAbove
  <2>3. A < Pow2[W * i]
    BY <1>0, <1>1, ValueBelow, WeightIsPow2
  <2>4. Bit(A, W * i + j) = 0
    <3>1. W * i <= W * i + j
      BY <1>0
    <3> HIDE DEF A, W
    <3> QED
      BY <1>0, <2>3, <3>1, ZeroBitsAbove
  <2> QED
    BY ONLY <2>1, <2>2, <2>4
<1>2. CASE ~ (Len(a) <= i)
  <2> DEFINE d == Drop(a, i)
             D == Value(d)
             P == Pow2[j]
             w == Weight[i]
  <2>1. i \in 0 .. Len(a)
    BY <1>0, <1>2
  <2>2. /\ d \in Seq(Word) /\ D = A \div w
        /\ Limb(d, 0) = Limb(a, i)
    <3>1. i + 0 = i /\ 0 \in Nat
      OBVIOUS
    <3>2. Limb(Drop(a, i), 0) = Limb(a, i + 0)
      BY <2>1, <3>1, DropIs
    <3>3. Drop(a, i) \in Seq(Word) /\ Value(Drop(a, i)) = Value(a) \div Weight[i]
      BY <2>1, DropIs
    <3> QED
      BY ONLY <3>1, <3>2, <3>3
  <2>3. w \in Nat \ {0} /\ P \in Nat \ {0} /\ Pow2[W * i + j] = w * P
    <3>1. w \in Nat \ {0}
      BY WeightIs
    <3>2. P \in Nat \ {0}
      BY <1>0, Pow2Pos
    <3>3. Pow2[W * i + j] = Pow2[W * i] * Pow2[j]
      BY <1>0, Pow2Plus
    <3> QED
      BY ONLY <3>1, <3>2, <3>3, WeightIsPow2, i \in Nat
  <2>4. D \div P = A \div (w * P)
    <3> HIDE DEF A, w, P, D
    <3>1. (A \div w) \div P = A \div (w * P)
      BY <1>0, <2>3, DivDiv
    <3> QED
      BY ONLY <2>2, <3>1
  <2>5. Bit(A, W * i + j) = Bit(D, j)
    <3> HIDE DEF A, D, w
    <3> QED
      BY ONLY <2>3, <2>4 DEF Bit, P
  <2>6. PICK q \in Nat : D = Limb(d, 0) + Base * q
    BY <2>2, LowLimbIs
  <2>7. Limb(a, i) \in Nat
    BY LimbIs
  <2>8. Bit(D, j) = Bit(Limb(a, i), j)
    <3>1. Bit(Limb(a, i) + Base * q, j) = Bit(Limb(a, i), j)
      BY <2>7, BitBelow
    <3> QED
      BY ONLY <2>2, <2>6, <3>1
  <2> QED
    BY ONLY <2>5, <2>8
<1> QED
  BY <1>1, <1>2

\* The sum of the bits below j is below the j-th power of two.
LEMMA SumsBelow ==
  ASSUME NEW T, NEW n \in Nat, NEW x \in Nat, NEW y \in Nat, NEW low,
         SumsBits(low, T, n, x, y)
  PROVE  \A j \in 0 .. n : low[j] \in Nat /\ low[j] < Pow2[j]
<1> DEFINE U == {j \in 0 .. n : low[j] \in Nat /\ low[j] < Pow2[j]}
<1>1. 0 \in U
  BY Pow2Is DEF SumsBits
<1>2. ASSUME NEW j \in 1 .. n, j - 1 \in U PROVE j \in U
  <2> DEFINE i == j - 1
  <2>1. i \in Nat /\ i + 1 = j /\ low[j] = low[i] + PairBit(T, x, y, i)
    BY DEF SumsBits
  <2>2. low[i] \in Nat /\ low[i] < Pow2[i]
    BY <1>2
  <2> HIDE DEF i
  <2>3. Pow2[i] \in Nat /\ Pow2[j] = 2 * Pow2[i]
    BY <2>1, Pow2Pos, Pow2Step
  <2>4. PairBit(T, x, y, i) \in {0, Pow2[i]}
    BY DEF PairBit
  <2> QED
    BY <2>1, <2>2, <2>3, <2>4
<1> HIDE DEF U
<1>3. \A j \in 1 .. n : j - 1 \in U => j \in U
  BY <1>2
<1>4. \A j \in 0 .. n : j \in U
  BY <1>1, <1>3, UpTo
<1> QED
  BY <1>4 DEF U

\* A bitwise operation on words gives a word.
LEMMA WordOp ==
  ASSUME NEW T, NEW x \in Word, NEW y \in Word
  PROVE  BitsBelow(T, WordBits, x, y) \in Word
<1>1. x \in Nat /\ y \in Nat /\ WordBits \in Nat /\ WordBits \in 0 .. WordBits /\ Pow2[WordBits] = Base
  BY WordIs, BaseIs
<1>2. PICK low : SumsBits(low, T, WordBits, x, y)
  BY <1>1, BitsBelowIs
<1>3. low[WordBits] \in Nat /\ low[WordBits] < Base
  BY <1>1, <1>2, SumsBelow
<1> QED
  BY <1>2, <1>3, WordIs DEF SumsBits

\* An operation on the bits, limb by limb.
Limbwise(T, a, b, n) ==
  [i \in 1 .. n |-> BitsBelow(T, WordBits, Limb(a, i - 1), Limb(b, i - 1))]

\* One limb of it.
LEMMA LimbBits ==
  ASSUME NEW T, NEW a \in Seq(Word), NEW b \in Seq(Word), NEW N \in Nat, NEW i \in Nat,
         WordBits * (i + 1) <= N, NEW low, SumsBits(low, T, N, Value(a), Value(b))
  PROVE  low[WordBits * (i + 1)] = low[WordBits * i]
           + BitsBelow(T, WordBits, Limb(a, i), Limb(b, i)) * Weight[i]
<1> DEFINE W == WordBits
           x == Limb(a, i)
           y == Limb(b, i)
           w == Weight[i]
           o == W * i
<1>0. /\ W \in Nat /\ o \in Nat /\ o + W = W * (i + 1) /\ o + W <= N
      /\ x \in Nat /\ y \in Nat /\ w \in Nat
  <2>1. W \in Nat
    BY BaseIs
  <2>2. o \in Nat /\ o + W = W * (i + 1)
    BY <2>1
  <2>3. x \in Nat /\ y \in Nat
    BY LimbIs
  <2>4. w \in Nat
    BY WeightIs
  <2> QED
    BY ONLY <2>1, <2>2, <2>3, <2>4, WordBits * (i + 1) <= N
<1> HIDE DEF x, y, w
<1>1. PICK l : SumsBits(l, T, W, x, y)
  BY <1>0, BitsBelowIs
<1>2. l[0] = 0 /\ l[W] = BitsBelow(T, W, x, y) /\ \A j \in 1 .. W : l[j] = l[j - 1] + PairBit(T, x, y, j - 1)
  BY <1>1 DEF SumsBits
<1>3. \A j \in 0 .. W : l[j] \in Nat
  BY <1>0, <1>1 DEF SumsBits
<1>4. ASSUME NEW j \in 0 .. W - 1
      PROVE  PairBit(T, Value(a), Value(b), o + j) = PairBit(T, x, y, j) * w
  <2>1. Bit(Value(a), o + j) = Bit(x, j) /\ Bit(Value(b), o + j) = Bit(y, j)
    BY BitOfLimb DEF x, y
  <2>2. Pow2[o + j] = Pow2[j] * w
    <3>1. j \in Nat
      BY <1>0
    <3>2. Pow2[o + j] = Pow2[o] * Pow2[j]
      BY <1>0, <3>1, Pow2Plus
    <3>3. Pow2[o] = w
      BY WeightIsPow2 DEF w
    <3>4. Pow2[j] \in Nat
      BY <3>1, Pow2Pos
    <3> DEFINE p == Pow2[j]
    <3>5. w * p = p * w
      <4>1. p \in Nat
        BY <3>4
      <4> HIDE DEF p
      <4> QED
        BY <1>0, <4>1
    <3> QED
      BY ONLY <3>2, <3>3, <3>5
  <2>3. 0 * w = 0
    BY <1>0
  <2> QED
    BY ONLY <2>1, <2>2, <2>3 DEF PairBit
<1> HIDE DEF W, o
<1> DEFINE U == {j \in 0 .. W : low[o + j] = low[o] + l[j] * w}
<1>5. 0 \in U
  <2>1. o + 0 = o /\ 0 * w = 0 /\ 0 \in 0 .. W /\ low[o] \in Nat
    <3>1. o \in 0 .. N
      BY <1>0
    <3> QED
      BY <1>0, <3>1 DEF SumsBits
  <2> DEFINE z == low[o]
  <2>2. z + 0 = z
    BY <2>1
  <2> QED
    BY <1>2, <2>1, <2>2
<1>6. ASSUME NEW j \in 1 .. W, j - 1 \in U PROVE j \in U
  <2> DEFINE k == j - 1
  <2>1. /\ k \in 0 .. W - 1 /\ k \in 0 .. W /\ j \in 0 .. W
        /\ o + j \in 1 .. N /\ (o + j) - 1 = o + k
    BY <1>0
  <2>2. low[o + k] = low[o] + l[k] * w
    BY <1>6
  <2>3. l[j] = l[k] + PairBit(T, x, y, k)
    BY <1>2
  <2> HIDE DEF k
  <2>4. low[o + j] = low[o + k] + PairBit(T, Value(a), Value(b), o + k)
    <3>1. low[o + j] = low[(o + j) - 1] + PairBit(T, Value(a), Value(b), (o + j) - 1)
      BY <2>1 DEF SumsBits
    <3> QED
      BY ONLY <2>1, <3>1
  <2>5. low[o + j] = (low[o] + l[k] * w) + PairBit(T, x, y, k) * w
    BY ONLY <1>4, <2>1, <2>2, <2>4
  <2> DEFINE z == low[o]
             p == PairBit(T, x, y, k)
             m == l[k]
  <2>6. z \in Nat /\ p \in Nat /\ m \in Nat
    <3>1. z \in Nat
      <4>1. o \in 0 .. N
        BY <1>0
      <4> QED
        BY <4>1 DEF SumsBits
    <3>2. p \in Nat
      <4>1. k \in Nat
        BY <2>1
      <4>2. Pow2[k] \in Nat
        BY <4>1, Pow2Pos
      <4> QED
        BY <4>2 DEF PairBit
    <3>3. m \in Nat
      BY <1>3, <2>1
    <3> QED
      BY <3>1, <3>2, <3>3
  <2> HIDE DEF z, p, m
  <2>7. (z + m * w) + p * w = z + (m + p) * w
    <3>1. (m + p) * w = m * w + p * w /\ m * w \in Nat /\ p * w \in Nat
      BY <1>0, <2>6
    <3> DEFINE u == m * w
               v == p * w
    <3> HIDE DEF u, v
    <3>2. (z + u) + v = z + (u + v)
      BY <2>6, <3>1 DEF u, v
    <3> QED
      BY ONLY <3>1, <3>2 DEF u, v
  <2>8. low[o + j] = low[o] + l[j] * w
    BY ONLY <2>3, <2>5, <2>7 DEF z, p, m
  <2> QED
    BY <2>1, <2>8
<1> HIDE DEF U
<1>7. \A j \in 1 .. W : j - 1 \in U => j \in U
  BY <1>6
<1>8. W \in U
  <2>1. \A j \in 0 .. W : j \in U
    BY <1>0, <1>5, <1>7, UpTo
  <2> QED
    BY <1>0, <2>1
<1>9. low[o + W] = low[o] + l[W] * w
  BY <1>8 DEF U
<1> QED
  BY ONLY <1>0, <1>2, <1>9 DEF x, y, w, o, W

\* Limb by limb the operation is done on the numbers, as long as the bits
\* above the limbs it is done on make none.
LEMMA LimbwiseIs ==
  ASSUME NEW T, NEW a \in Seq(Word), NEW b \in Seq(Word), NEW n \in Nat, NEW N \in Nat,
         WordBits * n <= N,
         \A j \in Nat : WordBits * n <= j => <<Bit(Value(a), j), Bit(Value(b), j)>> \notin T
  PROVE  /\ Limbwise(T, a, b, n) \in Seq(Word)
         /\ Value(Limbwise(T, a, b, n)) = BitsBelow(T, N, Value(a), Value(b))
<1> DEFINE W == WordBits
           v == Limbwise(T, a, b, n)
           A == Value(a)
           B == Value(b)
<1>0. W \in Nat /\ A \in Nat /\ B \in Nat
  BY BaseIs, ValueIsNat
<1>1. ASSUME NEW i \in 0 .. n - 1
      PROVE  v[i + 1] = BitsBelow(T, W, Limb(a, i), Limb(b, i)) /\ v[i + 1] \in Word
  <2>1. i \in Nat /\ i + 1 \in 1 .. n /\ (i + 1) - 1 = i
    OBVIOUS
  <2>2. v[i + 1] = BitsBelow(T, W, Limb(a, i), Limb(b, i))
    BY <2>1 DEF Limbwise
  <2>3. Limb(a, i) \in Word /\ Limb(b, i) \in Word
    BY <2>1, LimbIs
  <2> QED
    BY ONLY <2>2, <2>3, WordOp
<1>2. v = [i \in 1 .. n |-> v[i]]
  BY DEF Limbwise
<1> HIDE DEF v, A, B
<1>3. v \in Seq(Word) /\ Len(v) = n /\ \A i \in 0 .. n - 1 : Limb(v, i) = v[i + 1]
  BY <1>1, <1>2, Words
<1>4. PICK low : SumsBits(low, T, N, A, B)
  BY <1>0, BitsBelowIs
<1> DEFINE U == {i \in 0 .. n : low[W * i] = Low(v)[i]}
<1>5. 0 \in U
  <2>1. W * 0 = 0 /\ Low(v)[0] = 0 /\ low[0] = 0
    BY <1>0, <1>3, <1>4, LowIs DEF SumsBits
  <2> QED
    BY <2>1
<1>6. ASSUME NEW i \in 1 .. n, i - 1 \in U PROVE i \in U
  <2> DEFINE k == i - 1
  <2>1. k \in Nat /\ k + 1 = i /\ k \in 0 .. n - 1 /\ i \in Nat
    OBVIOUS
  <2>2. low[W * k] = Low(v)[k]
    BY <1>6
  <2> HIDE DEF k
  <2>3. W * i <= N
    <3>1. i * W <= n * W
      BY <1>0, <2>1, TimesMono
    <3>2. i * W = W * i /\ n * W = W * n /\ W * i \in Nat /\ W * n \in Nat
      BY <1>0, <2>1
    <3> QED
      BY <3>1, <3>2
  <2>4. low[W * i] = low[W * k] + BitsBelow(T, W, Limb(a, k), Limb(b, k)) * Weight[k]
    <3>1. W * (k + 1) <= N
      BY ONLY <2>1, <2>3
    <3>2. low[W * (k + 1)] = low[W * k] + BitsBelow(T, W, Limb(a, k), Limb(b, k)) * Weight[k]
      BY <1>4, <2>1, <3>1, LimbBits DEF A, B
    <3> QED
      BY ONLY <2>1, <3>2
  <2>5. Low(v)[k + 1] = Low(v)[k] + Limb(v, k) * Weight[k]
    BY <1>3, <2>1, LowStep
  <2>6. Limb(v, k) = BitsBelow(T, W, Limb(a, k), Limb(b, k))
    BY <1>1, <1>3, <2>1
  <2>7. low[W * i] = Low(v)[i]
    BY ONLY <2>1, <2>2, <2>4, <2>5, <2>6
  <2> QED
    BY <2>7
<1>7. low[W * n] = Low(v)[n]
  <2> HIDE DEF U
  <2>1. \A i \in 1 .. n : i - 1 \in U => i \in U
    BY <1>6
  <2>2. \A i \in 0 .. n : i \in U
    BY <1>5, <2>1, UpTo
  <2>3. n \in U
    BY <2>2
  <2> QED
    BY <2>3 DEF U
<1> DEFINE o == W * n
           m == N - o
           Z == {j \in 0 .. m : low[o + j] = low[o]}
<1>8. o \in Nat /\ m \in Nat /\ o + m = N
  BY <1>0
<1>9. \A j \in Nat : o <= j => PairBit(T, A, B, j) = 0
  BY DEF PairBit, A, B
<1> HIDE DEF o, m
<1>10. 0 \in Z
  BY <1>8
<1>11. ASSUME NEW j \in 1 .. m, j - 1 \in Z PROVE j \in Z
  <2>1. /\ o + j \in 1 .. N /\ (o + j) - 1 = o + (j - 1) /\ o + (j - 1) \in Nat
        /\ o <= o + (j - 1) /\ j \in 0 .. m /\ o + (j - 1) \in 0 .. N /\ o \in 0 .. N
    BY <1>8
  <2>2. low[o + j] = low[(o + j) - 1] + PairBit(T, A, B, (o + j) - 1)
    BY <1>4, <2>1 DEF SumsBits
  <2>3. PairBit(T, A, B, o + (j - 1)) = 0
    BY <1>9, <2>1
  <2>4. low[o + (j - 1)] = low[o] /\ low[o] \in Nat
    BY <1>4, <1>11, <2>1 DEF SumsBits
  <2>5. low[o + j] = low[o] + 0
    BY ONLY <2>1, <2>2, <2>3, <2>4
  <2>6. low[o + j] = low[o]
    BY <2>4, <2>5
  <2> QED
    BY <2>1, <2>6
<1>12. low[N] = low[o]
  <2> HIDE DEF Z
  <2>1. \A j \in 1 .. m : j - 1 \in Z => j \in Z
    BY <1>11
  <2>2. \A j \in 0 .. m : j \in Z
    BY <1>8, <1>10, <2>1, UpTo
  <2>3. m \in Z
    BY <1>8, <2>2
  <2>4. low[o + m] = low[o]
    BY <2>3 DEF Z
  <2> QED
    BY <1>8, <2>4
<1>13. BitsBelow(T, N, A, B) = low[N]
  BY <1>4 DEF SumsBits
<1>14. Value(v) = Low(v)[n]
  BY <1>3 DEF Value
<1> QED
  BY ONLY <1>3, <1>7, <1>12, <1>13, <1>14 DEF v, A, B, o

\* A bit is 0 or 1.
LEMMA BitIs == ASSUME NEW x \in Nat, NEW j \in Nat PROVE Bit(x, j) \in {0, 1}
BY LowBitsStep

\* Above its limbs a number has no bits.
LEMMA NoBits ==
  ASSUME NEW a \in Seq(Word), NEW n \in Nat, Len(a) <= n, NEW j \in Nat, WordBits * n <= j
  PROVE  Bit(Value(a), j) = 0
<1>1. Value(a) \in Nat /\ WordBits * n \in Nat
  BY ValueIsNat, BaseIs
<1>2. Value(a) < Pow2[WordBits * n]
  BY ValueBelow, WeightIsPow2
<1> QED
  BY <1>1, <1>2, ZeroBitsAbove

\* Of numbers of at most MaxLimbs limbs.
LEMMA BitwiseIs ==
  ASSUME NEW a \in Number, NEW b \in Number, NEW M \in Nat, Len(a) <= M, Len(b) <= M
  PROVE  /\ Land(a, b) \in Number
         /\ Value(Land(a, b)) = BitsBelow(AndBits, M * WordBits, Value(a), Value(b))
         /\ Lor(a, b) \in Number
         /\ Value(Lor(a, b)) = BitsBelow(OrBits, M * WordBits, Value(a), Value(b))
         /\ NatXor(a, b) \in Number
         /\ Value(NatXor(a, b)) = BitsBelow(XorBits, M * WordBits, Value(a), Value(b))
<1> DEFINE N == M * WordBits
           few == Min({Len(a), Len(b)})
           many == Longer(a, b)
<1>0. a \in Seq(Word) /\ b \in Seq(Word) /\ Len(a) \in Nat /\ Len(b) \in Nat /\ N \in Nat
  BY BaseIs DEF Number
<1>1. few \in Nat /\ (few = Len(a) \/ few = Len(b)) /\ few <= M
  BY <1>0, MinOfTwo
<1>2. many \in Nat /\ Len(a) <= many /\ Len(b) <= many /\ many <= M
  BY <1>0, MaxOfTwo DEF Longer
<1>3. ASSUME NEW n \in Nat, n <= M PROVE WordBits * n <= N
  <2>1. n * WordBits <= M * WordBits
    BY <1>3, BaseIs, TimesMono
  <2>2. n * WordBits = WordBits * n
    BY BaseIs
  <2> QED
    BY ONLY <2>1, <2>2
<1> HIDE DEF few, many, N
<1>4. \A T, n : n \in Nat /\ n <= M
        /\ (\A j \in Nat : WordBits * n <= j => <<Bit(Value(a), j), Bit(Value(b), j)>> \notin T)
        => /\ Norm(Limbwise(T, a, b, n)) \in Number
           /\ Value(Norm(Limbwise(T, a, b, n))) = BitsBelow(T, N, Value(a), Value(b))
  <2> SUFFICES ASSUME NEW T, NEW n \in Nat, n <= M,
                      \A j \in Nat : WordBits * n <= j =>
                        <<Bit(Value(a), j), Bit(Value(b), j)>> \notin T
               PROVE  /\ Norm(Limbwise(T, a, b, n)) \in Number
                      /\ Value(Norm(Limbwise(T, a, b, n))) = BitsBelow(T, N, Value(a), Value(b))
    OBVIOUS
  <2>1. WordBits * n <= N
    BY <1>3
  <2>2. /\ Limbwise(T, a, b, n) \in Seq(Word)
        /\ Value(Limbwise(T, a, b, n)) = BitsBelow(T, N, Value(a), Value(b))
    BY <1>0, <2>1, LimbwiseIs
  <2> QED
    BY <2>2, NormIs
<1>5. ASSUME NEW j \in Nat, WordBits * few <= j
      PROVE  <<Bit(Value(a), j), Bit(Value(b), j)>> \notin AndBits
  <2>1. CASE few = Len(a)
    <3>1. Bit(Value(a), j) = 0
      <4>1. Len(a) <= few
        BY <1>0, <2>1
      <4> QED
        BY <1>0, <1>1, <1>5, <4>1, NoBits
    <3> QED
      BY <3>1 DEF AndBits
  <2>2. CASE few = Len(b)
    <3>1. Bit(Value(b), j) = 0
      <4>1. Len(b) <= few
        BY <1>0, <2>2
      <4> QED
        BY <1>0, <1>1, <1>5, <4>1, NoBits
    <3> QED
      BY <3>1 DEF AndBits
  <2> QED
    BY <1>1, <2>1, <2>2
<1>6. ASSUME NEW j \in Nat, WordBits * many <= j
      PROVE  Bit(Value(a), j) = 0 /\ Bit(Value(b), j) = 0
  BY <1>0, <1>2, <1>6, NoBits
<1>7. \A j \in Nat : WordBits * many <= j =>
        /\ <<Bit(Value(a), j), Bit(Value(b), j)>> \notin OrBits
        /\ <<Bit(Value(a), j), Bit(Value(b), j)>> \notin XorBits
  BY <1>6 DEF OrBits, XorBits
<1>8. /\ Land(a, b) = Norm(Limbwise(AndBits, a, b, few))
      /\ Lor(a, b) = Norm(Limbwise(OrBits, a, b, many))
      /\ NatXor(a, b) = Norm(Limbwise(XorBits, a, b, many))
  BY DEF Land, Lor, NatXor, AndFrom, OrFrom, XorFrom, Limbwise, &, |, ^^, few, many
<1>9. /\ Norm(Limbwise(AndBits, a, b, few)) \in Number
      /\ Value(Norm(Limbwise(AndBits, a, b, few))) = BitsBelow(AndBits, N, Value(a), Value(b))
  BY <1>1, <1>4, <1>5
<1>10. /\ Norm(Limbwise(OrBits, a, b, many)) \in Number
       /\ Value(Norm(Limbwise(OrBits, a, b, many))) = BitsBelow(OrBits, N, Value(a), Value(b))
  BY <1>2, <1>4, <1>7
<1>11. /\ Norm(Limbwise(XorBits, a, b, many)) \in Number
       /\ Value(Norm(Limbwise(XorBits, a, b, many))) = BitsBelow(XorBits, N, Value(a), Value(b))
  BY <1>2, <1>4, <1>7
<1> QED
  BY ONLY <1>8, <1>9, <1>10, <1>11 DEF N

-----------------------------------------------------------------------------
(* The registers, and the theorem.                                         *)

Kept(v) == v \in Number /\ Len(v) <= MaxLimbs

Registers == Kept(num) /\ Kept(arg)

\* A step that keeps a number keeps the registers normal and short.
LEMMA KeptStep ==
  ASSUME NEW r \in Number, Keep(r), Registers
  PROVE  Registers'
BY DEF Keep, Registers, Kept, Normal, Number

\* The initial registers are numbers of at most one limb.
LEMMA KeptInit == ASSUME Init PROVE Registers
<1>1. Zero \in Number /\ Len(Zero) = 0
  <2>1. Zero \in Number
    BY FromU64Is, BaseIs DEF FromU64
  <2> QED
    BY <2>1 DEF Zero
<1>2. One \in Number /\ Len(One) <= 1
  BY FromU64Is, BaseIs DEF One, FromU64, Zero
<1>3. FromU64(MaxWord) \in Number /\ Len(FromU64(MaxWord)) <= 1
  <2>1. MaxWord \in Word
    BY BaseIs DEF Word
  <2> QED
    BY <2>1, FromU64Is DEF FromU64, Zero
<1>4. MaxLimbs \in Nat /\ 1 <= MaxLimbs
  BY MaxLimbsAssumption, BaseIs
<1> QED
  BY <1>1, <1>2, <1>3, <1>4 DEF Init, Registers, Kept

\* What the operations return for two kept numbers is a number.
LEMMA Results ==
  ASSUME NEW a, NEW b, Kept(a), Kept(b)
  PROVE  /\ Add(a, b) \in Number /\ Sub(a, b) \in Number /\ Pred(a) \in Number
         /\ Mul(a, b) \in Number /\ \A e \in 0 .. MaxWord : Pow(a, e) \in Number
         /\ Div(a, b) \in Number /\ Modulo(a, b) \in Number /\ Gcd(a, b) \in Number
         /\ \A k \in 0 .. MaxWord : ShiftLeft(a, k) \in Number /\ ShiftRight(a, k) \in Number
         /\ ShiftLeftNat(a, b) \in Number /\ ShiftRightNat(a, b) \in Number
         /\ Land(a, b) \in Number /\ Lor(a, b) \in Number /\ NatXor(a, b) \in Number
<1>1. /\ a \in Number /\ b \in Number /\ a \in Seq(Word) /\ b \in Seq(Word)
      /\ Len(a) \in Nat /\ Len(a) <= MaxLimbs /\ Len(b) <= MaxLimbs
  BY DEF Kept, Number
<1>2. MaxLimbs \in Nat /\ MaxLimbs <= Base /\ Base \in Nat
  BY MaxLimbsAssumption, BaseIs
<1>3. Len(a) <= Base
  BY <1>1, <1>2
<1>4. Add(a, b) \in Number /\ Mul(a, b) \in Number
  BY <1>1, AddIs, MulIs
<1>5. Sub(a, b) \in Number /\ Pred(a) \in Number
  BY <1>1, SubIs, PredIs
<1>6. \A e \in 0 .. MaxWord : Pow(a, e) \in Number
  <2>1. \A e \in 0 .. MaxWord : e \in Nat
    OBVIOUS
  <2> QED
    BY <1>1, <2>1, PowIs
<1>7. Div(a, b) \in Number /\ Modulo(a, b) \in Number /\ Gcd(a, b) \in Number
  BY <1>1, DivModIs, GcdIs
<1>8. \A k \in 0 .. MaxWord : ShiftLeft(a, k) \in Number /\ ShiftRight(a, k) \in Number
  <2>1. \A k \in 0 .. MaxWord : k \in Nat
    OBVIOUS
  <2> QED
    BY <1>1, <2>1, ShiftLeftIs, ShiftRightIs
<1>9. ShiftLeftNat(a, b) \in Number /\ ShiftRightNat(a, b) \in Number
  BY <1>1, <1>3, ShiftLeftNatIs, ShiftRightNatIs
<1>10. Land(a, b) \in Number /\ Lor(a, b) \in Number /\ NatXor(a, b) \in Number
  BY <1>1, <1>2, BitwiseIs
<1> QED
  BY <1>4, <1>5, <1>6, <1>7, <1>8, <1>9, <1>10

\* Whatever operations are done, the registers hold numbers in normal form.
THEOREM RegistersHoldNumbers == Spec => []Registers
<1>1. Init => Registers
  BY KeptInit
<1>2. Registers /\ [Next]_vars => Registers'
  <2> SUFFICES ASSUME Registers, [Next]_vars PROVE Registers'
    OBVIOUS
  <2>0. Kept(num) /\ Kept(arg)
    BY DEF Registers
  <2>1. CASE DoAdd
    BY <2>0, <2>1, Results, KeptStep DEF DoAdd
  <2>2. CASE DoSub
    BY <2>0, <2>2, Results, KeptStep DEF DoSub
  <2>3. CASE DoPred
    BY <2>0, <2>3, Results, KeptStep DEF DoPred
  <2>4. CASE DoMul
    BY <2>0, <2>4, Results, KeptStep DEF DoMul
  <2>5. CASE DoPow
    BY <2>0, <2>5, Results, KeptStep DEF DoPow
  <2>6. CASE DoDiv
    BY <2>0, <2>6, Results, KeptStep DEF DoDiv
  <2>7. CASE DoModulo
    BY <2>0, <2>7, Results, KeptStep DEF DoModulo
  <2>8. CASE DoGcd
    BY <2>0, <2>8, Results, KeptStep DEF DoGcd
  <2>9. CASE DoShiftLeft
    BY <2>0, <2>9, Results, KeptStep DEF DoShiftLeft
  <2>10. CASE DoShiftRight
    BY <2>0, <2>10, Results, KeptStep DEF DoShiftRight
  <2>11. CASE DoShiftLeftNat
    BY <2>0, <2>11, Results, KeptStep DEF DoShiftLeftNat
  <2>12. CASE DoShiftRightNat
    BY <2>0, <2>12, Results, KeptStep DEF DoShiftRightNat
  <2>13. CASE DoLand
    BY <2>0, <2>13, Results, KeptStep DEF DoLand
  <2>14. CASE DoLor
    BY <2>0, <2>14, Results, KeptStep DEF DoLor
  <2>15. CASE DoXor
    BY <2>0, <2>15, Results, KeptStep DEF DoXor
  <2>16. CASE Swap
    BY <2>0, <2>16 DEF Swap, Registers, Kept, Number, Normal
  <2>17. CASE UNCHANGED vars
    BY <2>0, <2>17 DEF vars, Registers, Kept, Number, Normal
  <2> QED
    BY <2>1, <2>2, <2>3, <2>4, <2>5, <2>6, <2>7, <2>8, <2>9, <2>10, <2>11, <2>12,
       <2>13, <2>14, <2>15, <2>16, <2>17 DEF Next
<1> QED
  BY <1>1, <1>2, PTL DEF Spec

\* The truncation at zero that the reference writes as a maximum.
LEMMA MaxWithZero ==
  ASSUME NEW z \in Int
  PROVE  Max({0, z}) = IF 0 < z THEN z ELSE 0
<1>1. CASE z \in Nat
  BY <1>1, MaxOfTwo
<1>2. CASE z \notin Nat
  <2>1. z < 0
    BY <1>2
  <2> DEFINE top(x) == x \in {0, z} /\ \A y \in {0, z} : x >= y
  <2>2. \A x : top(x) <=> x = 0
    BY <2>1
  <2>3. Max({0, z}) = CHOOSE x \in {0, z} : \A y \in {0, z} : x >= y
    BY DEF Max
  <2> QED
    BY <2>1, <2>2, <2>3
<1> QED
  BY <1>1, <1>2

\* The references of OpsExact for two kept numbers, and the operations.
LEMMA OrderExact ==
  ASSUME NEW a \in Number, NEW b \in Number
  PROVE  /\ Cmp(a, b) = Order(Value(a), Value(b))
         /\ Beq(a, b) <=> (a = b)
         /\ Ble(a, b) <=> Value(a) <= Value(b)
         /\ Blt(a, b) <=> Value(a) < Value(b)
         /\ Hash64(a) # Hash64(b) => Value(a) # Value(b)
<1>1. Value(a) \in Nat /\ Value(b) \in Nat
  BY ValueIsNat DEF Number
<1>2. Cmp(a, b) = Order(Value(a), Value(b)) /\ (Value(a) = Value(b) => a = b)
  BY CmpIs
<1>3. Hash64(a) # Hash64(b) => Value(a) # Value(b)
  BY <1>2
<1>4. Beq(a, b) <=> (a = b)
  BY <1>1, <1>2 DEF Beq, Order
<1>5. (Ble(a, b) <=> Value(a) <= Value(b)) /\ (Blt(a, b) <=> Value(a) < Value(b))
  BY <1>1, <1>2 DEF Ble, Blt, Order
<1> QED
  BY <1>2, <1>3, <1>4, <1>5

\* Sums, differences, products and powers of two kept numbers are exact.
LEMMA SumsExact ==
  ASSUME NEW a \in Number, NEW b \in Number
  PROVE  /\ IsU64(a) <=> Value(a) <= MaxWord
         /\ IsNumber(Add(a, b), Value(a) + Value(b))
         /\ IsNumber(Sub(a, b), Max({0, Value(a) - Value(b)}))
         /\ IsNumber(Pred(a), Max({0, Value(a) - 1}))
         /\ IsNumber(Mul(a, b), Value(a) * Value(b))
         /\ \A e \in 0 .. MaxWord : IsNumber(Pow(a, e), Raised(Value(a))[e])
<1>1. a \in Seq(Word) /\ b \in Seq(Word) /\ Value(a) \in Nat /\ Value(b) \in Nat
  BY ValueIsNat DEF Number
<1>2. \A v \in Number : Normal(v)
  BY DEF Number
<1>3. IsU64(a) <=> Value(a) <= MaxWord
  BY IsU64Is
<1>4. IsNumber(Add(a, b), Value(a) + Value(b))
  BY <1>1, <1>2, AddIs DEF IsNumber
<1>5. IsNumber(Sub(a, b), Max({0, Value(a) - Value(b)}))
  <2>1. Max({0, Value(a) - Value(b)}) = IF Value(b) < Value(a) THEN Value(a) - Value(b) ELSE 0
    BY <1>1, MaxWithZero
  <2> QED
    BY <1>2, <2>1, SubIs DEF IsNumber
<1>6. IsNumber(Pred(a), Max({0, Value(a) - 1}))
  <2>1. Max({0, Value(a) - 1}) = IF 0 < Value(a) THEN Value(a) - 1 ELSE 0
    BY <1>1, MaxWithZero
  <2> QED
    BY <1>2, <2>1, PredIs DEF IsNumber
<1>7. IsNumber(Mul(a, b), Value(a) * Value(b))
  BY <1>1, <1>2, MulIs DEF IsNumber
<1>8. ASSUME NEW e \in 0 .. MaxWord PROVE IsNumber(Pow(a, e), Raised(Value(a))[e])
  BY <1>2, PowIs DEF IsNumber
<1> QED
  BY <1>3, <1>4, <1>5, <1>6, <1>7, <1>8

\* Quotient, remainder and greatest common divisor are exact.
LEMMA QuotientsExact ==
  ASSUME NEW a \in Number, NEW b \in Number, NEW m, m = Value(a), NEW n, n = Value(b)
  PROVE  /\ IsNumber(Div(a, b), IF n = 0 THEN 0 ELSE m \div n)
         /\ IsNumber(Modulo(a, b), IF n = 0 THEN m ELSE m % n)
         /\ IsNumber(Gcd(a, b), IF m = 0 \/ n = 0 THEN m + n
                        ELSE Max({d \in 1..m : Divides(d, m) /\ Divides(d, n)}))
<1>1. m \in Nat /\ n \in Nat
  BY ValueIsNat DEF Number
<1>2. \A v \in Number : Normal(v)
  BY DEF Number
<1>3. /\ IsNumber(Div(a, b), IF n = 0 THEN 0 ELSE m \div n)
      /\ IsNumber(Modulo(a, b), IF n = 0 THEN m ELSE m % n)
  BY <1>2, DivModIs DEF IsNumber
<1>4. Gcd(a, b) \in Number /\ IsGcd(Value(Gcd(a, b)), m, n)
  BY GcdIs
<1>5. Value(Gcd(a, b)) = IF m = 0 \/ n = 0 THEN m + n
        ELSE Max({d \in 1..m : Divides(d, m) /\ Divides(d, n)})
  BY <1>1, <1>4, GcdMax
<1> QED
  BY <1>2, <1>3, <1>4, <1>5 DEF IsNumber

\* Shifts are exact, by words and by numbers.
LEMMA ShiftsExact ==
  ASSUME NEW a, NEW b, Kept(a), Kept(b), NEW m, m = Value(a), NEW n, n = Value(b)
  PROVE  /\ \A k \in 0..MaxWord : IsNumber(ShiftLeft(a, k), m * Pow2[k])
         /\ \A k \in 0..MaxWord : IsNumber(ShiftRight(a, k), m \div Pow2[k])
         /\ IsNumber(ShiftLeftNat(a, b), m * Pow2[n])
         /\ IsNumber(ShiftRightNat(a, b), IF n > NumBits THEN 0 ELSE m \div Pow2[n])
<1>1. /\ a \in Number /\ b \in Number /\ a \in Seq(Word) /\ b \in Seq(Word)
      /\ Len(a) \in Nat /\ Len(a) <= MaxLimbs /\ m \in Nat /\ n \in Nat
  BY ValueIsNat DEF Kept, Number
<1>2. \A v \in Number : Normal(v)
  BY DEF Number
<1>3. MaxLimbs \in Nat /\ MaxLimbs <= Base /\ Base \in Nat /\ WordBits \in Nat
  BY MaxLimbsAssumption, BaseIs
<1>4. ASSUME NEW k \in 0 .. MaxWord
      PROVE  IsNumber(ShiftLeft(a, k), m * Pow2[k]) /\ IsNumber(ShiftRight(a, k), m \div Pow2[k])
  BY <1>1, <1>2, ShiftLeftIs, ShiftRightIs DEF IsNumber
<1>5. IsNumber(ShiftLeftNat(a, b), m * Pow2[n])
  BY <1>1, <1>2, ShiftLeftNatIs DEF IsNumber
<1>6. ShiftRightNat(a, b) \in Number /\ Value(ShiftRightNat(a, b)) = m \div Pow2[n]
  <2>1. Len(a) <= Base
    BY <1>1, <1>3
  <2> QED
    BY <1>1, <2>1, ShiftRightNatIs
<1>7. n > NumBits => m \div Pow2[n] = 0
  <2>1. NumBits \in Nat /\ NumBits = WordBits * MaxLimbs
    BY <1>3 DEF NumBits
  <2>2. m < Pow2[NumBits]
    BY <1>1, <1>3, <2>1, ValueBelow, WeightIsPow2
  <2> SUFFICES ASSUME n > NumBits PROVE m \div Pow2[n] = 0
    OBVIOUS
  <2>3. Pow2[NumBits] <= Pow2[n]
    BY <1>1, <2>1, Pow2Split
  <2>4. Pow2[n] \in Nat \ {0} /\ Pow2[NumBits] \in Nat
    BY <1>1, <2>1, Pow2Pos
  <2>5. m < Pow2[n]
    BY <1>1, <2>2, <2>3, <2>4
  <2> QED
    BY <1>1, <2>4, <2>5, SmallMod
<1>8. IsNumber(ShiftRightNat(a, b), IF n > NumBits THEN 0 ELSE m \div Pow2[n])
  BY <1>2, <1>6, <1>7 DEF IsNumber
<1> QED
  BY <1>4, <1>5, <1>8

\* The bitwise operations are exact.
LEMMA BitsExact ==
  ASSUME NEW a, NEW b, Kept(a), Kept(b), NEW m, m = Value(a), NEW n, n = Value(b)
  PROVE  /\ IsNumber(Land(a, b), BitsBelow(AndBits, NumBits, m, n))
         /\ IsNumber(Lor(a, b), BitsBelow(OrBits, NumBits, m, n))
         /\ IsNumber(NatXor(a, b), BitsBelow(XorBits, NumBits, m, n))
<1>1. a \in Number /\ b \in Number /\ Len(a) <= MaxLimbs /\ Len(b) <= MaxLimbs
  BY DEF Kept
<1>2. \A v \in Number : Normal(v)
  BY DEF Number
<1>3. MaxLimbs \in Nat
  BY MaxLimbsAssumption, BaseIs
<1> QED
  BY <1>1, <1>2, <1>3, BitwiseIs DEF IsNumber, NumBits

\* Whatever operations made the two numbers, every operation of nat.rs on them
\* returns, in normal form, the number arithmetic says, at every word size.
THEOREM ArithmeticIsExact == Spec => []ArithmeticExact
<1>1. ASSUME Registers PROVE ArithmeticExact
  <2>1. Kept(num) /\ Kept(arg) /\ num \in Number /\ arg \in Number
    BY <1>1 DEF Registers, Kept
  <2>2. Normal(num) /\ Normal(arg)
    BY <2>1 DEF Number
  <2>3. OpsExact(Value(num), Value(arg))
    <3> DEFINE m == Value(num)
               n == Value(arg)
    <3>1. /\ Cmp(num, arg) = Order(m, n)
          /\ Beq(num, arg) <=> (num = arg)
          /\ Ble(num, arg) <=> m <= n
          /\ Blt(num, arg) <=> m < n
          /\ Hash64(num) # Hash64(arg) => m # n
      BY <2>1, OrderExact
    <3>2. /\ IsU64(num) <=> m <= MaxWord
          /\ IsNumber(Add(num, arg), m + n)
          /\ IsNumber(Sub(num, arg), Max({0, m - n}))
          /\ IsNumber(Pred(num), Max({0, m - 1}))
          /\ IsNumber(Mul(num, arg), m * n)
          /\ \A e \in 0..MaxWord : IsNumber(Pow(num, e), Raised(m)[e])
      BY <2>1, SumsExact
    <3>3. /\ IsNumber(Div(num, arg), IF n = 0 THEN 0 ELSE m \div n)
          /\ IsNumber(Modulo(num, arg), IF n = 0 THEN m ELSE m % n)
          /\ IsNumber(Gcd(num, arg), IF m = 0 \/ n = 0 THEN m + n
                         ELSE Max({d \in 1..m : Divides(d, m) /\ Divides(d, n)}))
      BY <2>1, QuotientsExact
    <3>4. /\ \A k \in 0..MaxWord : IsNumber(ShiftLeft(num, k), m * Pow2[k])
          /\ \A k \in 0..MaxWord : IsNumber(ShiftRight(num, k), m \div Pow2[k])
          /\ IsNumber(ShiftLeftNat(num, arg), m * Pow2[n])
          /\ IsNumber(ShiftRightNat(num, arg), IF n > NumBits THEN 0 ELSE m \div Pow2[n])
      BY <2>1, ShiftsExact
    <3>5. /\ IsNumber(Land(num, arg), BitsBelow(AndBits, NumBits, m, n))
          /\ IsNumber(Lor(num, arg), BitsBelow(OrBits, NumBits, m, n))
          /\ IsNumber(NatXor(num, arg), BitsBelow(XorBits, NumBits, m, n))
      BY <2>1, BitsExact
    <3> HIDE DEF m, n
    <3>6. OpsExact(m, n)
      BY ONLY <3>1, <3>2, <3>3, <3>4, <3>5 DEF OpsExact
    <3> QED
      BY <3>6 DEF m, n
  <2> QED
    BY <2>2, <2>3 DEF ArithmeticExact
<1> QED
  BY <1>1, RegistersHoldNumbers, PTL
============================================================================
