------------------------------- MODULE Limbs -------------------------------
(***************************************************************************)
(* Natural numbers as sequences of machine words (con-ron-core/src/ron/    *)
(* nat.rs): least significant limb first, no zero limb on top, zero is the *)
(* empty sequence.  The word size is a parameter, so that all-ones limbs,  *)
(* carries out of the top limb and amounts that do not fit one word happen *)
(* with small numbers.  The loops of the code that thread a carry are      *)
(* functions of the limb index here.                                       *)
(***************************************************************************)
EXTENDS Integers, SequencesExt

CONSTANT LogBits    \* a word has 2^LogBits bits; the code's words have 2^6

ASSUME LogBitsAssumption == LogBits \in Nat \ {0}

Pow2[n \in Nat] == IF n = 0 THEN 1 ELSE 2 * Pow2[n - 1]

WordBits == Pow2[LogBits]
Base == Pow2[WordBits]
MaxWord == Base - 1
Word == 0 .. MaxWord

\* What a loop of n rounds threads: q at first, then what the i-th step makes
\* of the one before.
Threaded(n, q, step) ==
  LET f[i \in 0..n] == IF i = 0 THEN q ELSE step[i][f[i - 1]]
  IN  f

-----------------------------------------------------------------------------
(* The instructions of a word.  A bitwise operation is the set of the      *)
(* pairs of bits it makes a one of.                                        *)
Bit(x, j) == (x \div Pow2[j]) % 2

BitsBelow(T, n, x, y) ==
  Threaded(n, 0, [j \in 1..n |-> [low \in Nat |->
    low + (IF <<Bit(x, j - 1), Bit(y, j - 1)>> \in T THEN Pow2[j - 1] ELSE 0)]])[n]

AndBits == {<<1, 1>>}
OrBits == {<<0, 1>>, <<1, 0>>, <<1, 1>>}
XorBits == {<<0, 1>>, <<1, 0>>}

x & y == BitsBelow(AndBits, WordBits, x, y)
x | y == BitsBelow(OrBits, WordBits, x, y)
x ^^ y == BitsBelow(XorBits, WordBits, x, y)

Wrap(x) == x % Base
Overflows(x) == x \notin Word
ShlWord(x, k) == Wrap(x * Pow2[k])
ShrWord(x, k) == x \div Pow2[k]

-----------------------------------------------------------------------------
Zero == <<>>
FromU64(x) == IF x = 0 THEN Zero ELSE <<x>>
One == FromU64(1)

Normal(v) == Len(v) = 0 \/ v[Len(v)] # 0
Number == {v \in Seq(Word) : Normal(v)}

IsZero(a) == Len(a) = 0

\* `to_u64(a)` is Some(LowLimb(a)) when this holds, else None.
IsU64(a) == Len(a) <= 1

Limb(v, i) == IF i < Len(v) THEN v[i + 1] ELSE 0
LowLimb(a) == Limb(a, 0)

SigLen(v) == Max({0} \cup {k \in DOMAIN v : v[k] # 0})
CopyFrom(v, i, end, out) == out \o [k \in 1..(Min({end, Len(v)}) - i) |-> v[i + k]]
Norm(v) == CopyFrom(v, 0, SigLen(v), <<>>)

\* What remains of a carry when the limbs are used up.
LastCarry(c) == IF c = 0 THEN <<>> ELSE <<c>>

Longer(a, b) == Max({Len(a), Len(b)})

-----------------------------------------------------------------------------
(* Order.                                                                  *)

Order(x, y) == IF x < y THEN "lt" ELSE IF x > y THEN "gt" ELSE "eq"

CmpFrom(a, b) ==
  LET differ == {k \in DOMAIN a : a[k] # b[k]}
  IN  IF differ = {} THEN "eq" ELSE Order(a[Max(differ)], b[Max(differ)])

Cmp(a, b) ==
  IF Len(a) # Len(b) THEN Order(Len(a), Len(b)) ELSE CmpFrom(a, b)

Beq(a, b) == Cmp(a, b) = "eq"
Ble(a, b) == Cmp(a, b) \in {"lt", "eq"}
Blt(a, b) == Cmp(a, b) = "lt"

-----------------------------------------------------------------------------
(* Addition and truncated subtraction: two wrapping word operations per    *)
(* limb, either of which may carry (borrow).                               *)

\* An error in addition: the carry the carry itself makes is dropped.
CarryOutOnce(x, y, c) == IF Overflows(x + y) THEN 1 ELSE 0

CarryOut(x, y, c) == IF Overflows(x + y) \/ Overflows(Wrap(x + y) + c) THEN 1 ELSE 0

AddFrom(a, b, n) ==
  LET carry == Threaded(n, 0, [i \in 1..n |-> [c \in {0, 1} |->
                 CarryOut(Limb(a, i - 1), Limb(b, i - 1), c)]])
  IN  [i \in 1..n |-> Wrap(Wrap(Limb(a, i - 1) + Limb(b, i - 1)) + carry[i - 1])]
        \o LastCarry(carry[n])

Add(a, b) == Norm(AddFrom(a, b, Longer(a, b)))

BorrowOut(x, y, c) == IF Overflows(x - y) \/ Overflows(Wrap(x - y) - c) THEN 1 ELSE 0

SubFrom(a, b, n) ==
  LET borrow == Threaded(n, 0, [i \in 1..n |-> [c \in {0, 1} |->
                 BorrowOut(Limb(a, i - 1), Limb(b, i - 1), c)]])
  IN  [i \in 1..n |-> Wrap(Wrap(Limb(a, i - 1) - Limb(b, i - 1)) - borrow[i - 1])]

Sub(a, b) == IF Cmp(a, b) = "gt" THEN Norm(SubFrom(a, b, Len(a))) ELSE Zero
Pred(a) == Sub(a, One)

-----------------------------------------------------------------------------
(* Shifts.  The amount is a word, or a number of any size.                 *)

PushZeros(out, count) == out \o [i \in 1..count |-> 0]

\* A count of several limbs is worked off in chunks of the largest word.
ZerosNat[count \in Number] ==
  IF IsU64(count) THEN PushZeros(<<>>, LowLimb(count))
  ELSE PushZeros(ZerosNat[Sub(count, FromU64(MaxWord))], MaxWord)

ShlBitsFrom(v, bits, out) ==
  LET high(i) == IF i = 0 THEN 0 ELSE ShrWord(v[i], WordBits - bits)
  IN  out \o [i \in 1..Len(v) |-> ShlWord(v[i], bits) | high(i - 1)]
          \o LastCarry(high(Len(v)))

ShlOnto(a, bits, out) ==
  Norm(IF bits = 0 THEN CopyFrom(a, 0, Len(a), out) ELSE ShlBitsFrom(a, bits, out))

ShiftLeft(a, k) ==
  IF IsZero(a) THEN Zero
  ELSE ShlOnto(a, k % WordBits, PushZeros(<<>>, k \div WordBits))

SkipIndex(v, remaining) == Min({Len(v), remaining})

ShrBitsFrom(v, s, bits) ==
  [i \in 1..(Len(v) - s) |->
     ShrWord(v[s + i], bits) | ShlWord(Limb(v, s + i), WordBits - bits)]

ShrFrom(a, s, bits) ==
  Norm(IF bits = 0 THEN CopyFrom(a, s, Len(a), <<>>) ELSE ShrBitsFrom(a, s, bits))

ShiftRight(a, k) == ShrFrom(a, SkipIndex(a, k \div WordBits), k % WordBits)

ShiftLeftNat(a, k) ==
  IF IsZero(a) THEN Zero
  ELSE ShlOnto(a, LowLimb(k) % WordBits, ZerosNat[ShiftRight(k, LogBits)])

ShiftRightNat(a, k) ==
  LET words == ShiftRight(k, LogBits)
  IN  IF IsU64(words)
      THEN ShrFrom(a, SkipIndex(a, LowLimb(words)), LowLimb(k) % WordBits)
      ELSE Zero

\* `2 * a + bit`.
Shl1From(v, bit) ==
  LET carry(i) == IF i = 0 THEN bit ELSE ShrWord(v[i], WordBits - 1)
  IN  [i \in 1..Len(v) |-> ShlWord(v[i], 1) | carry(i - 1)] \o LastCarry(carry(Len(v)))

Shl1Or(a, bit) == Norm(Shl1From(a, bit))

-----------------------------------------------------------------------------
(* Multiplication by rows, and powers by squaring.                         *)

MulU64From(v, m) ==
  LET high == Threaded(Len(v), 0, [i \in 1..Len(v) |-> [c \in Word |->
                (v[i] * m + c) \div Base]])
  IN  [i \in 1..Len(v) |-> Wrap(v[i] * m + high[i - 1])] \o LastCarry(high[Len(v)])

MulU64(a, m) == Norm(MulU64From(a, m))

MulFrom(a, b) ==
  Threaded(Len(b), Zero, [i \in 1..Len(b) |-> [acc \in Seq(Word) |->
    Add(acc, ShiftLeft(MulU64(a, b[i]), WordBits * (i - 1)))]])[Len(b)]

Mul(a, b) == MulFrom(a, b)

Pow(a, e) ==
  LET power[k \in 0..e] ==
        IF k = 0 THEN One
        ELSE LET h == power[k \div 2]
                 hh == Mul(h, h)
             IN  IF k % 2 = 0 THEN hh ELSE Mul(hh, a)
  IN  power[e]

-----------------------------------------------------------------------------
(* Restoring division: one quotient bit per bit of the dividend, from the  *)
(* top.  qr is the quotient so far (the bits of one limb, or the limbs     *)
(* already done, top first) with the remainder.                            *)

DmStep(b, r1, qacc) ==
  IF Cmp(r1, b) = "lt" THEN <<ShlWord(qacc, 1), r1>>
  ELSE <<ShlWord(qacc, 1) | 1, Sub(r1, b)>>

DmBits(x, b, rem) ==
  Threaded(WordBits, <<0, rem>>, [j \in 1..WordBits |-> [qr \in Word \X Seq(Word) |->
    DmStep(b, Shl1Or(qr[2], Bit(x, WordBits - j)), qr[1])]])[WordBits]

DmLimbs(a, b) ==
  Threaded(Len(a), <<<<>>, Zero>>, [i \in 1..Len(a) |-> [qr \in Seq(Word) \X Seq(Word) |->
    LET next == DmBits(a[Len(a) + 1 - i], b, qr[2])
    IN  <<Append(qr[1], next[1]), next[2]>>]])[Len(a)]

DivMod(a, b) ==
  IF IsZero(b) THEN <<Zero, a>>
  ELSE LET qr == DmLimbs(a, b)
       IN  <<Norm(Reverse(qr[1])), qr[2]>>

Div(a, b) == DivMod(a, b)[1]
Modulo(a, b) == DivMod(a, b)[2]

GcdOf[p \in Number \X Number] ==
  IF IsZero(p[1]) THEN p[2] ELSE GcdOf[<<Modulo(p[2], p[1]), p[1]>>]

Gcd(a, b) == GcdOf[<<a, b>>]

-----------------------------------------------------------------------------
(* Bitwise operations, limb by limb.                                       *)

AndFrom(a, b, n) == [i \in 1..n |-> Limb(a, i - 1) & Limb(b, i - 1)]
OrFrom(a, b, n) == [i \in 1..n |-> Limb(a, i - 1) | Limb(b, i - 1)]
XorFrom(a, b, n) == [i \in 1..n |-> Limb(a, i - 1) ^^ Limb(b, i - 1)]

Land(a, b) == Norm(AndFrom(a, b, Min({Len(a), Len(b)})))
Lor(a, b) == Norm(OrFrom(a, b, Longer(a, b)))
NatXor(a, b) == Norm(XorFrom(a, b, Longer(a, b)))

\* FNV-1a; the seed and the prime are odd, as they are at 64 bits.
Hash64(a) == FoldLeft(LAMBDA acc, x : Wrap((acc ^^ x) * 3), 1, a)

-----------------------------------------------------------------------------
(* Two registers, and every operation whose result is a number.            *)

CONSTANT MaxLimbs   \* results longer than this are not kept

\* No memory holds a number of more limbs than a word counts: shift_right_nat,
\* which answers zero for an amount of more words than that, rests on it.
ASSUME MaxLimbsAssumption == MaxLimbs \in 1 .. Base

VARIABLES num, arg
vars == <<num, arg>>

Init == num \in {Zero, One} /\ arg = FromU64(MaxWord)

Keep(r) == Len(r) <= MaxLimbs /\ num' = r /\ UNCHANGED arg

DoAdd == Keep(Add(num, arg))
DoSub == Keep(Sub(num, arg))
DoPred == Keep(Pred(num))
DoMul == Keep(Mul(num, arg))
DoPow == \E e \in 0..MaxWord : Keep(Pow(num, e))
DoDiv == Keep(Div(num, arg))
DoModulo == Keep(Modulo(num, arg))
DoGcd == Keep(Gcd(num, arg))
DoShiftLeft == \E k \in 0..MaxWord : Keep(ShiftLeft(num, k))
DoShiftRight == \E k \in 0..MaxWord : Keep(ShiftRight(num, k))
DoShiftLeftNat == IsU64(arg) /\ Keep(ShiftLeftNat(num, arg))
DoShiftRightNat == Keep(ShiftRightNat(num, arg))
DoLand == Keep(Land(num, arg))
DoLor == Keep(Lor(num, arg))
DoXor == Keep(NatXor(num, arg))
Swap == num' = arg /\ arg' = num

Next ==
  \/ DoAdd \/ DoSub \/ DoPred \/ DoMul \/ DoPow \/ DoDiv \/ DoModulo \/ DoGcd
  \/ DoShiftLeft \/ DoShiftRight \/ DoShiftLeftNat \/ DoShiftRightNat
  \/ DoLand \/ DoLor \/ DoXor \/ Swap

Spec == Init /\ [][Next]_vars

-----------------------------------------------------------------------------
(* The reference: the number a sequence of limbs stands for, and the       *)
(* arithmetic of Naturals.                                                 *)

Weight[i \in Nat] == IF i = 0 THEN 1 ELSE Base * Weight[i - 1]

Low(v) ==
  LET low[i \in Nat] == IF i = 0 THEN 0 ELSE low[i - 1] + Limb(v, i - 1) * Weight[i - 1]
  IN  low

Value(v) == Low(v)[Len(v)]

IsNumber(v, n) == Normal(v) /\ Value(v) = n

\* What `shift_left_nat` is tried at: its result has to fit the integers of the checker.
MaxShift == 6 * WordBits

NumBits == MaxLimbs * WordBits   \* of a number that is kept

\* m to the power k.
Raised(m) ==
  LET power[k \in Nat] == IF k = 0 THEN 1 ELSE m * power[k - 1]
  IN  power

Divides(d, n) == \E q \in 0..n : d * q = n

OpsExact(m, n) ==
  /\ Cmp(num, arg) = Order(m, n)
  /\ Beq(num, arg) <=> (num = arg)
  /\ Ble(num, arg) <=> m <= n
  /\ Blt(num, arg) <=> m < n
  /\ IsU64(num) <=> m <= MaxWord
  /\ Hash64(num) # Hash64(arg) => m # n
  /\ IsNumber(Add(num, arg), m + n)
  /\ IsNumber(Sub(num, arg), Max({0, m - n}))
  /\ IsNumber(Pred(num), Max({0, m - 1}))
  /\ IsNumber(Mul(num, arg), m * n)
  /\ \A e \in 0..MaxWord : IsNumber(Pow(num, e), Raised(m)[e])
  /\ IsNumber(Div(num, arg), IF n = 0 THEN 0 ELSE m \div n)
  /\ IsNumber(Modulo(num, arg), IF n = 0 THEN m ELSE m % n)
  /\ IsNumber(Gcd(num, arg), IF m = 0 \/ n = 0 THEN m + n
                         ELSE Max({d \in 1..m : Divides(d, m) /\ Divides(d, n)}))
  /\ \A k \in 0..MaxWord : IsNumber(ShiftLeft(num, k), m * Pow2[k])
  /\ \A k \in 0..MaxWord : IsNumber(ShiftRight(num, k), m \div Pow2[k])
  /\ n <= MaxShift => IsNumber(ShiftLeftNat(num, arg), m * Pow2[n])
  /\ IsNumber(ShiftRightNat(num, arg), IF n > NumBits THEN 0 ELSE m \div Pow2[n])
  /\ IsNumber(Land(num, arg), BitsBelow(AndBits, NumBits, m, n))
  /\ IsNumber(Lor(num, arg), BitsBelow(OrBits, NumBits, m, n))
  /\ IsNumber(NatXor(num, arg), BitsBelow(XorBits, NumBits, m, n))

\* Whatever sequence of operations made the two numbers, each is in normal
\* form, and every operation of nat.rs on them returns, in normal form, the
\* number arithmetic says: no carry, borrow or quotient bit is lost at
\* all-ones and zero limbs, division by zero gives (0, a) as in Lean, and the
\* comparison by length is a comparison of values.
ArithmeticExact == Normal(num) /\ Normal(arg) /\ OpsExact(Value(num), Value(arg))
=============================================================================
