------------------------------- MODULE Numbers -------------------------------
(***************************************************************************)
(* The integers of the st80 library: tagged SmallIntegers, and the         *)
(* LargePositiveIntegers and LargeNegativeIntegers (a sign and a vector of *)
(* digits, least significant first) that take over beyond them.  The code  *)
(* is st80/SmallInteger.st, LargeInteger.st, LargePositiveInteger.st and   *)
(* LargeNegativeInteger.st.                                                *)
(*                                                                         *)
(* A calculator performs one operation after another on the number `acc'.  *)
(* An operation is what compiled code does at a send: the opened-out fast  *)
(* path of TaggedArithmetic, else the method.  A digit has two nibbles     *)
(* (base 256 in the code, Nibble ^ 2 here), and the digits of maxVal are   *)
(* SmallDigits, of which the last one is below a quarter of the base.      *)
(* Intermediate values of the digit loops fit a SmallInteger and are plain *)
(* integers here.                                                          *)
(***************************************************************************)
EXTENDS TaggedArithmetic, Sequences
LOCAL X == INSTANCE FiniteSetsExt

CONSTANTS Nibble,        \* 16 in the code
          SmallDigits,   \* 4 in the code
          Operands,      \* the integers that are given as arguments
          MaxOps         \* the operations performed on one accumulator

Base == Nibble * Nibble
ASSUME NibbleAssumption == Nibble \in {2 ^ i : i \in 1 .. 4}
ASSUME DigitsAssumption == SmallDigits > 1 /\ 4 * Quarter = Base ^ SmallDigits

VARIABLES acc,   \* the number held
          last   \* the operation that answered it, with its operands

numberVars == <<acc, last>>

-----------------------------------------------------------------------------
(* Representation                                                          *)

Small(v)        == [kind |-> "small", val |-> v, digits |-> <<>>]
New(neg, ds)    == [kind |-> IF neg THEN "neg" ELSE "pos", val |-> 0, digits |-> ds]
Error           == [kind |-> "error", val |-> 0, digits |-> <<>>]
IsSmall(n)      == n.kind = "small"
Negative(n)     == n.kind = "neg" \/ n.val < 0

SumTo(f(_), m)  == X!MapThenSumSet(f, 1 .. m)
Value(n) ==
    LET m == SumTo(LAMBDA i : n.digits[i] * Base ^ (i - 1), Len(n.digits))
    IN  IF n.kind = "neg" THEN -m ELSE n.val + m

(* SmallInteger >> digitLength and digitAt:, LargePositiveInteger's are the *)
(* size and the elements of the vector, 0 beyond its end.                   *)
DigitLength(n) ==
    IF IsSmall(n)
    THEN X!Min({i \in 1 .. SmallDigits : Magnitude(n.val) < Base ^ i \/ i = SmallDigits})
    ELSE Len(n.digits)
DigitAt(n, i) ==
    CASE IsSmall(n) -> IF i > SmallDigits THEN 0
                       ELSE (Magnitude(n.val) \div Base ^ (i - 1)) % Base
      [] OTHER      -> IF i > Len(n.digits) THEN 0 ELSE n.digits[i]

Longest(m, n)   == X!Max({DigitLength(m), DigitLength(n)})

(* highBitOfPositiveReceiver of a digit, highBitOfMagnitude of a number.    *)
HighBit(d)      == X!Min({i \in 0 .. Bits : d < 2 ^ i})
DigitBits       == HighBit(Base - 1)
HighBitOfMagnitude(n) ==
    LET used == {i \in 1 .. DigitLength(n) : DigitAt(n, i) # 0}
    IN  IF used = {} THEN 0
        ELSE LET top == X!Max(used)
             IN  HighBit(DigitAt(n, top)) + DigitBits * (top - 1)

\* Mutant: the zeroes stay.
NormalizeUncut(n) ==
    IF IsSmall(n) \/ Value(n) \notin SmallInt THEN n ELSE Small(Value(n))

(* normalize: leading zeroes go, and a number in the range of SmallInteger *)
(* becomes one.                                                            *)
Normalize(n) ==
    LET len  == X!Max({0} \cup {i \in DOMAIN n.digits : n.digits[i] # 0})
        cut  == New(Negative(n), SubSeq(n.digits, 1, len))
        top  == DigitAt(n, SmallDigits)
        least == Base \div 4         \* SmallInteger minVal lastDigit
        small == \/ len < SmallDigits
                 \/ len = SmallDigits /\ top < least
                 \/ /\ len = SmallDigits /\ Negative(n) /\ top = least
                    /\ \A i \in 1 .. SmallDigits - 1 : DigitAt(n, i) = 0
    IN  CASE IsSmall(n) -> n
          [] len = 0    -> Small(0)
          [] OTHER      -> IF small THEN Small(Value(cut)) ELSE cut

-----------------------------------------------------------------------------
(* Digit arithmetic                                                        *)

(* The digits of a column sum: col(i, c) is the column i with the carry c  *)
(* of the column below.                                                    *)
Columns(col(_, _), len) ==
    LET c[i \in 0 .. len] == IF i = 0 THEN 0 ELSE col(i, c[i - 1] \div Base)
    IN  [digits |-> [i \in 1 .. len |-> c[i] % Base], carry |-> c[len] \div Base]

DigitAdd(a, b) ==
    LET sum == Columns(LAMBDA i, c : c + DigitAt(a, i) + DigitAt(b, i), Longest(a, b))
    IN  New(Negative(a), IF sum.carry > 0 THEN Append(sum.digits, sum.carry)
                                          ELSE sum.digits)

(* The larger magnitude less the smaller, over the digits that differ.     *)
DigitSubtract(a, b) ==
    LET al == DigitLength(a)
        bl == DigitLength(b)
        sl == IF al # bl THEN X!Max({al, bl})
              ELSE X!Max({1} \cup {i \in 1 .. al : DigitAt(a, i) # DigitAt(b, i)})
        less == IF al # bl THEN al < bl ELSE DigitAt(a, sl) < DigitAt(b, sl)
        larger  == IF less THEN b ELSE a
        smaller == IF less THEN a ELSE b
        sum == Columns(LAMBDA i, c : c + DigitAt(larger, i) - DigitAt(smaller, i), sl)
    IN  Normalize(New(IF less THEN ~Negative(a) ELSE Negative(a), sum.digits))

IsZero(n) == DigitLength(n) = 1 /\ DigitAt(n, 1) = 0

DigitMultiply(a, b, neg) ==
    LET n == DigitLength(a)
        m == DigitLength(b)
        row(p, i) ==
            LET ab == Columns(LAMBDA j, c : DigitAt(b, j) * DigitAt(a, i) + c + p[i + j - 1], m)
            IN  [k \in 1 .. n + m |-> CASE k \in i .. i + m - 1 -> ab.digits[k - i + 1]
                                        [] k = i + m -> ab.carry
                                        [] OTHER     -> p[k]]
        prod[i \in 0 .. n] == CASE i = 0 -> [k \in 1 .. n + m |-> 0]
                                [] i > 0 /\ DigitAt(a, i) = 0 -> prod[i - 1]
                                [] OTHER -> row(prod[i - 1], i)
    IN  IF IsZero(a) \/ IsZero(b) THEN Small(0) ELSE Normalize(New(neg, prod[n]))

DigitLshift(n, count) ==
    LET high  == HighBitOfMagnitude(n)
        bytes == count \div DigitBits
        low   == 2 ^ (DigitBits - (count % DigitBits))     \* what stays in its digit
        digit(i) == IF i < 1 THEN 0 ELSE DigitAt(n, i)
    IN  IF high = 0 THEN Small(0)
        ELSE New(Negative(n),
                 [i \in 1 .. (high + count + DigitBits - 1) \div DigitBits |->
                     ((digit(i - bytes) % low) * (Base \div low))
                         + digit(i - bytes - 1) \div low])

DigitRshift(n, bits, bytes, lookFirst) ==
    LET low == 2 ^ bits
        top == X!Max({1} \cup {i \in 1 .. lookFirst :
                                  \/ DigitAt(n, i) \div low # 0
                                  \/ i < lookFirst /\ DigitAt(n, i + 1) # 0})
    IN  New(Negative(n),
            [i \in 1 .. (IF top <= bytes THEN 0 ELSE top - bytes) |->
                (DigitAt(n, i + bytes + 1) % low) * (Base \div low)
                    + DigitAt(n, i + bytes) \div low])

(* Long division by a divisor whose top digit has its top bit set.  A      *)
(* digit of the quotient is estimated, nibble by nibble, from the top      *)
(* digits, and corrected while (t, r3) < (hi, lo).                         *)
RECURSIVE Correct(_, _, _, _, _, _, _)
CorrectNot(qlo, t, r3, hi, lo, dh, dnh) == qlo       \* mutant
Correct(qlo, t, r3, hi, lo, dh, dnh) ==
    LET lo2 == lo - dnh
        hi2 == IF lo2 < 0 THEN hi - 1 ELSE hi
    IN  IF ~(t < hi \/ (t = hi /\ r3 < lo)) THEN qlo
        ELSE IF hi2 >= dh THEN Correct(qlo - 1, t, r3, hi2 - dh, lo2 % Base, dh, dnh)
             ELSE qlo - 1

Estimate(r1, r2, r3, dh, dnh) ==
    LET t1  == r1 * Nibble + r2 \div Nibble
        qhi == t1 \div dh
        t2  == (t1 % dh) * Nibble + (r2 % Nibble)
        hi1 == qhi * dnh
        lo1 == (t2 \div dh) * dnh + (hi1 % Nibble) * Nibble
        qlo == Correct(t2 \div dh, t2 % dh, r3, hi1 \div Nibble + lo1 \div Base, lo1 % Base, dh, dnh)
    IN  IF r1 = dh THEN <<Nibble - 1, Nibble - 1>>
        ELSE IF qlo < 0 THEN <<qhi - 1, qlo + Nibble>> ELSE <<qhi, qlo>>

(* One digit: q * div is subtracted from rem, or (q - 1) * div if that     *)
(* would make it negative.                                                 *)
DivideDigit(rem, div, j) ==
    LET dl  == Len(div) - 1
        m   == Len(div)
        dnh == IF dl = 1 THEN 0 ELSE div[dl - 1]
        q   == Estimate(rem[j], rem[j - 1], IF j < 3 THEN 0 ELSE rem[j - 2], div[dl], dnh)
        hi(i) == div[i] * q[1]
        lo[i \in 1 .. m] ==
            (IF i = 1 THEN 0 ELSE lo[i - 1] \div Base - hi(i - 1) \div Nibble)
                + rem[j - dl + i - 1] - (hi(i) % Nibble) * Nibble - div[i] * q[2]
        over == lo[m] \div Base - hi(m) \div Nibble < 0
        back == Columns(LAMBDA i, c : c + (lo[i] % Base) + div[i], m)
    IN  [quo |-> q[1] * Nibble + q[2] - (IF over THEN 1 ELSE 0),
         rem |-> [k \in DOMAIN rem |->
                    IF k \notin j - dl .. j - dl + m - 1 THEN rem[k]
                    ELSE IF over THEN back.digits[k - j + dl + 1]
                                 ELSE lo[k - j + dl + 1] % Base]]

DigitDiv(a, b, neg) ==
    LET l     == DigitLength(a) - DigitLength(b) + 1
        d     == DigitBits - HighBit(DigitAt(b, DigitLength(b)))
        div   == Append(DigitLshift(b, d).digits, 0)
        shifted == DigitLshift(a, d).digits
        rem   == IF Len(shifted) = DigitLength(a) THEN Append(shifted, 0) ELSE shifted
        step[k \in 0 .. l] == IF k = 0 THEN [quo |-> 0, rem |-> rem]
                              ELSE DivideDigit(step[k - 1].rem, div, Len(rem) + 1 - k)
    IN  IF l <= 0 THEN Small(0)
        ELSE Normalize(New(neg, [i \in 1 .. l |-> step[l + 1 - i].quo]))

(* Bitwise operations work on two's complement digits, made from and to    *)
(* magnitudes as they go.                                                  *)
Complement(neg, i, digit(_)) ==
    CASE ~neg -> digit(i)
      [] neg /\ \A k \in 1 .. i - 1 : digit(k) = 0 -> (Base - digit(i)) % Base
      [] OTHER -> Base - 1 - digit(i)

DigitLogic(a, b, Op(_, _)) ==
    LET sign(n) == IF Negative(n) THEN -1 ELSE 0
        neg == \A s \in Op(sign(a), sign(b)) : s < 0
        bits(i) == LET x == Complement(Negative(a), i, LAMBDA k : DigitAt(a, k))
                       y == Complement(Negative(b), i, LAMBDA k : DigitAt(b, k))
                   IN  CHOOSE d \in Op(x, y) : TRUE
    IN  Normalize(New(neg, [i \in 1 .. Longest(a, b) |-> Complement(neg, i, bits)]))

-----------------------------------------------------------------------------
(* Sends, as compiled code performs them                                   *)

Try(Fast(_, _), a, b, otherwise) ==
    IF IsSmall(a) /\ IsSmall(b) /\ Fast(a.val, b.val) # {}
    THEN Small(CHOOSE s \in Fast(a.val, b.val) : TRUE)
    ELSE otherwise

Plus(a, b) ==
    Try(FastAdd, a, b, IF Negative(a) <=> Negative(b) THEN Normalize(DigitAdd(a, b))
                                                      ELSE DigitSubtract(a, b))
Minus(a, b) ==
    Try(FastSub, a, b, IF Negative(a) <=> Negative(b) THEN DigitSubtract(a, b)
                                                      ELSE Normalize(DigitAdd(a, b)))
TimesBy(Fast(_, _), a, b) ==
    Try(Fast, a, b, DigitMultiply(a, b, Negative(a) # Negative(b)))
Times(a, b)  == TimesBy(FastMul, a, b)

Negated(a)   == Minus(Small(0), a)
Abs(a)       == IF Negative(a) THEN Negated(a) ELSE a
BitInvert(a) == Minus(Small(-1), a)

(* = is the identity of two large integers: only Object implements it.     *)
Equal(a, b) == IsSmall(a) /\ IsSmall(b) /\ a.val = b.val

DigitCompare(a, b) ==
    LET al == DigitLength(a)
        bl == DigitLength(b)
        differ == {i \in 1 .. al : DigitAt(a, i) # DigitAt(b, i)}
        top == X!Max(differ)
    IN  CASE al # bl      -> IF bl > al THEN -1 ELSE 1
          [] differ = {}  -> 0
          [] OTHER        -> IF DigitAt(b, top) < DigitAt(a, top) THEN 1 ELSE -1
Less(a, b) ==
    CASE IsSmall(a) /\ IsSmall(b) -> a.val < b.val
      [] Negative(a) # Negative(b) -> Negative(a)
      [] OTHER -> IF Negative(a) THEN DigitCompare(a, b) > 0 ELSE DigitCompare(a, b) < 0

Quo(a, b) ==
    Try(FastQuo, a, b,
        IF IsSmall(a) /\ IsSmall(b) THEN Negated(a)      \* minVal quo: -1
        ELSE DigitDiv(a, IF IsSmall(b) THEN Abs(b) ELSE b, Negative(a) # Negative(b)))

FloorDiv(a, b) ==
    LET q == Quo(a, b)
        down == IF Negative(q) THEN ~Equal(Times(q, b), a)
                ELSE Equal(q, Small(0)) /\ Negative(a) # Negative(b)
    IN  CASE b = Small(0) -> Error
          [] OTHER -> Try(FastFloorDiv, a, b,
                          IF a = Small(0) THEN Small(0)
                          ELSE IF down THEN Minus(q, Small(1)) ELSE q)
FloorMod(a, b) ==
    IF b = Small(0) THEN Error
    ELSE Try(FastFloorMod, a, b, Minus(a, Times(FloorDiv(a, b), b)))

(* A large receiver combines digits; a small one hands a large argument    *)
(* over, by way of the complements if it is negative.                      *)
LargeFirst(a, b, Op(_, _)) ==
    IF IsSmall(a) THEN DigitLogic(b, a, Op) ELSE DigitLogic(a, b, Op)
LogicAnd(a, b) ==
    Try(FastAnd, a, b,
        IF IsSmall(a) /\ Negative(a)
        THEN BitInvert(LargeFirst(BitInvert(a), BitInvert(b), FastOr))
        ELSE LargeFirst(a, b, FastAnd))
BitClear(a, b) == Minus(LargeFirst(a, b, FastOr), b)
LogicOr(a, b) ==
    Try(FastOr, a, b,
        IF ~(IsSmall(a) /\ Negative(a)) THEN LargeFirst(a, b, FastOr)
        ELSE IF Negative(b) THEN BitInvert(LargeFirst(BitInvert(a), BitInvert(b), FastAnd))
        ELSE BitInvert(BitClear(BitInvert(a), b)))
LogicXor(a, b) ==
    Try(FastXor, a, b,
        IF ~(IsSmall(a) /\ Negative(a)) THEN LargeFirst(a, b, FastXor)
        ELSE IF Negative(b) THEN LargeFirst(BitInvert(a), BitInvert(b), FastXor)
        ELSE BitInvert(BitClear(BitInvert(a), b)))

(* A negative large integer shifted right sends anyBitOfMagnitudeFrom:to:, *)
(* which nothing implements.                                               *)
MagnitudeShift(a, n) ==
    IF n >= 0 THEN DigitLshift(a, n)
    ELSE Normalize(DigitRshift(a, (-n) % DigitBits, (-n) \div DigitBits, DigitLength(a)))
LargeShift(a, b) ==
    IF Negative(a) /\ b.val < 0 THEN Error ELSE MagnitudeShift(a, b.val)
Shift(a, b) ==
    LET positive(n) == Try(FastShift, n, b, LargeShift(n, b))
    IN  Try(FastShift, a, b,
            IF IsSmall(a) /\ Negative(a) THEN Negated(positive(Negated(a)))
            ELSE LargeShift(a, b))
LeftShift(a, b) ==
    Try(FastLeft, a, b, IF Negative(b) THEN Error ELSE Shift(a, b))
RightShift(a, b) ==
    Try(FastRight, a, b, IF Negative(b) THEN Error ELSE Shift(a, Negated(b)))

-----------------------------------------------------------------------------
(* The calculator                                                          *)

(* A literal, or a number read: in normal form.                            *)
Literal(v) ==
    IF v \in SmallInt THEN Small(v)
    ELSE LET len == X!Min({i \in 1 .. 3 * SmallDigits : Magnitude(v) < Base ^ i})
         IN  New(v < 0, [i \in 1 .. len |-> (Magnitude(v) \div Base ^ (i - 1)) % Base])

NumberInit ==
    \E v \in Operands : /\ acc = Literal(v)
                         /\ last = [op |-> "none", count |-> 0, left |-> v, right |-> 0]

(* A send of op to acc.  Values stay within the integers TLC computes.     *)
Perform(op, arguments, Answer(_, _)) ==
    /\ last.count < MaxOps
    /\ acc.kind # "error" /\ Len(acc.digits) <= SmallDigits + 2
    /\ \E v \in arguments :
          /\ acc'  = Answer(acc, Literal(v))
          /\ last' = [op |-> op, count |-> last.count + 1, left |-> Value(acc), right |-> v]

Adds       == Perform("+", Operands, Plus)
Subtracts  == Perform("-", Operands, Minus)
Multiplies == \/ Perform("*", Operands, Times)
              \/ Perform("folded *", Operands, LAMBDA a, b : TimesBy(FoldedMul, a, b))
Quotients  == Perform("quo:", Operands \ {0}, Quo)
Divides    == Perform("//", Operands, FloorDiv)
Modulos    == Perform("\\\\", Operands, FloorMod)
Ands       == Perform("bitAnd:", Operands, LogicAnd)
Ors        == Perform("bitOr:", Operands, LogicOr)
Xors       == Perform("bitXor:", Operands, LogicXor)
Displacements == Operands \cap (-(Bits + 2) .. Bits + 2)
Shifts     == Perform("bitShift:", Displacements, Shift)
LeftShifts  == Perform("<<", Displacements, LeftShift)
RightShifts == Perform(">>", Displacements, RightShift)
Compares   == Perform("<", Operands, LAMBDA a, b : Small(IF Less(a, b) THEN 1 ELSE 0))

NumberNext == \/ Adds \/ Subtracts \/ Multiplies \/ Quotients \/ Divides \/ Modulos
              \/ Ands \/ Ors \/ Xors \/ Shifts \/ LeftShifts \/ RightShifts \/ Compares

-----------------------------------------------------------------------------
(* The operations on the integers themselves.                              *)
Floor(x, y)  == IF y > 0 THEN x \div y ELSE (-x) \div (-y)
Wide         == 2 ^ 28
WideBits(x)  == {i \in 0 .. 27 : ((x % Wide) \div 2 ^ i) % 2 = 1}
WideInt(S)   == LET u == X!MapThenSumSet(LAMBDA i : 2 ^ i, S)
                IN  IF 27 \in S THEN u - Wide ELSE u
Exact(op, x, y) ==
    LET a == WideBits(x)
        b == WideBits(y)
    IN  CASE op = "+"         -> x + y
          [] op = "-"         -> x - y
          [] op \in {"*", "folded *"} -> x * y
          [] op = "quo:"      -> CDiv(x, y)
          [] op = "//"        -> Floor(x, y)
          [] op = "\\\\"      -> x - y * Floor(x, y)
          [] op = "bitAnd:"   -> WideInt(a \cap b)
          [] op = "bitOr:"    -> WideInt(a \cup b)
          [] op = "bitXor:"   -> WideInt((a \ b) \cup (b \ a))
          [] op \in {"bitShift:", "<<"} -> IF y >= 0 THEN x * 2 ^ y ELSE x \div 2 ^ (-y)
          [] op = ">>"        -> x \div 2 ^ y
          [] op = "<"         -> IF x < y THEN 1 ELSE 0

(* Where the methods are known to answer something else (README, Findings). *)
FloorOfExactLarge(x, y) ==
    y # 0 /\ (x \notin SmallInt \/ y \notin SmallInt) /\ Floor(x, y) < 0 /\ CDiv(x, y) * y = x
CarriesOut == {-(Base ^ i) : i \in SmallDigits .. SmallDigits + 2}
Deviates(op, x, y) ==
    \/ op = "folded *" /\ x \in SmallInt /\ y \in SmallInt /\ x * y \notin Words
    \/ op \in {"//", "\\\\"} /\ (y = 0 \/ FloorOfExactLarge(x, y))
    \/ op = "bitXor:" /\ x \in -Quarter .. -1 /\ y >= Quarter
    \/ op \in {"bitAnd:", "bitOr:", "bitXor:"} /\ Exact(op, x, y) \in CarriesOut
    \/ op \in {"<<", ">>"} /\ y < 0
    \/ op = "bitShift:" /\ x < 0 /\ y < 0 /\ (x < -Quarter \/ y <= -Bits)
    \/ op = ">>" /\ x < 0 /\ y > 0 /\ (x < -Quarter \/ y >= Bits)

(* Every answer is the integer the operation has in arithmetic, whatever   *)
(* mixture of small and large integers it went through, and in its one     *)
(* representation: a SmallInteger if it is in range, and otherwise digits  *)
(* of which the last is not 0 (SmallInteger = compares identities, and     *)
(* + - * on tagged operands would give different answers).                 *)
AnswersExact ==
    /\ last.op # "none" /\ ~Deviates(last.op, last.left, last.right)
           => Value(acc) = Exact(last.op, last.left, last.right)
    /\ acc.kind # "error" => acc = Literal(Value(acc))

(* // answers the floor of the quotient (Number.st: (self / aNumber) floor) *)
(* for integers of any size.                                               *)
DivideFloors ==
    last.op = "//" /\ last.right # 0 => Value(acc) = Exact("//", last.left, last.right)
=============================================================================
