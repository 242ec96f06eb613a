-------------------------- MODULE TaggedArithmetic --------------------------
(***************************************************************************)
(* The arithmetic that idc opens out at a send of +, -, *, bitShift: ...    *)
(* (idc/CCodeGenerator.st), and the same C expressions in the methods of   *)
(* SmallInteger (st80/SmallInteger.st).  Both work on C ints of Bits bits, *)
(* take a fast path when the answer fits a tagged integer, which has one   *)
(* bit less, and otherwise leave the operation to a method.                *)
(*                                                                         *)
(* A Fast operator is the set of answers of the fast path: one answer, or  *)
(* none when the path is not taken.                                        *)
(***************************************************************************)
EXTENDS Integers
LOCAL F == INSTANCE FiniteSetsExt

CONSTANTS Bits,     \* the width of a C int; 32 in the code
          Quarter   \* a quarter of the range of an int, half that of a tag

ASSUME QuarterAssumption == Quarter \in Nat \ {0}
ASSUME BitsAssumption == Bits \in Nat /\ Bits > 2 /\ 4 * Quarter = 2 ^ Bits

Words    == -(2 * Quarter) .. 2 * Quarter - 1
SmallInt == -Quarter .. Quarter - 1

(* An int after a C operation: two's complement, wrapping.  Where C leaves *)
(* an overflow undefined and a compiler makes use of it, see FoldedMul.    *)
Wrap(x) == ((x + 2 * Quarter) % (4 * Quarter)) - 2 * Quarter

(* (_s ^ (_s << 1)) >= 0: the two top bits of _s agree.                    *)
Fits(s) == (s < 0) <=> (Wrap(2 * s) < 0)

Magnitude(x) == IF x < 0 THEN -x ELSE x

(* C's / and % round towards zero.                                         *)
CDiv(a, b) == IF (a < 0) <=> (b < 0) THEN Magnitude(a) \div Magnitude(b)
                                     ELSE -(Magnitude(a) \div Magnitude(b))
CMod(a, b) == a - b * CDiv(a, b)

(* The machine shifts by the count modulo the width of the word.           *)
Shl(l, r) == Wrap(l * 2 ^ (r % Bits))
Shr(l, r) == l \div 2 ^ (r % Bits)

-----------------------------------------------------------------------------
FastAdd(l, r) == {s \in {Wrap(l + r)} : Fits(s)}

FastSub(l, r) == {s \in {Wrap(l - r)} : Fits(s)}

FastMul(l, r) == {s \in {Wrap(l * r)} : (r = 0 \/ CDiv(s, r) = l) /\ Fits(s)}

(* With optimisation, as the makefiles ask for, a compiler may take        *)
(* _s / _r == _l for granted: it holds unless _l * _r overflows.           *)
FoldedMul(l, r) == {s \in {Wrap(l * r)} : Fits(s)}

FastShift(l, r) ==
    {s \in {IF r < 0 THEN Shr(l, -r) ELSE Shl(l, r)} :
        \/ r \in 0 .. Bits - 1 /\ l = Shr(s, r) /\ Fits(s)
        \/ r \in -(Bits - 1) .. -1}

FastLeft(l, r) ==
    {s \in {Shl(l, r)} : r \in 0 .. Bits - 1 /\ l = Shr(s, r) /\ Fits(s)}

FastRight(l, r) == {s \in {Shr(l, r)} : r \in 0 .. Bits - 1}

(* The words themselves are combined, tags and all: 2v + 1 is the oop of v.*)
Oop(v)      == 2 * v + 1
BitsOf(oop) == {i \in 0 .. Bits - 1 : (oop \div 2 ^ i) % 2 = 1}
WordOf(S)   == Wrap(F!MapThenSumSet(LAMBDA i : 2 ^ i, S))

FastAnd(l, r) == {WordOf(BitsOf(Oop(l)) \cap BitsOf(Oop(r))) \div 2}
FastOr(l, r)  == {WordOf(BitsOf(Oop(l)) \cup BitsOf(Oop(r))) \div 2}
FastXor(l, r) ==
    LET a == BitsOf(Oop(l))
        b == BitsOf(Oop(r))
    IN  {WordOf((a \ b) \cup (b \ a) \cup {0}) \div 2}

-----------------------------------------------------------------------------
(* SmallInteger >> //, \\ and quo: for a small argument other than 0.      *)
FastFloorDiv(l, r) ==
    LET up(a, b) == 0 - CDiv(a + (b - 1), b)
    IN  {s \in {IF l > 0 THEN (IF r > 0 THEN CDiv(l, r) ELSE up(l, -r))
                         ELSE (IF r > 0 THEN up(-l, r) ELSE CDiv(-l, -r))} :
            Fits(s)}

FastFloorMod(l, r) ==
    LET rem == CMod(l, r)
    IN  {s \in {IF (r < 0 /\ rem > 0) \/ (r >= 0 /\ rem < 0) THEN rem + r ELSE rem} :
            Fits(s)}

FastQuo(l, r) == {s \in {CDiv(l, r)} : Fits(s)}
=============================================================================
