------------------------------- MODULE IntOps -------------------------------
(***************************************************************************)
(* The integer arithmetic of mshvarops.c: what abs, add, sub, mul, div,    *)
(* rem, mod, neg, ars, als and overwrite put into one shared element.  The *)
(* C macros define each function for 8, 16, 32 and 64 bits; here the width *)
(* is W.  A bitwise test of the code on sign bits is a comparison of signs *)
(* here, and a C cast is a reduction modulo 2^W.                           *)
(*                                                                         *)
(* int8 and int16 are computed in int ("small").  int32 and int64 are      *)
(* computed in their own width, where MIN % -1 traps; int64 has a          *)
(* multiplication of its own, by halves.                                   *)
(*                                                                         *)
(* A single or a double is a whole number of units that are smaller than   *)
(* any fraction the conversions can tell from zero; every floating-point   *)
(* operation of the code is rounded as the processor does.  NaN, infinity  *)
(* and the sign of zero are not inputs; where an operation makes NaN or    *)
(* infinity, the model has what a conversion makes of it.                  *)
(***************************************************************************)
EXTENDS Integers

CONSTANTS
    W,      \* bits of the type; even
    Kind,   \* "small", "int32" or "int64"
    SingleBits, DoubleBits,  \* bits of a significand: 24 and 53 in the code
    OverflowWraps,  \* does signed overflow wrap in the compiled code (gcc -fwrapv)?
    Trap    \* a result that is never stored: the processor stops the program

ASSUME IntOpsAssumption ==
    /\ W \in Nat /\ W > 0 /\ W % 2 = 0
    /\ Kind \in {"small", "int32", "int64"}
    /\ SingleBits \in Nat /\ DoubleBits \in Nat
    /\ SingleBits >= 2 /\ SingleBits < DoubleBits
    /\ OverflowWraps \in BOOLEAN
    /\ Trap \notin Int

VARIABLE accum      \* the shared element: whether its class is signed, and its value

\* Powers of two; Modulus is what C reduces by in an unsigned type of W bits.
Pow2[n \in Nat] == IF n = 0 THEN 1 ELSE 2 * Pow2[n - 1]
Modulus == Pow2[W]

MAX == Pow2[W - 1] - 1
MIN == -Pow2[W - 1]
UMAX == Modulus - 1
Half == Pow2[W \div 2]

Values(signed) == IF signed THEN MIN .. MAX ELSE 0 .. UMAX

\* Conversion of an integer to the signed and to the unsigned type of W bits.
Wrap(x) == ((x - MIN) % Modulus) + MIN
UWrap(x) == x % Modulus

\* The division and the remainder of C, which truncate.
Magnitude(x) == IF x < 0 THEN -x ELSE x
Quotient(a, b) ==
    LET q == Magnitude(a) \div Magnitude(b) IN IF (a < 0) # (b < 0) THEN -q ELSE q
Remainder(a, b) == a - b * Quotient(a, b)

------------------------------------------------------------------------------
(* Signed functions                                                        *)

Sgn(x) == IF x < 0 THEN 1 ELSE 0

SignsDiffer(a, b) == (a < 0) # (b < 0)

\* The test for a negative result is reached by overflow only, so a compiler that
\* need not wrap may drop it for the types that are not promoted.
AbsInt(x) ==
    LET out == Wrap(IF x < 0 THEN -x ELSE x)
    IN  IF out < 0 /\ (Kind = "small" \/ OverflowWraps) THEN MAX ELSE out

\* Mutation: the sign of one operand alone decides.
AddIntOneSign(a, b) ==
    LET uadd == Wrap(a + b)
    IN  IF SignsDiffer(uadd, a) THEN Wrap(MAX + (1 - Sgn(uadd))) ELSE uadd

\* The sum overflowed if its sign differs from that of both operands; the
\* limit is MAX plus the inverted sign bit of the wrapped sum.
AddInt(a, b) ==
    LET uadd == Wrap(a + b)
    IN  IF SignsDiffer(uadd, a) /\ SignsDiffer(uadd, b)
        THEN Wrap(MAX + (1 - Sgn(uadd))) ELSE uadd

SubInt(a, b) ==
    LET usub == Wrap(a - b)
    IN  IF SignsDiffer(usub, a) /\ ~SignsDiffer(usub, b)
        THEN Wrap(MAX + (1 - Sgn(usub))) ELSE usub

\* In a type of twice the width.
MulIntPromoted(a, b) ==
    LET m == a * b IN IF m > MAX THEN MAX ELSE IF m < MIN THEN MIN ELSE m

\* Mutation: an overflow is noticed only if both upper halves are set.
ProductByHalvesNoCarry(m, n) ==
    IF m \div Half = 0 \/ n \div Half = 0 THEN UWrap(m * n) ELSE Modulus

\* Product of two unsigned numbers from their halves, Modulus if it does not fit:
\* both upper halves set, the cross product not fitting one half, or a carry out
\* of the final addition.
ProductByHalves(m, n) ==
    LET Cross(x, y) ==  \* x has an upper half, y has none
            LET upper == (x \div Half) * (y % Half)
                lower == (x % Half) * (y % Half)
                uret  == UWrap(upper * Half + lower)
            IN  IF upper \div Half > 0 \/ uret < upper * Half THEN Modulus ELSE uret
    IN  IF m \div Half > 0
        THEN IF n \div Half > 0 THEN Modulus ELSE Cross(m, n)
        ELSE IF n \div Half > 0 THEN Cross(n, m) ELSE UWrap(m * n)

MulInt64(a, b) ==
    LET positive == (a < 0) = (b < 0)
        uret     == ProductByHalves(UWrap(AbsInt(a)), UWrap(AbsInt(b)))
    IN  IF positive
        THEN IF uret > MAX THEN MAX ELSE uret
        ELSE IF uret > -MIN THEN MIN ELSE Wrap(-Wrap(uret))

MulInt(a, b) == IF Kind = "int64" THEN MulInt64(a, b) ELSE MulIntPromoted(a, b)

\* Mutation: exactly half a unit is not rounded away from zero.
DivIntHalfDown(a, b) ==
    IF b = 0 THEN IF a > 0 THEN MAX ELSE IF a < 0 THEN MIN ELSE 0
    ELSE IF b = -1 /\ a = MIN THEN MAX
    ELSE LET check == AbsInt(Remainder(a, b))
             away  == IF (a < 0) = (b < 0) THEN 1 ELSE -1
         IN  IF check > Magnitude(b) - check THEN Quotient(a, b) + away ELSE Quotient(a, b)

\* The quotient is moved away from zero when the remainder is at least half of
\* the denominator; for a negative denominator the comparison is negated.
DivInt(a, b) ==
    LET ret  == Quotient(a, b)
        unit == 1 - 2 * Sgn(a)
        check == AbsInt(Remainder(a, b))
    IN  IF b = 0 THEN IF a > 0 THEN MAX ELSE IF a < 0 THEN MIN ELSE 0
        ELSE IF b < 0
        THEN IF b = -1 /\ a = MIN THEN MAX
             ELSE IF -check <= b - (-check) THEN ret - unit ELSE ret
        ELSE IF check >= b - check THEN ret + unit ELSE ret

\* a % b in C: the processor's division traps on MIN / -1 in the operands' own width.
CRemainder(a, b) ==
    IF Kind # "small" /\ a = MIN /\ b = -1 THEN Trap ELSE Remainder(a, b)

RemInt(a, b) == IF b # 0 THEN CRemainder(a, b) ELSE 0

\* Mutation: the remainder is not moved to the sign of the denominator.
ModIntUnsigned(a, b) == IF b # 0 THEN CRemainder(a, b) ELSE a

ModInt(a, b) ==
    LET rem == CRemainder(a, b)
    IN  IF b = 0 THEN a
        ELSE IF rem \in {0, Trap} THEN rem
        ELSE IF SignsDiffer(rem, b) THEN rem + b ELSE rem

NegInt(x) == IF x = MIN THEN MAX ELSE -x

\* Shifts by up to W bits; what a longer or a negative shift does is left open by C.
Shifts == 0 .. W
ARSInt(x, n) == x \div Pow2[n]
ALSInt(x, n) == Wrap(x * Pow2[n])

------------------------------------------------------------------------------
(* Unsigned functions                                                      *)

AbsUInt(x) == x
AddUInt(a, b) == LET ret == UWrap(a + b) IN IF ret < a THEN UMAX ELSE ret
SubUInt(a, b) == LET ret == UWrap(a - b) IN IF ret > a THEN 0 ELSE ret
MulUIntPromoted(a, b) == IF a * b > UMAX THEN UMAX ELSE a * b

\* The final addition of the halves saturates.
MulUInt64(a, b) == LET uret == ProductByHalves(a, b) IN IF uret > UMAX THEN UMAX ELSE uret

MulUInt(a, b) == IF Kind = "int64" THEN MulUInt64(a, b) ELSE MulUIntPromoted(a, b)

DivUInt(a, b) ==
    IF b = 0 THEN IF a # 0 THEN UMAX ELSE 0
    ELSE LET rem == a % b IN IF rem >= b - rem THEN a \div b + 1 ELSE a \div b

RemUInt(a, b) == IF b # 0 THEN a % b ELSE 0
ModUInt(a, b) == IF b # 0 THEN a % b ELSE a
NegUInt(x) == 0
ARSUInt(x, n) == x \div Pow2[n]
ALSUInt(x, n) == UWrap(x * Pow2[n])

------------------------------------------------------------------------------
(* Floating-point numbers                                                  *)

\* One, counted in the spacing of the doubles just below one half.
Unit == Pow2[DoubleBits + 1]

\* The exponent of the last place of a number with so many significant bits; no
\* result of an operation on a value of the class and a double input has a larger one.
MaxPlace == 2 * (W + DoubleBits)
LastPlace(bits, whole) ==
    CHOOSE e \in 0 .. MaxPlace :
        whole < Pow2[bits + e] /\ (e > 0 => whole >= Pow2[bits + e - 1])

\* n/d rounded to so many significant bits; a tie goes to the even neighbour.
RoundTo(bits, n, d) ==
    LET e    == LastPlace(bits, Magnitude(n) \div Magnitude(d))
        step == Magnitude(d) * Pow2[e]
        k    == Magnitude(n) \div step
        rest == Magnitude(n) % step
        near == IF 2 * rest > step \/ (2 * rest = step /\ k % 2 = 1) THEN k + 1 ELSE k
    IN  IF SignsDiffer(n, d) THEN -(near * Pow2[e]) ELSE near * Pow2[e]

\* A value of the class as a double; a whole number, not counted in units.
AsDouble(x) == RoundTo(DoubleBits, x, 1)

\* More than any class holds: what a conversion finds in infinity.
Infinity == 2 * Modulus * Unit

\* The functions of the class double, of a whole number x and of q units.
AddDouble(x, q) == RoundTo(DoubleBits, x * Unit + q, 1)
SubDouble(x, q) == RoundTo(DoubleBits, x * Unit - q, 1)
MulDouble(x, q) == RoundTo(DoubleBits, x * q, 1)
DivDouble(x, q) ==
    IF q = 0 THEN IF x > 0 THEN Infinity ELSE IF x < 0 THEN -Infinity ELSE 0
    ELSE RoundTo(DoubleBits, x * Unit * Unit, q)

\* fmod is exact.
RemDouble(x, q) == IF q # 0 THEN Remainder(x * Unit, q) ELSE 0

ModDouble(x, q) ==
    LET rem == RemDouble(x, q)
    IN  IF q = 0 THEN x * Unit
        ELSE IF rem # 0 /\ SignsDiffer(rem, q) THEN RoundTo(DoubleBits, rem + q, 1) ELSE rem

\* A shift by a double divides or multiplies by a power of two.
ARSDouble(x, n) == RoundTo(DoubleBits, x * Unit, Pow2[n])
ALSDouble(x, n) == x * Unit * Pow2[n]

------------------------------------------------------------------------------
(* Conversion of an input of another class                                 *)

\* From a type of twice the width.
FromWide(signed, v) ==
    LET lo == IF signed THEN MIN ELSE 0
        hi == IF signed THEN MAX ELSE UMAX
    IN  IF v > hi THEN hi ELSE IF v < lo THEN lo ELSE v

\* From the type of the same width and the other signedness: an unsigned value is
\* cast, a negative one becomes zero.
FromOther(signed, v) == IF signed THEN Wrap(v) ELSE IF v < 0 THEN 0 ELSE v

\* The values a C cast to the class may give: out of range it is undefined.
Cast(signed, q) ==
    LET i == Quotient(q, Unit) IN IF i \in Values(signed) THEN {i} ELSE Values(signed)

\* The limit is rounded to the type of the input before the comparison, and one
\* half is added as a double.
FromFloat(signed, bits, q) ==
    LET lo == IF signed THEN MIN ELSE 0
        hi == IF signed THEN MAX ELSE UMAX
    IN  IF q > 0
        THEN IF q > RoundTo(bits, hi * Unit, 1) THEN {hi}
             ELSE Cast(signed, RoundTo(DoubleBits, q + Unit \div 2, 1))
        ELSE IF q < 0
        THEN IF q < RoundTo(bits, lo * Unit, 1) THEN {lo}
             ELSE Cast(signed, RoundTo(DoubleBits, q - Unit \div 2, 1))
        ELSE {0}

FromSingle(signed, q) == FromFloat(signed, SingleBits, q)

\* Mutation: the fraction is cut off.
FromDoubleTruncated(signed, q) == {FromWide(signed, Quotient(q, Unit))}

FromDouble(signed, q) == FromFloat(signed, DoubleBits, q)

\* Inputs at the limits of the types: integers, and the floating-point numbers at
\* and next to whole numbers and halves.
WideValues == {-Pow2[2 * W - 1], MIN - 1, MIN, -1, 0, MAX, MAX + 1, UMAX, UMAX + 1, Pow2[2 * W - 1] - 1}
Floats(bits) ==
    LET gaps == {0} \cup {Pow2[i] : i \in 0 .. DoubleBits} \cup {-Pow2[i] : i \in 0 .. DoubleBits}
        near == {c * Unit + h * (Unit \div 2) + g :
                    c \in {MIN, -1, 0, 1, MAX, UMAX}, h \in 0 .. 2, g \in gaps}
    IN  {q \in near : RoundTo(bits, q, 1) = q}
Singles == Floats(SingleBits)
Doubles == Floats(DoubleBits)

------------------------------------------------------------------------------
Init == accum \in [signed : BOOLEAN, val : {0}]

Put(v) == v # Trap /\ accum' = [accum EXCEPT !.val = v]

\* The function of the class of the element is the one that runs.
OfClass(signed_ret, unsigned_ret) == IF accum.signed THEN signed_ret ELSE unsigned_ret

Inputs == Values(accum.signed)

Abs == Put(OfClass(AbsInt(accum.val), AbsUInt(accum.val)))
Neg == Put(OfClass(NegInt(accum.val), NegUInt(accum.val)))

\* The only input of another class these accept is a double scalar: it is computed
\* with in double, and the result converted back.
PutDouble(q) == \E v \in FromDouble(accum.signed, q) : Put(v)
Old == AsDouble(accum.val)

Add == \/ \E in \in Inputs : Put(OfClass(AddInt(accum.val, in), AddUInt(accum.val, in)))
       \/ \E q \in Doubles : PutDouble(AddDouble(Old, q))
Sub == \/ \E in \in Inputs : Put(OfClass(SubInt(accum.val, in), SubUInt(accum.val, in)))
       \/ \E q \in Doubles : PutDouble(SubDouble(Old, q))
Mul == \/ \E in \in Inputs : Put(OfClass(MulInt(accum.val, in), MulUInt(accum.val, in)))
       \/ \E q \in Doubles : PutDouble(MulDouble(Old, q))
Div == \/ \E in \in Inputs : Put(OfClass(DivInt(accum.val, in), DivUInt(accum.val, in)))
       \/ \E q \in Doubles : PutDouble(DivDouble(Old, q))
Rem == \/ \E in \in Inputs : Put(OfClass(RemInt(accum.val, in), RemUInt(accum.val, in)))
       \/ \E q \in Doubles : PutDouble(RemDouble(Old, q))
Mod == \/ \E in \in Inputs : Put(OfClass(ModInt(accum.val, in), ModUInt(accum.val, in)))
       \/ \E q \in Doubles : PutDouble(ModDouble(Old, q))
ARS == \/ \E in \in Shifts : Put(OfClass(ARSInt(accum.val, in), ARSUInt(accum.val, in)))
       \/ \E n \in Shifts : PutDouble(ARSDouble(Old, n))
ALS == \/ \E in \in Shifts : Put(OfClass(ALSInt(accum.val, in), ALSUInt(accum.val, in)))
       \/ \E n \in Shifts : PutDouble(ALSDouble(Old, n))

\* Overwriting with a value of any class.
Cpy ==
    \/ \E v \in Values(accum.signed) : Put(v)
    \/ \E v \in Values(~accum.signed) : Put(FromOther(accum.signed, v))
    \/ \E v \in WideValues : Put(FromWide(accum.signed, v))
    \/ \E q \in Singles : \E v \in FromSingle(accum.signed, q) : Put(v)
    \/ \E q \in Doubles : PutDouble(q)

Next == Abs \/ Neg \/ Add \/ Sub \/ Mul \/ Div \/ Rem \/ Mod \/ ARS \/ ALS \/ Cpy

Spec == Init /\ [][Next]_accum

------------------------------------------------------------------------------
(* Properties: the functions agree with MATLAB's arithmetic, against which *)
(* the tests compare them (+tests/+single/varops.m), for the element as it *)
(* is and for every input.                                                 *)

Clamp(signed, x) ==
    LET lo == IF signed THEN MIN ELSE 0
        hi == IF signed THEN MAX ELSE UMAX
    IN  IF x < lo THEN lo ELSE IF x > hi THEN hi ELSE x

\* The integer nearest to n/d, halves away from zero; d > 0.
Rounded(n, d) == Quotient(2 * n + (IF n < 0 THEN -d ELSE d), 2 * d)

\* A double scalar makes the value x of the element, where a double holds every
\* value of the class (8 to 32 bits in the code).
ByDouble(q, x) == W < DoubleBits => FromDouble(accum.signed, q) = {x}

(* abs, neg, add and sub give the exact result, limited to the range of    *)
(* the class, whatever the wrapped intermediate values are; and so do add  *)
(* and sub with a double scalar of the same value.                         *)
SaturatingSums ==
    LET a == accum.val
        signed == accum.signed
    IN  /\ signed => AbsInt(a) = Clamp(TRUE, Magnitude(a)) /\ NegInt(a) = Clamp(TRUE, -a)
        /\ \A b \in Values(signed) :
              LET sum  == Clamp(signed, a + b)
                  diff == Clamp(signed, a - b)
              IN  /\ IF signed THEN AddInt(a, b) = sum /\ SubInt(a, b) = diff
                     ELSE AddUInt(a, b) = sum /\ SubUInt(a, b) = diff
                  /\ ByDouble(AddDouble(Old, b * Unit), sum)
                  /\ ByDouble(SubDouble(Old, b * Unit), diff)

(* Multiplication by promotion, multiplication by halves and that in       *)
(* double all give the exact product limited to the range of the class;    *)
(* for the signed one by halves the operand MIN is left to ProductExact.   *)
SaturatingProducts ==
    LET a == accum.val IN
    \A b \in Values(accum.signed) :
        LET exact == Clamp(accum.signed, a * b) IN
        /\ IF accum.signed
           THEN MulIntPromoted(a, b) = exact /\ (MIN \in {a, b} \/ MulInt64(a, b) = exact)
           ELSE MulUIntPromoted(a, b) = exact /\ MulUInt64(a, b) = exact
        /\ ByDouble(MulDouble(Old, b * Unit), exact)

(* "btester.matf = @times" (varops.m): multiplication gives the product    *)
(* limited to the range of the class, for every pair of operands.          *)
ProductExact ==
    \A b \in Values(accum.signed) :
        accum.signed => MulInt(accum.val, b) = Clamp(TRUE, accum.val * b)

(* Division by anything but zero rounds to the nearest integer, halves     *)
(* away from zero, and saturates on MIN/-1; the quotient of doubles,       *)
(* itself rounded, is never rounded onto a half it does not reach.         *)
RoundedQuotients ==
    LET a == accum.val IN
    \A b \in Values(accum.signed) \ {0} :
        LET exact == Clamp(accum.signed, Rounded(IF b < 0 THEN -a ELSE a, Magnitude(b))) IN
        /\ IF accum.signed THEN DivInt(a, b) = exact ELSE DivUInt(a, b) = exact
        /\ ByDouble(DivDouble(Old, b * Unit), exact)

(* "btester.matf = @rem", "btester.matf = @mod" (varops.m): rem has the    *)
(* sign of the numerator and mod that of the denominator, both differ from *)
(* the numerator by a multiple of the denominator, and mod by zero changes *)
(* nothing; with a double scalar too.                                      *)
RemaindersExact ==
    LET a == accum.val IN
    \A b \in Values(accum.signed) :
        LET rem == IF b = 0 THEN 0 ELSE Remainder(a, b)
            mod == IF b = 0 THEN a ELSE a - b * ((IF b < 0 THEN -a ELSE a) \div Magnitude(b))
        IN  /\ IF accum.signed THEN RemInt(a, b) = rem /\ ModInt(a, b) = mod
               ELSE RemUInt(a, b) = rem /\ ModUInt(a, b) = mod
            /\ ByDouble(RemDouble(Old, b * Unit), rem)
            /\ ByDouble(ModDouble(Old, b * Unit), mod)

(* An integer of another class becomes the nearest value of the class of   *)
(* the element; but an unsigned value of the same width above MAX is cast  *)
(* to a negative one (TC_INT_U_DEF).                                       *)
IntegersSaturate ==
    /\ \A v \in WideValues : FromWide(accum.signed, v) = Clamp(accum.signed, v)
    /\ \A v \in Values(~accum.signed) :
          IF v <= MAX THEN FromOther(accum.signed, v) = Clamp(accum.signed, v)
          ELSE FromOther(accum.signed, v) = v - Modulus

(* The nearest integer to q units, halves away from zero; but the largest  *)
(* double below one half goes up to one, as its sum with one half does.    *)
Nearest(q) ==
    IF Magnitude(q) = Unit \div 2 - 1 THEN IF q < 0 THEN -1 ELSE 1 ELSE Rounded(q, Unit)

(* A double becomes the nearest value of the class of the element.         *)
DoublesSaturate == \A q \in Doubles : FromDouble(accum.signed, q) = {Clamp(accum.signed, Nearest(q))}

(* A single becomes the nearest value of the class of the element.         *)
SinglesSaturate == \A q \in Singles : FromSingle(accum.signed, q) = {Clamp(accum.signed, Rounded(q, Unit))}

(* An input of another class, integer or floating-point, is rounded and    *)
(* limited to the range of the class of the element, with the exceptions   *)
(* above.  This needs significands that hold the limits of the class: for  *)
(* the 32-bit classes MAX + 1 as a single, for the 64-bit ones MAX + 1 as  *)
(* either, pass the comparison with MAX (line 1106), and the cast is       *)
(* undefined.                                                              *)
ConversionsSaturate == IntegersSaturate /\ DoublesSaturate /\ SinglesSaturate
=============================================================================
