------------------------------ MODULE Float80 -------------------------------
(***************************************************************************)
(* The floating point numbers of the FPU: emu/float80.c on the 128-bit     *)
(* integers of emu/uint128.c.  A number has a sign, an exponent of E bits  *)
(* (15 in the code) and a significand of S bits (64) whose first bit is    *)
(* explicit; intermediate results have 2 * S bits.                         *)
(***************************************************************************)
EXTENDS Integers, FiniteSets

CONSTANTS S, E,
          Exps,       \* exponents of operands
          Modes       \* rounding modes: "nearest", "down", "up", "chop"

VARIABLES call,    \* operation, operands and rounding mode, or << >>
          res,     \* the number the operation returned
          int      \* the integer it returned, or 1 for true

vars == <<call, res, int>>

Bias80 == 2 ^ (E - 1) - 1
Special == 2 ^ E - 1
ExpMin == 1
Unbias(e) == e - Bias80
UnbiasDenormal(e) == IF e = 0 THEN Unbias(ExpMin) ELSE Unbias(e)
Half == 2 ^ (S - 1)             \* CURSED_BIT
Wide == 2 ^ (2 * S)
Shl(i, n) == (i * 2 ^ n) % Wide
Bit(i, n) == (i \div 2 ^ n) % 2
Lesser(a, b) == IF a < b THEN a ELSE b
Greater(a, b) == IF a > b THEN a ELSE b
\* The number of leading zeros of a wide integer, 2 * S for 0.
Clz(i) == 2 * S - Cardinality({n \in 0 .. 2 * S - 1 : i >= 2 ^ n})

Number(sign, exp, signif) == [sign |-> sign, exp |-> exp, signif |-> signif]
Nan == Number(0, Special, Half + Half \div 2)
Inf == Number(0, Special, Half)
Zero == Number(0, 0, 0)

IsSupported(f) == IF f.exp = 0 THEN f.signif < Half ELSE f.signif >= Half
IsNan(f) == f.exp = Special /\ f.signif % Half # 0
IsInf(f) == f.exp = Special /\ f.signif % Half = 0
IsZero(f) == f.exp = 0 /\ f.signif = 0
Neg(f) == [f EXCEPT !.sign = 1 - @]
Xor(a, b) == (a + b) % 2

\* A slip: a half is always rounded up.
ShiftRightHalfUp(i, n, sign, mode) ==
    IF n = 0 THEN i ELSE IF n >= 2 * S THEN 0
    ELSE i \div 2 ^ n + (IF mode = "nearest" THEN Bit(i, n - 1) ELSE 0)

\* u128_shift_right_round: up and down add one even if nothing is lost, and
\* of the bits shifted out only S are looked at.
ShiftRightRound(i, n, sign, mode) ==
    IF n = 0 THEN i
    ELSE IF n >= 2 * S THEN 0
    ELSE LET guard == Bit(i, n - 1)
             rest == i % 2 ^ Lesser(n - 1, S)
             r == i \div 2 ^ n
             up == \/ mode = "up" /\ sign = 0
                   \/ mode = "down" /\ sign = 1
                   \/ mode = "nearest" /\ guard = 1 /\ (rest # 0 \/ r % 2 = 1)
         IN IF up THEN r + 1 ELSE r

\* A slip: a carry out of the rounding is not added to the exponent.
NormalizeRoundCarried(signif, exp, sign, mode) ==
    LET shift == Clz(signif)
        rounded == ShiftRightRound(Shl(signif, shift), S, sign, mode)
    IN Number(sign, (exp - shift + Bias80) % 2 ^ E,
              IF rounded >= 2 ^ S THEN rounded \div 2 ELSE rounded)

\* u128_normalize_round; the exponent is stored in a field of E bits.
NormalizeRound(signif, exp, sign, mode) ==
    LET shift == Clz(signif)
        low == exp - shift < Unbias(ExpMin)
        shifted == IF low THEN (IF exp > Unbias(ExpMin) THEN Shl(signif, exp - Unbias(ExpMin)) ELSE signif)
                   ELSE Shl(signif, shift)
        biased == IF low THEN 0 ELSE exp - shift + Bias80
        rounded == ShiftRightRound(shifted, S, sign, mode)
        carried == rounded >= 2 ^ S
    IN Number(sign, (IF carried THEN biased + 1 ELSE biased) % 2 ^ E,
              IF carried THEN rounded \div 2 ELSE rounded)

\* A slip: a difference has the sign of the second operand.
AddOrderedSign(a, b, mode) ==
    LET as == a.signif * 2 ^ S
        bs == ShiftRightRound(b.signif * 2 ^ S, a.exp - b.exp, 0, mode)
        d == IF as >= bs THEN as - bs ELSE bs - as
    IN IF b.sign = 0 THEN NormalizeRound((as + bs) % Wide, Unbias(a.exp), 0, mode)
       ELSE IF d % 2 ^ S = 0 THEN Zero
       ELSE NormalizeRound(d, Unbias(a.exp), IF as >= bs THEN 1 ELSE 0, mode)

\* f80_add, with the operand of the larger exponent first and positive.  A
\* difference whose low half is zero is returned as zero.
AddOrdered(a, b, mode) ==
    LET as == a.signif * 2 ^ S
        bs == ShiftRightRound(b.signif * 2 ^ S, a.exp - b.exp, 0, mode)
        exp == Unbias(a.exp)
    IN IF b.sign = 0
       THEN IF IsInf(a) THEN NormalizeRound(as, exp, 0, mode)
            ELSE IF as + bs >= Wide
            THEN NormalizeRound((ShiftRightRound((as + bs) % Wide, 1, 0, mode) % (Wide \div 2)) + Wide \div 2,
                                exp + 1, 0, mode)
            ELSE NormalizeRound(as + bs, exp, 0, mode)
       ELSE LET d == IF as >= bs THEN as - bs ELSE bs - as
            IN IF IsInf(a) /\ IsInf(b) THEN Nan
               ELSE IF d % 2 ^ S = 0 THEN Zero
               ELSE NormalizeRound(d, exp, IF as >= bs THEN 0 ELSE 1, mode)

Add(x, y, mode) ==
    LET a == IF x.exp < y.exp THEN y ELSE x
        b == IF x.exp < y.exp THEN x ELSE y
        unordered == ~ IsSupported(x) \/ ~ IsSupported(y)
        flipped == AddOrdered(Neg(a), Neg(b), mode)
        d == IF a.sign = 0 THEN AddOrdered(a, b, mode) ELSE flipped
    IN IF unordered THEN Nan
       ELSE IF IsNan(a) THEN a
       ELSE IF a.sign = 1 /\ d \notin {Nan, Zero} THEN Neg(d) ELSE d
Sub(x, y, mode) == Add(x, Neg(y), mode)

Mul(x, y, mode) ==
    LET sign == Xor(x.sign, y.sign) IN
    IF ~ IsSupported(x) \/ ~ IsSupported(y) \/ IsNan(x) \/ IsNan(y) THEN Nan
    ELSE IF IsInf(x) \/ IsInf(y)
    THEN IF IsZero(x) \/ IsZero(y) THEN Nan ELSE [Inf EXCEPT !.sign = sign]
    ELSE NormalizeRound(x.signif * y.signif, UnbiasDenormal(x.exp) + UnbiasDenormal(y.exp) + 1, sign, mode)

\* The quotient of two finite numbers ends in uint128_div, which stores
\* whether it overflowed through the null pointer it is given.
Div(x, y) ==
    LET signed(f) == [f EXCEPT !.sign = Xor(x.sign, y.sign)] IN
    IF ~ IsSupported(x) \/ ~ IsSupported(y) \/ IsNan(x) \/ IsNan(y) THEN Nan
    ELSE IF IsInf(x) THEN (IF IsInf(y) THEN Nan ELSE signed(Inf))
    ELSE IF IsInf(y) THEN signed(Zero)
    ELSE IF IsZero(y) THEN signed(IF IsZero(x) THEN Nan ELSE Inf)
    ELSE [null |-> TRUE]

Uncomparable(x, y) == ~ IsSupported(x) \/ ~ IsSupported(y) \/ IsNan(x) \/ IsNan(y)
\* A slip: the operands change places.
LtReversed(x, y, mode) == ~ Uncomparable(x, y) /\ Sub(y, x, mode).sign = 1

Lt(x, y, mode) ==
    /\ ~ Uncomparable(x, y)
    /\ ~ (IsInf(x) /\ IsInf(y) /\ x.sign = y.sign)
    /\ \/ IsZero(x) /\ IsZero(y) /\ x.sign # y.sign
       \/ Sub(x, y, mode).sign = 1

\* f80_from_int, normalising, and f80_to_int with its shift.
FromInt(i) ==
    LET m == IF i < 0 THEN -i ELSE i
        shift == S - Cardinality({n \in 0 .. S - 1 : m >= 2 ^ n})
    IN IF i = 0 THEN Zero
       ELSE Number(IF i < 0 THEN 1 ELSE 0, S - 1 + Bias80 - shift, m * 2 ^ shift)

ToInt(f, mode) ==
    LET n == S - 1 + Bias80 - f.exp
        m == IF n > S - 1 THEN 0 ELSE ShiftRightRound(f.signif, n, f.sign, mode)
        wrapped == IF m >= Half /\ (f.sign = 0 \/ m > Half) THEN m - 2 * Half ELSE m
    IN IF ~ IsSupported(f) THEN - Half
       ELSE IF n < 0 THEN (IF f.sign = 0 THEN Half - 1 ELSE - Half)
       ELSE IF f.sign = 0 THEN wrapped ELSE - wrapped

Scale(f, k, mode) ==
    IF ~ IsSupported(f) \/ IsNan(f) THEN Nan
    ELSE NormalizeRound(f.signif * 2 ^ S, Unbias(f.exp) + k, f.sign, mode)
-----------------------------------------------------------------------------
Floats ==
    {f \in [sign : 0 .. 1, exp : Exps, signif : 0 .. 2 ^ S - 1] : IsSupported(f)}
Ints == - Half .. Half - 1

Call(op, x, y, n, mode, r, i) ==
    /\ call' = [op |-> op, x |-> x, y |-> y, n |-> n, mode |-> mode]
    /\ res' = r /\ int' = i
Float(op, x, y, n, mode, r) == Call(op, x, y, n, mode, r, 0)
AnyCall ==
    \/ \E x, y \in Floats, mode \in Modes :
        \/ Float("add", x, y, 0, mode, Add(x, y, mode))
        \/ Float("mul", x, y, 0, mode, Mul(x, y, mode))
        \/ Call("lt", x, y, 0, mode, Zero, IF Lt(x, y, mode) THEN 1 ELSE 0)
    \/ \E x, y \in Floats : Float("div", x, y, 0, "nearest", Div(x, y))
    \/ \E i \in Ints, mode \in Modes :
        Call("int", Zero, Zero, i, mode, FromInt(i), ToInt(FromInt(i), mode))
    \/ \E x \in Floats, k \in -2 .. 2, mode \in Modes :
        Float("scale", x, Zero, k, mode, Scale(x, k, mode))

Init == call = << >> /\ res = Zero /\ int = 0
Next ==
    \/ call = << >> /\ AnyCall
    \/ call # << >> /\ call' = << >> /\ res' = Zero /\ int' = 0

Spec == Init /\ [][Next]_vars
-----------------------------------------------------------------------------
(* Exact values, as multiples of the least denormal.                       *)
Magnitude(f) == f.signif * 2 ^ (Greater(f.exp, ExpMin) - ExpMin)
Value(f) == IF f.sign = 0 THEN Magnitude(f) ELSE - Magnitude(f)
Length(m) == Cardinality({n \in 0 .. 2 ^ E + 2 * S : m >= 2 ^ n})
MaxValue == (2 ^ S - 1) * 2 ^ (Special - 1 - ExpMin)

\* m rounded to a multiple of 2 ^ drop, and to S bits.
RoundedAt(m, drop, mode) ==
    LET q == m \div 2 ^ drop
        r == m % 2 ^ drop
        half == 2 ^ drop \div 2
        up == mode = "nearest" /\ drop > 0 /\ (r > half \/ (r = half /\ q % 2 = 1))
    IN (IF up THEN q + 1 ELSE q) * 2 ^ drop
Rounded(m, mode) == RoundedAt(m, Greater(Length(m) - S, 0), mode)

Finite(f) == f.exp # Special
Normal(f) == Finite(f) /\ f.exp # 0
Abs(v) == IF v < 0 THEN -v ELSE v

\* A sum of normal numbers of one sign is the exact sum, correctly rounded,
\* as long as the exponents are no further apart than a significand is wide
\* and the result is a number.
SumsAreRounded ==
    call # << >> /\ call.op = "add" /\ call.mode \in {"nearest", "chop"} =>
        LET x == call.x
            y == call.y
            sum == Abs(Value(x)) + Abs(Value(y))
        IN Normal(x) /\ Normal(y) /\ x.sign = y.sign /\ Abs(x.exp - y.exp) <= S
             /\ Rounded(sum, call.mode) <= MaxValue
           => Magnitude(res) = Rounded(sum, call.mode) /\ res.sign = x.sign /\ IsSupported(res)

\* A difference is zero or within one unit in the last place of the exact
\* one, on the right side of zero.
DifferencesAreClose ==
    call # << >> /\ call.op = "add" /\ call.mode \in {"nearest", "chop"} =>
        LET x == call.x
            y == call.y
            d == Value(x) + Value(y)
        IN Normal(x) /\ Normal(y) /\ x.sign # y.sign /\ ~ IsZero(res)
           => /\ Abs(Value(res) - d) < 2 ^ (Greater(res.exp, ExpMin) - ExpMin)
              /\ (d > 0 => res.sign = 0) /\ (d < 0 => res.sign = 1)

\* A product is correctly rounded unless it is too large for a number or,
\* before it is rounded, too small for a normal one.
ProductsAreRounded ==
    call # << >> /\ call.op = "mul" /\ call.mode \in {"nearest", "chop"} =>
        LET x == call.x
            y == call.y
            p == x.signif * y.signif
            r == Rounded(p, call.mode)
            expOf(m) == UnbiasDenormal(x.exp) + UnbiasDenormal(y.exp) + Length(m) - 2 * S + 1 + Bias80
            e == expOf(r)
        IN Finite(x) /\ Finite(y) /\ p # 0 /\ expOf(p) >= ExpMin /\ e < Special
           => /\ res.sign = Xor(x.sign, y.sign) /\ res.exp = e
              /\ res.signif * 2 ^ Length(r) = r * 2 ^ S

\* A number that compares as less is less, or a zero of the other sign.
LessIsLess ==
    call # << >> /\ call.op = "lt" /\ int = 1 /\ Finite(call.x) /\ Finite(call.y) =>
        Value(call.x) < Value(call.y) \/ (IsZero(call.x) /\ IsZero(call.y))

\* An integer survives the way to a float and back.
IntsSurvive == call # << >> /\ call.op = "int" /\ call.mode \in {"nearest", "chop"} => int = call.n
=============================================================================
