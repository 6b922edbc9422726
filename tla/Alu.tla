-------------------------------- MODULE Alu ---------------------------------
(***************************************************************************)
(* The arithmetic of the interpreter: the instruction macros of            *)
(* emu/interp.c and the flags of emu/cpu.h.  The processor's flags are     *)
(* computed when somebody asks: an instruction leaves its result and       *)
(* operands in res, op1 and op2 and says which flags follow from them.     *)
(* Words have Z bits, of which the low H are the nibble whose carry is AF. *)
(*                                                                         *)
(* `x86' holds the flags as the processor's manual defines them, computed  *)
(* at once; 2 stands for a flag the manual leaves undefined, or one that   *)
(* the code is known to get wrong (Differs).                               *)
(***************************************************************************)
EXTENDS Integers, Bitwise, Sequences, Folds

CONSTANTS Z, H,
          Values,      \* operands
          Counts,      \* counts of shifts, up to what a count is masked to
          Sizes,       \* "full" is a word of 32 bits, "half" one of 16, "byte" of 8
          MaxOps       \* instructions run in a row

VARIABLES s,       \* the flags of struct cpu_state
          x86,     \* the flags of the processor
          agrees,  \* the last instruction's result was the processor's
          steps    \* instructions since the flags were all clear

vars == <<s, x86, agrees, steps>>

M == 2 ^ Z
Ones == M - 1
Word(x) == x % M
Signed(x) == IF x >= M \div 2 THEN x - M ELSE x
Bit(x, i) == (x \div 2 ^ i) % 2
Top(x) == Bit(x, Z - 1)
Flag(b) == IF b THEN 1 ELSE 0
Carry(x) == Flag(x < 0 \/ x >= M)
Over(x) == Flag(x < - (M \div 2) \/ x >= M \div 2)
Parity(x) == Flag(MapThenFoldSet(+, 0, LAMBDA i : Bit(x, i), LAMBDA S : CHOOSE i \in S : TRUE, 1 .. Z - 1) % 2 = Bit(x, 0))
Left(x, n) == x * 2 ^ n
Right(x, n) == x \div 2 ^ n

Flags == {"cf", "of", "zf", "sf", "pf", "af"}
-----------------------------------------------------------------------------
(* Reading and setting flags.                                              *)
Read(t) ==
    [cf |-> t.cf, of |-> t.of,
     zf |-> IF t.zf_res = 1 THEN Flag(t.res = 0) ELSE t.zf,
     sf |-> IF t.sf_res = 1 THEN Flag(t.res < 0) ELSE t.sf,
     pf |-> IF t.pf_res = 1 THEN Parity(Word(t.res)) ELSE t.pf,
     af |-> IF t.af_ops = 1 THEN Bit((t.op1 ^^ t.op2) ^^ Word(t.res), H) ELSE t.af]

CollapseFlags(t) ==
    LET f == Read(t) IN
    [t EXCEPT !.zf = f.zf, !.sf = f.sf, !.pf = f.pf, !.af = f.af,
              !.zf_res = 0, !.sf_res = 0, !.pf_res = 0, !.af_ops = 0,
              !.of_bit = f.of, !.cf_bit = f.cf % 2]
ExpandFlags(t) ==
    [t EXCEPT !.of = t.of_bit, !.cf = t.cf_bit,
              !.zf_res = 0, !.sf_res = 0, !.pf_res = 0, !.af_ops = 0]

SetResFlags(t) == [t EXCEPT !.zf_res = 1, !.sf_res = 1, !.pf_res = 1]
SetRes(t, r) == SetResFlags([t EXCEPT !.res = Signed(Word(r))])
ZeroAf(t) == [t EXCEPT !.af = 0, !.af_ops = 0]
SetAf(t, a, b) == [t EXCEPT !.op1 = a, !.op2 = b, !.af_ops = 1]
CfOf(t, c, o) == [t EXCEPT !.cf = c, !.of = o]
-----------------------------------------------------------------------------
(* Instructions: [val, s], the result and the flags after it.              *)
Gives(v, t) == [val |-> v, s |-> t]

Add(t, src, dst) ==
    Gives(Word(dst + src),
          SetRes(CfOf(SetAf(t, src, dst), Carry(dst + src), Over(Signed(dst) + Signed(src))), dst + src))
\* A slip: the carry is that of the sum.
SubCarry(t, src, dst) ==
    Gives(Word(dst - src),
          SetRes(CfOf(SetAf(t, src, dst), Carry(dst + src), Over(Signed(dst) - Signed(src))), dst - src))

Sub(t, src, dst) ==
    Gives(Word(dst - src),
          SetRes(CfOf(SetAf(t, src, dst), Carry(dst - src), Over(Signed(dst) - Signed(src))), dst - src))

\* The carry is added to the source first, in the width of a word.
Adc(t, src, dst) ==
    LET b == Word(src + t.cf)
        of == Flag(Over(Signed(dst) + Signed(b)) = 1 \/ (t.cf # 0 /\ src = Ones \div 2))
        cf == Flag(Carry(dst + b) = 1 \/ (t.cf # 0 /\ src = Ones))
    IN Gives(Word(dst + b), SetRes(CfOf(SetAf(t, src, dst), cf, of), dst + b))
\* A slip: without the borrow.
SbbWithoutBorrow(t, src, dst) == Sub(t, src, dst)

Sbb(t, src, dst) ==
    LET b == Word(src + t.cf)
        of == Flag(Over(Signed(dst) - Signed(b)) = 1 \/ (t.cf # 0 /\ src = Ones \div 2))
        cf == Flag(Carry(dst - b) = 1 \/ (t.cf # 0 /\ src = Ones))
    IN Gives(Word(dst - b), SetRes(CfOf(SetAf(t, src, dst), cf, of), dst - b))

Logic(t, r) == Gives(r, SetRes(ZeroAf(CfOf(t, 0, 0)), r))
KeepCf(t, r) == [r EXCEPT !.s.cf = t.cf]
Neg(t, v) == Sub(t, v, 0)

\* A product is compared with its low 32 bits whatever its size, so that of
\* two smaller words always fits.
NoResultFlags(t) == [t EXCEPT !.zf = 0, !.sf = 0, !.pf = 0, !.zf_res = 0, !.sf_res = 0, !.pf_res = 0]
Mul(t, v, a, size) ==
    LET o == Flag(size = "full" /\ a * v >= M) IN
    Gives(Word(a * v), ZeroAf(NoResultFlags(CfOf(t, o, o))))
Imul1(t, v, a, size) ==
    LET p == Signed(a) * Signed(v)
        o == IF size = "full" THEN Over(p) ELSE 0
    IN Gives(Word(p), NoResultFlags(CfOf(t, o, o)))
Imul2(t, v, r) ==
    LET p == Signed(r) * Signed(v) IN Gives(Word(p), SetRes(CfOf(t, Over(p), Over(p)), p))
Imul3(t, imm, v) ==
    LET p == Signed(v) * Signed(imm) IN
    Gives(Word(p), [CfOf(t, Over(p), Over(p)) EXCEPT !.res = Signed(Word(p)), !.pf_res = 1,
                                                     !.zf = 0, !.sf = 0, !.zf_res = 0, !.sf_res = 0])

\* Division of a dividend that was extended from the accumulator (CVT for
\* IDIV): the divisor of IDIV is taken for an unsigned word.
Quotient(x, y) == IF (x < 0) = (y < 0) THEN (IF x < 0 THEN -x ELSE x) \div (IF y < 0 THEN -y ELSE y)
                  ELSE - ((IF x < 0 THEN -x ELSE x) \div (IF y < 0 THEN -y ELSE y))
Div(t, v, a) == Gives(IF v = 0 THEN -1 ELSE a \div v, t)
Idiv(t, v, a) == Gives(IF v = 0 THEN -1 ELSE Word(Quotient(Signed(a), v)), t)

\* Rotates and shifts by count % z; a count of 0 changes nothing.  What is
\* smaller than an int is shifted as an int, which keeps the bits that leave it;
\* OP_SIZE is not the byte's size.
Shift(x, n, size) == IF size = "full" THEN Word(Left(x, n)) ELSE Left(x, n)
Rol(t, n, v, size) ==
    LET r == Word(Left(v, n)) + Right(v, Z - n)
        c == r % 2
    IN Gives(r, CfOf(t, c, IF n = 1 THEN (c + (IF size = "byte" THEN 0 ELSE Top(r))) % 2 ELSE t.of))
Ror(t, n, v, size) ==
    LET r == Right(v, n) + Word(Left(v, Z - n))
        c == IF size = "byte" THEN 0 ELSE Top(r)
    IN Gives(r, CfOf(t, c, IF n = 1 THEN (c + r) % 2 ELSE t.of))
Shl(t, n, v, size) ==
    LET c == Right(Shift(v, n - 1, size), Z - 1)
    IN Gives(Word(Left(v, n)), ZeroAf(SetRes(CfOf(t, c, c ^^ Top(v)), Left(v, n))))
Shr(t, n, v) ==
    Gives(Right(v, n), ZeroAf(SetRes(CfOf(t, Bit(v, n - 1), Top(v)), Right(v, n))))
Sar(t, n, v) ==
    LET r == Word(Signed(v) \div 2 ^ n) IN Gives(r, ZeroAf(SetRes(CfOf(t, Bit(v, n - 1), 0), r)))
\* The double shifts put the int itself into res, neither cut nor extended.
SetInt(t, r, size) ==
    IF size = "full" THEN SetRes(t, r) ELSE SetResFlags([t EXCEPT !.res = r])
Shrd(t, n, extra, v, size) ==
    LET r == Right(v, n) + Shift(extra, Z - n, size) IN
    Gives(Word(r), SetInt([t EXCEPT !.cf = Bit(v, n - 1)], r, size))
Shld(t, n, extra, v, size) ==
    LET r == Shift(v, n, size) + Right(extra, Z - n) IN Gives(Word(r), SetInt(t, r, size))

Bt(t, n, v) == Gives(v, [t EXCEPT !.cf = Bit(v, n % Z)])
HighBit(v) == CHOOSE i \in 0 .. Z - 1 : Bit(v, i) = 1 /\ v < 2 ^ (i + 1)
LowBit(v) == CHOOSE i \in 0 .. Z - 1 : Bit(v, i) = 1 /\ v % 2 ^ i = 0
Bsf(t, v, old) ==
    Gives(IF v = 0 THEN old ELSE LowBit(v), [t EXCEPT !.zf = Flag(v = 0), !.zf_res = 0])
Bsr(t, v, old) ==       \* z - clz, one more than the index
    Gives(IF v = 0 THEN old ELSE HighBit(v) + 1, [t EXCEPT !.zf = Flag(v = 0), !.zf_res = 0])

\* CMP(reg_a, dst): the accumulator is taken from the other operand.
Cmpxchg(t, a, dst) == Gives(dst, Sub(t, a, dst).s)

\* The low byte of eflags comes from AH without a collapse before it.
Sahf(t, f) ==
    ExpandFlags([t EXCEPT !.cf_bit = f.cf, !.zf = f.zf, !.sf = f.sf, !.pf = f.pf, !.af = f.af])
Popf(t, f) == Sahf([t EXCEPT !.of_bit = f.of], f)
-----------------------------------------------------------------------------
Binary == {"ADD", "ADC", "SUB", "SBB", "AND", "OR", "XOR", "CMP", "TEST", "XADD",
           "MUL", "IMUL1", "IMUL2", "IMUL3", "DIV", "IDIV", "CMPXCHG", "SCAS"}
Unary == {"INC", "DEC", "NEG"}
Shifts == {"ROL", "ROR", "SHL", "SHR", "SAR", "SHRD", "SHLD"}
Bits == {"BT", "BSF", "BSR"}

\* Operands below 32 bits, and instructions that tell them apart.
Narrow == {"ROL", "ROR", "SHL", "SHR", "SAR", "MUL", "IMUL1"}
Widths == [full |-> Binary \cup Unary \cup Shifts \cup Bits,
           half |-> Narrow \cup {"SHRD", "SHLD"}, byte |-> Narrow]

\* The instruction op on destination a and source or count b.
Exec(op, a, b, size, t) ==
    LET n == b % Z IN
    IF op \in Shifts /\ n = 0 THEN Gives(a, t) ELSE
    CASE op \in {"ADD", "XADD"} -> Add(t, b, a)
      [] op = "ADC" -> Adc(t, b, a)
      [] op = "SUB" -> Sub(t, b, a)
      [] op = "SBB" -> Sbb(t, b, a)
      [] op = "AND" -> Logic(t, a & b)
      [] op = "OR" -> Logic(t, a | b)
      [] op = "XOR" -> Logic(t, a ^^ b)
      [] op = "CMP" -> Gives(a, Sub(t, b, a).s)
      [] op = "TEST" -> Gives(a, Logic(t, a & b).s)
      [] op = "INC" -> KeepCf(t, Add(t, 1, a))
      [] op = "DEC" -> KeepCf(t, Sub(t, 1, a))
      [] op = "NEG" -> Neg(t, a)
      [] op = "MUL" -> Mul(t, b, a, size)
      [] op = "IMUL1" -> Imul1(t, b, a, size)
      [] op = "IMUL2" -> Imul2(t, b, a)
      [] op = "IMUL3" -> Imul3(t, b, a)
      [] op = "DIV" -> Div(t, b, a)
      [] op = "IDIV" -> Idiv(t, b, a)
      [] op = "ROL" -> Rol(t, n, a, size)
      [] op = "ROR" -> Ror(t, n, a, size)
      [] op = "SHL" -> Shl(t, n, a, size)
      [] op = "SHR" -> Shr(t, n, a)
      [] op = "SAR" -> Sar(t, n, a)
      [] op = "SHRD" -> Shrd(t, n, Ones - a, a, size)
      [] op = "SHLD" -> Shld(t, n, Ones - a, a, size)
      [] op = "BT" -> Bt(t, b, a)
      [] op = "BSF" -> Bsf(t, b, a)
      [] op = "BSR" -> Bsr(t, b, a)
      [] op \in {"CMPXCHG", "SCAS"} -> Cmpxchg(t, b, a)

\* What a store that faults leaves behind: the macros of arithmetic compute
\* flags and result before they store it, the others store first.
StoresLate == {"ADD", "ADC", "SUB", "SBB", "INC", "DEC", "NEG", "SHL", "SHR", "SAR",
               "SHRD", "SHLD", "BT", "CMPXCHG"}
Partial(op, a, b, size, t) ==
    IF op \notin StoresLate THEN t
    ELSE LET u == Exec(IF op = "INC" THEN "ADD" ELSE IF op = "DEC" THEN "SUB" ELSE op,
                       a, IF op \in Unary THEN 1 ELSE b, size, t).s
         IN [u EXCEPT !.zf_res = t.zf_res, !.sf_res = t.sf_res, !.pf_res = t.pf_res]
\* XADD has exchanged its register by then.
Source(op, a, b, faults) == IF faults /\ op = "XADD" THEN a ELSE b
-----------------------------------------------------------------------------
(* The processor's manual.                                                 *)
U == 2      \* undefined
ResultFlags(r) == [zf |-> Flag(r = 0), sf |-> Top(r), pf |-> Parity(r)]
F(cf, of, af, r) ==
    [cf |-> cf, of |-> of, af |-> af, zf |-> Flag(r = 0), sf |-> Top(r), pf |-> Parity(r)]
Low(x) == x % 2 ^ H

\* dst + src + c and dst - src - c.
Sum(dst, src, c) ==
    LET r == Word(dst + src + c) IN
    [val |-> r, x |-> F(Carry(dst + src + c), Over(Signed(dst) + Signed(src) + c),
                        Flag(Low(dst) + Low(src) + c >= 2 ^ H), r)]
Difference(dst, src, c) ==
    LET r == Word(dst - src - c) IN
    [val |-> r, x |-> F(Carry(dst - src - c), Over(Signed(dst) - Signed(src) - c),
                        Flag(Low(dst) - Low(src) - c < 0), r)]
Anded(r) == [val |-> r, x |-> F(0, 0, U, r)]
Product(p) == [val |-> Word(p), x |-> [F(Over(p), Over(p), U, 0) EXCEPT !.zf = U, !.sf = U, !.pf = U]]
Shifted(r, cf, of) == [val |-> r, x |-> F(cf, of, U, r)]
OnlyFor1(n, of) == IF n = 1 THEN of ELSE U

\* Every count is masked to five bits, whatever the size: as far as once, twice
\* and four times the operand.  A shift by the whole operand or more leaves the
\* carry undefined, a double shift by more leaves nothing defined.
Masked(b, size) == b % (Z * [full |-> 1, half |-> 2, byte |-> 4][size])
LastOut(v, i) == IF i \in 0 .. Z - 1 THEN Bit(v, i) ELSE U

Manual(op, a, b, size, x) ==
    LET n == Masked(b, size)
        k == n % Z
        Keeps(v) == [val |-> v, x |-> x]
        Rotated(r, cf, of) == [val |-> r, x |-> [x EXCEPT !.cf = cf, !.of = OnlyFor1(n, of)]]
    IN
    IF op \in Shifts /\ n = 0 THEN Keeps(a) ELSE
    CASE op \in {"ADD", "XADD"} -> Sum(a, b, 0)
      [] op = "ADC" -> Sum(a, b, x.cf)
      [] op = "SUB" -> Difference(a, b, 0)
      [] op = "SBB" -> Difference(a, b, x.cf)
      [] op \in {"CMP"} -> [Difference(a, b, 0) EXCEPT !.val = a]
      [] op \in {"CMPXCHG", "SCAS"} -> [Difference(b, a, 0) EXCEPT !.val = a]
      [] op = "INC" -> [Sum(a, 1, 0) EXCEPT !.x.cf = x.cf]
      [] op = "DEC" -> [Difference(a, 1, 0) EXCEPT !.x.cf = x.cf]
      [] op = "NEG" -> Difference(0, a, 0)
      [] op = "AND" -> Anded(a & b)
      [] op = "OR" -> Anded(a | b)
      [] op = "XOR" -> Anded(a ^^ b)
      [] op = "TEST" -> [Anded(a & b) EXCEPT !.val = a]
      [] op = "MUL" -> [Product(0) EXCEPT !.val = Word(a * b), !.x.cf = Flag(a * b >= M), !.x.of = Flag(a * b >= M)]
      [] op \in {"IMUL1", "IMUL2", "IMUL3"} -> Product(Signed(a) * Signed(b))
      [] op = "DIV" -> Keeps(IF b = 0 THEN -1 ELSE a \div b)
      [] op = "IDIV" -> Keeps(IF b = 0 THEN -1 ELSE Word(Quotient(Signed(a), Signed(b))))
      [] op = "ROL" -> LET r == (Left(a, k) + Right(a, Z - k)) % M
                       IN Rotated(r, Bit(r, 0), (Top(r) + Bit(r, 0)) % 2)
      [] op = "ROR" -> LET r == (Right(a, k) + Left(a, Z - k)) % M
                       IN Rotated(r, Top(r), (Top(r) + Bit(r, Z - 2)) % 2)
      [] op = "SHL" -> LET r == Word(Left(a, n))
                       IN Shifted(r, LastOut(a, Z - n), OnlyFor1(n, (Top(r) + Top(a)) % 2))
      [] op = "SHR" -> Shifted(Right(a, n), LastOut(a, n - 1), OnlyFor1(n, Top(a)))
      [] op = "SAR" -> Shifted(Word(Signed(a) \div 2 ^ n), Bit(Word(Signed(a) \div 2 ^ (n - 1)), 0),
                               OnlyFor1(n, 0))
      [] op \in {"SHRD", "SHLD"} /\ n > Z -> [val |-> -1, x |-> [f \in Flags |-> U]]
      [] op = "SHRD" -> LET r == (Right(a, n) + Left(Ones - a, Z - n)) % M
                        IN Shifted(r, Bit(a, n - 1), OnlyFor1(n, (Top(r) + Top(a)) % 2))
      [] op = "SHLD" -> LET r == (Left(a, n) + Right(Ones - a, Z - n)) % M
                        IN Shifted(r, Bit(a, Z - n), OnlyFor1(n, (Top(r) + Top(a)) % 2))
      [] op = "BT" -> [val |-> a, x |-> [x EXCEPT !.cf = Bit(a, b % Z), !.of = U, !.sf = U, !.af = U, !.pf = U]]
      [] op = "BSF" -> [val |-> IF b = 0 THEN -1 ELSE LowBit(b),
                        x |-> [f \in Flags |-> IF f = "zf" THEN Flag(b = 0) ELSE U]]
      [] op = "BSR" -> [val |-> IF b = 0 THEN -1 ELSE HighBit(b),
                        x |-> [f \in Flags |-> IF f = "zf" THEN Flag(b = 0) ELSE U]]

\* Where the code departs from the manual: flags, or "val" for the result.
\* The code takes counts modulo the operand, so that one of the operand or more
\* shifts too little, and one of exactly the operand sets no flag.
Differs(op, a, b, size, faults, x) ==
    LET n == Masked(b, size) IN
    CASE op \in {"ADC", "SBB"} ->
           IF x.cf = U \/ faults THEN Flags \cup {"val"}
           ELSE IF x.cf = 1 /\ b = Ones \div 2 THEN {"of"} ELSE {}
      [] op \in {"MUL", "IMUL1"} -> IF size = "full" THEN {} ELSE {"cf", "of"}
      [] op = "IDIV" -> IF Top(b) = 1 THEN {"val"} ELSE {}
      [] op \in {"INC", "DEC"} -> IF faults THEN {"cf"} ELSE {}
      [] op = "XADD" -> IF faults THEN Flags \cup {"val"} ELSE {}
      [] op \in {"CMPXCHG", "SCAS"} -> {"cf", "of", "sf", "af", "pf"}
      [] op \in {"ROL", "ROR"} ->
           (IF n > 0 /\ n % Z = 0 THEN {"cf"} ELSE {})
           \cup (IF op = "ROR" \/ size = "byte" THEN {"of"} ELSE {})
           \cup (IF op = "ROR" /\ size = "byte" THEN {"cf"} ELSE {})
      [] op \in {"SHL", "SHR", "SAR", "SHRD", "SHLD"} /\ n >= Z -> Flags \cup {"val"}
      [] op = "SHL" -> IF n = 1 THEN {"of"} ELSE IF n > 1 /\ size # "full" THEN {"cf", "of"} ELSE {}
      [] op \in {"SHRD", "SHLD"} ->
           (IF n > 0 /\ size # "full" THEN {"zf", "sf"} ELSE {})
           \cup (IF n > 0 /\ op = "SHLD" THEN {"cf"} ELSE {}) \cup (IF n > 0 THEN {"of"} ELSE {})
      [] op = "BSR" -> {"val"}
      [] OTHER -> {}
-----------------------------------------------------------------------------
NoFlags == [f \in Flags |-> 0]
Clear == [cf |-> 0, of |-> 0, zf |-> 0, sf |-> 0, pf |-> 0, af |-> 0, cf_bit |-> 0, of_bit |-> 0,
          zf_res |-> 0, sf_res |-> 0, pf_res |-> 0, af_ops |-> 0, res |-> 0, op1 |-> 0, op2 |-> 0]
Init == s = Clear /\ x86 = NoFlags /\ agrees = TRUE /\ steps = 0

\* An instruction; its store may fault once, and it is run again then.
Step(op, a, b, size, faults) ==
    LET src == Source(op, a, b, faults)
        r == Exec(op, a, src, size, IF faults THEN Partial(op, a, b, size, s) ELSE s)
        m == Manual(op, a, b, size, x86)
        d == Differs(op, a, b, size, faults, x86)
    IN /\ s' = r.s
       /\ x86' = [f \in Flags |-> IF f \in d THEN U ELSE m.x[f]]
       /\ agrees' = ("val" \in d \/ m.val = -1 \/ r.val = m.val)

Arithmetic ==
    \E size \in Sizes, a \in Values, b \in Values \cup Counts, faults \in BOOLEAN :
    \E op \in Widths[size] :
        /\ b \in IF op \in Unary THEN {1} ELSE IF op \in Shifts THEN Counts ELSE Values
        /\ faults => op \in StoresLate \cup {"XADD"}
        /\ Step(op, a, b, size, faults)

\* POPF and SAHF load any flags, from eflags or from AH; PUSHF stores them.
LoadFlags ==
    \E f \in [Flags -> 0 .. 1] :
        /\ agrees' = TRUE
        /\ \/ s' = Popf(s, f) /\ x86' = f
           \/ s' = Sahf(s, f) /\ x86' = [f EXCEPT !.of = U]
\* FUCOMI and FCOMI write zf without zf_res: after arithmetic it is not read.
CompareFloats ==
    \E z, c \in 0 .. 1 :
        /\ s' = [s EXCEPT !.zf = z, !.cf = c, !.pf = 0, !.pf_res = 0]
        /\ x86' = [cf |-> c, pf |-> 0, zf |-> IF s.zf_res = 1 THEN U ELSE z, of |-> U, sf |-> U, af |-> U]
        /\ agrees' = TRUE
StoreFlags == s' = CollapseFlags(s) /\ agrees' = TRUE /\ UNCHANGED x86

Next ==
    \/ steps < MaxOps /\ steps' = steps + 1 /\ (Arithmetic \/ LoadFlags \/ CompareFloats \/ StoreFlags)
    \/ steps = MaxOps /\ steps' = 0 /\ s' = Clear /\ x86' = NoFlags /\ agrees' = TRUE

Spec == Init /\ [][Next]_vars
-----------------------------------------------------------------------------
\* A flag read at any later time, by a conditional or by PUSHF, is the one
\* the processor would have, over every sequence of instructions and faults.
LazyFlagsExact == LET now == Read(s) IN \A f \in Flags : x86[f] # U => now[f] = x86[f]

\* An instruction has the processor's result, also when it is run again.
ResultsExact == agrees
=============================================================================
