------------------------------ MODULE Decoder -------------------------------
(***************************************************************************)
(* The instruction decoder: emu/decode.h, which is compiled once for each  *)
(* operand size, and emu/modrm.h.  An instruction is a sequence of         *)
(* prefixes, an opcode (of the map after 0f if `two'), and where it has    *)
(* one a ModR/M byte; the floating point opcodes are in Fpu.               *)
(***************************************************************************)
EXTENDS Integers, Sequences, FiniteSets

CONSTANTS Prefixes,    \* sequences of prefixes
          Modrms,      \* [mod, rm, base] of the instructions decoded
          Z            \* bits of the numbers compared

VARIABLES call,        \* what is decoded or computed, or << >>
          out          \* the outcome

vars == <<call, out>>
-----------------------------------------------------------------------------
(* Opcodes.  An instruction has a name, an operand width in bits, a number *)
(* of immediate bits, and perhaps a ModR/M operand, or only a memory one.  *)
Insn(name, modrm, width, imm) == [name |-> name, modrm |-> modrm, width |-> width, imm |-> imm]
Undefined == Insn("undefined", "none", 0, 0)
Arithmetic == <<"add", "or", "adc", "sbb", "and", "sub", "xor", "cmp">>
Shift == <<"rol", "ror", "rcl", "rcr", "shl", "shr", "shl", "sar">>
StringOf(op) == CASE op \in {\hA4, \hA5} -> "movs" [] op \in {\hA6, \hA7} -> "cmps"
                  [] op \in {\hAA, \hAB} -> "stos" [] op \in {\hAC, \hAD} -> "lods"
                  [] op \in {\hAE, \hAF} -> "scas"
Strings == (\hA4 .. \hA7) \cup (\hAA .. \hAF)
Width(op, z) == IF op % 2 = 0 THEN 8 ELSE z

\* A slip: TEST reads no immediate.
Grp3NoImm(op, reg, z) ==
    Insn(<<"test", "test", "not", "neg", "mul", "imul", "div", "idiv">>[reg + 1], "any", Width(op, z), 0)

\* GRP3 and GRP5, chosen by the reg field.
Grp3(op, reg, z) ==
    LET w == Width(op, z) IN
    CASE reg \in {0, 1} -> Insn("test", "any", w, w)
      [] reg \in 2 .. 7 -> Insn(<<"not", "neg", "mul", "imul", "div", "idiv">>[reg - 1], "any", w, 0)
Grp5(op, reg, z) ==
    IF reg \in {3, 5, 7} THEN Undefined
    ELSE Insn(<<"inc", "dec", "call", "", "jmp", "", "push">>[reg + 1], "any", Width(op, z), 0)
Grp2(op, reg, z) ==
    IF reg \in {2, 3} THEN Undefined
    ELSE Insn(Shift[reg + 1], "any", Width(op, z), IF op \in {\hC0, \hC1} THEN 8 ELSE 0)

MakeOp(op, z) ==
    LET w == Width(op, z) IN
    IF op % 8 < 4 THEN Insn(Arithmetic[op \div 8 + 1], "any", w, 0)
    ELSE Insn(Arithmetic[op \div 8 + 1], "none", w, w)

OneByteLow(op, z) ==
    CASE op < \h40 /\ op % 8 < 6 -> MakeOp(op, z)
      [] op \in \h40 .. \h5F -> Insn(<<"inc", "dec", "push", "pop">>[(op - \h40) \div 8 + 1], "none", z, 0)
      [] op = \h68 -> Insn("push", "none", z, z)
      [] op = \h69 -> Insn("imul", "any", z, z)
      [] op = \h6A -> Insn("push", "none", z, 8)
      [] op = \h6B -> Insn("imul", "any", z, 8)
      [] op \in \h70 .. \h7F -> Insn("jcc", "none", z, 8)
      [] OTHER -> Undefined

OneByteHigh(op, reg, z) ==
    LET w == Width(op, z) IN
    CASE op \in {\h80, \h83} -> Insn(Arithmetic[reg + 1], "any", w, 8)
      [] op = \h81 -> Insn(Arithmetic[reg + 1], "any", w, z)
      [] op \in {\h84, \h85} -> Insn("test", "any", w, 0)
      [] op \in {\h86, \h87} -> Insn("xchg", "any", w, 0)
      [] op \in \h88 .. \h8B -> Insn("mov", "any", w, 0)
      [] op \in {\h8C, \h8E} -> IF reg = 5 THEN Insn("mov", "any", 16, 0) ELSE Undefined
      [] op = \h8D -> Insn("lea", "memory", z, 0)
      [] op = \h8F -> Insn("pop", "any", z, 0)
      [] op \in {\h90, \h9B} -> Insn("nop", "none", 0, 0)
      [] op \in \h91 .. \h97 -> Insn("xchg", "none", z, 0)
      [] op \in {\h98, \h99} -> Insn("convert", "none", z, 0)
      [] op \in \h9C .. \h9E -> Insn(<<"pushf", "popf", "sahf">>[op - \h9B], "none", z, 0)
      [] op \in \hA0 .. \hA3 -> Insn("mov", "none", w, 32)
      [] op \in {\hA8, \hA9} -> Insn("test", "none", w, w)
      [] op \in Strings -> Insn(StringOf(op), "none", w, 0)
      [] op \in \hB0 .. \hB7 -> Insn("mov", "none", 8, 8)
      [] op \in \hB8 .. \hBF -> Insn("mov", "none", z, z)
      [] op \in {\hC0, \hC1} \cup (\hD0 .. \hD3) -> Grp2(op, reg, z)
      [] op = \hC2 -> Insn("ret", "none", 32, 16)
      [] op = \hC3 -> Insn("ret", "none", 32, 0)
      [] op = \hC6 -> Insn("mov", "any", 8, 8)
      [] op = \hC7 -> Insn("mov", "any", z, z)
      [] op = \hC9 -> Insn("leave", "none", z, 0)
      [] op = \hCD -> Insn("int", "none", 8, 8)
      [] op \in \hD8 .. \hDF -> Insn("fpu", "any", 0, 0)
      [] op \in {\hE3, \hEB} -> Insn("jump", "none", z, 8)
      [] op \in {\hE8, \hE9} -> Insn("jump", "none", z, z)
      [] op \in {\hF6, \hF7} -> Grp3(op, reg, z)
      [] op \in {\hFC, \hFD} -> Insn("df", "none", 0, 0)
      [] op \in {\hFE, \hFF} -> Grp5(op, reg, z)
      [] OTHER -> Undefined

TwoByteLow(op, z) ==
    CASE op \in \h18 .. \h1F -> Insn("nop", "any", 0, 0)
      [] op \in {\h28, \h29, \h57, \h76} -> Insn("sse", "any", 128, 0)
      [] op = \h31 -> Insn("rdtsc", "none", 32, 0)
      [] op \in \h40 .. \h4F -> Insn("cmov", "any", z, 0)
      [] op = \h73 -> Insn("sse", "any", 128, 8)
      [] op = \h7E /\ z = 16 -> Insn("sse", "any", 128, 0)
      [] op \in \h80 .. \h8F -> Insn("jcc", "none", z, z)
      [] op \in \h90 .. \h9F -> Insn("set", "any", 8, 0)
      [] OTHER -> Undefined

TwoByteHigh(op, reg, z) ==
    CASE op = \hA2 -> Insn("cpuid", "none", 32, 0)
      [] op \in {\hD4, \hD6} /\ z = 16 -> Insn("sse", "any", 128, 0)
      [] op \in {\hA3, \hAB, \hB3, \hBB} -> Insn(<<"bt", "bts", "btr", "btc">>[(op - \hA3) \div 8 + 1], "any", z, 0)
      [] op \in {\hA4, \hAC} -> Insn(IF op = \hA4 THEN "shld" ELSE "shrd", "any", z, 8)
      [] op \in {\hA5, \hAD} -> Insn(IF op = \hA5 THEN "shld" ELSE "shrd", "any", z, 0)
      [] op = \hAF -> Insn("imul", "any", z, 0)
      [] op = \hB1 -> Insn("cmpxchg", "any", z, 0)
      [] op \in {\hB6, \hB7, \hBE, \hBF} -> Insn("extend", "any", IF op % 2 = 0 THEN 8 ELSE 16, 0)
      [] op = \hBA -> IF reg < 4 THEN Undefined ELSE Insn(<<"bt", "bts", "btr", "btc">>[reg - 3], "any", z, 8)
      [] op \in {\hBC, \hBD} -> Insn("scan", "any", z, 0)
      [] op \in {\hC0, \hC1} -> Insn("xadd", "any", Width(op, z), 0)
      [] op \in \hC8 .. \hCF /\ z = 32 -> Insn("bswap", "none", 32, 0)
      [] op = \hFB -> Insn("sse", "any", 128, 0)
      [] OTHER -> Undefined

\* A slip: CMP is taken with a LOCK too.
LockCmp(two, op, reg, z) ==
    CASE ~ two /\ op < \h40 /\ op % 8 < 2 -> Insn(Arithmetic[op \div 8 + 1], "memory", Width(op, z), 0)
      [] OTHER -> Undefined

\* After f0: the macros without atomics, on memory only.  A two-byte opcode
\* that is not one of three is passed over, without its ModR/M byte.
Lock(two, op, reg, z) ==
    CASE ~ two /\ op < \h38 /\ op % 8 < 2 -> Insn(Arithmetic[op \div 8 + 1], "memory", Width(op, z), 0)
      [] ~ two /\ op \in {\h80, \h81, \h83} /\ reg # 7 ->
           Insn(Arithmetic[reg + 1], "memory", Width(op, z), IF op = \h81 THEN z ELSE 8)
      [] two /\ op = \hB1 -> Insn("cmpxchg", "memory", z, 0)
      [] two /\ op \in {\hC0, \hC1} -> Insn("xadd", "memory", Width(op, z), 0)
      [] two /\ op \notin {\hB1, \hC0, \hC1} -> Insn("passed over", "none", 0, 0)
      [] ~ two /\ op \in {\hFE, \hFF} /\ reg < 2 -> Insn(IF reg = 0 THEN "inc" ELSE "dec", "memory", Width(op, z), 0)
      [] OTHER -> Undefined

RepF2(two, op, z) ==
    CASE two /\ op = \h2C -> Insn("sse", "memory", 32, 0)
      [] two /\ op \in \h18 .. \h1F -> Insn("nop", "any", 0, 0)
      [] ~ two /\ op \in {\hA6, \hA7, \hAE, \hAF} -> Insn(StringOf(op), "none", Width(op, z), 0)
      [] OTHER -> Undefined
RepF3(two, op, z) ==
    CASE two /\ op = \h7E -> Insn("sse", "any", 128, 0)
      [] two /\ op \in \h18 .. \h1F -> Insn("nop", "any", 0, 0)
      [] two /\ op \in {\hBC, \hBD} -> Insn("scan", "any", z, 0)
      [] ~ two /\ op = \h90 -> Insn("nop", "none", 0, 0)
      [] ~ two /\ op \in Strings -> Insn(StringOf(op), "none", Width(op, z), 0)
      [] ~ two /\ op = \hC3 -> Insn("ret", "none", 32, 0)
      [] OTHER -> Undefined
-----------------------------------------------------------------------------
(* Prefixes.  66 calls the decoder of the other size, which has locals of  *)
(* its own: the eip to go back to and the address.                         *)
Begin == [size |-> 32, saved |-> 0, gs |-> FALSE, mode |-> "plain"]
\* A slip: the segment prefix stays in force after a size prefix.
PrefixKeepingSegment(st, p, i) ==
    CASE st.mode = "plain" /\ p = \h66 -> [st EXCEPT !.size = 48 - @, !.saved = i]
      [] st.mode \in {"plain", "lock"} /\ p = \h65 -> [st EXCEPT !.gs = TRUE]
      [] st.mode = "plain" /\ p \in {\h2E, \h67} -> st
      [] OTHER -> [st EXCEPT !.mode = "undefined"]

Prefix(st, p, i) ==
    CASE st.mode = "plain" /\ p = \h66 ->
           [st EXCEPT !.size = 48 - @, !.saved = i, !.gs = FALSE]
      [] st.mode \in {"plain", "lock"} /\ p = \h65 -> [st EXCEPT !.gs = TRUE]
      [] st.mode = "plain" /\ p \in {\h2E, \h67} -> st
      [] st.mode = "plain" /\ p = \hF0 -> [st EXCEPT !.mode = "lock"]
      [] st.mode = "plain" /\ p = \hF2 -> [st EXCEPT !.mode = "repnz"]
      [] st.mode = "plain" /\ p = \hF3 -> [st EXCEPT !.mode = "rep"]
      [] OTHER -> [st EXCEPT !.mode = "undefined"]
AfterPrefixes(ps) ==
    LET after[i \in 0 .. Len(ps)] == IF i = 0 THEN Begin ELSE Prefix(after[i - 1], ps[i], i)
    IN after[Len(ps)]

NoRegister == 8        \* reg_none

\* A slip: a SIB byte without a base is read as one with EBP.
ModrmDecodeSib(m) ==
    LET sib == m.mod # 3 /\ m.rm = 4
        disp32 == m.mod = 0 /\ m.rm = 5
        index == sib /\ m.index # 4
    IN [base |-> IF disp32 THEN NoRegister ELSE IF sib THEN m.base ELSE m.rm,
        index |-> IF index THEN m.index ELSE NoRegister, shift |-> IF index THEN m.shift ELSE 0,
        len |-> 1 + (IF sib THEN 1 ELSE 0)
                  + (IF m.mod = 1 THEN 1 ELSE IF m.mod = 2 \/ disp32 THEN 4 ELSE 0)]

\* Bytes of a ModR/M operand, with its SIB byte and displacement.
ModrmDecode(m) ==
    LET sib == m.mod # 3 /\ m.rm = 4
        base == IF sib THEN m.base ELSE m.rm
        disp32 == m.mod = 0 /\ base = 5
        index == sib /\ m.index # 4
    IN [base |-> IF m.mod # 3 /\ disp32 THEN NoRegister ELSE base,
        index |-> IF index THEN m.index ELSE NoRegister, shift |-> IF index THEN m.shift ELSE 0,
        len |-> 1 + (IF sib THEN 1 ELSE 0)
                  + (IF m.mod = 1 THEN 1 ELSE IF m.mod = 2 \/ disp32 THEN 4 ELSE 0)]

Decode(ps, two, op, reg, m) ==
    LET st == AfterPrefixes(ps)
        insn == CASE st.mode = "plain" ->
                       (IF two /\ op < \hA0 THEN TwoByteLow(op, st.size)
                        ELSE IF two THEN TwoByteHigh(op, reg, st.size)
                        ELSE IF op < \h80 THEN OneByteLow(op, st.size) ELSE OneByteHigh(op, reg, st.size))
                  [] st.mode = "lock" -> Lock(two, op, reg, st.size)
                  [] st.mode = "repnz" -> RepF2(two, op, st.size)
                  [] st.mode = "rep" -> RepF3(two, op, st.size)
                  [] st.mode = "undefined" -> Undefined
        runs == insn.name # "undefined" /\ (insn.modrm = "memory" => m.mod # 3)
        length == Len(ps) + (IF two THEN 2 ELSE 1) + insn.imm \div 8
                  + (IF insn.modrm = "none" THEN 0 ELSE ModrmDecode(m).len)
    IN [runs |-> runs, name |-> insn.name, width |-> insn.width, gs |-> st.gs, size |-> st.size,
        restart |-> st.saved, next |-> IF runs THEN length ELSE st.saved]
-----------------------------------------------------------------------------
(* Conditions, of the flags that a comparison of a with b leaves.          *)
M == 2 ^ Z
Signed(x) == IF x >= M \div 2 THEN x - M ELSE x
CompareFlags(a, b) ==
    LET d == (a - b) % M IN
    [cf |-> a < b, zf |-> d = 0, sf |-> d >= M \div 2,
     of |-> Signed(a) - Signed(b) \notin - (M \div 2) .. (M \div 2) - 1]
\* A slip: LE leaves the equal ones out.
ConditionLe(cc, f) ==
    LET c == cc \div 2
        taken == CASE c = 0 -> f.of [] c = 1 -> f.cf [] c = 2 -> f.zf [] c = 3 -> f.cf \/ f.zf
                   [] c = 4 -> f.sf [] c \in {6, 7} -> f.sf # f.of
    IN IF cc % 2 = 0 THEN taken ELSE ~ taken

\* O, B, E, BE, S, P, L, LE by the opcode's condition, every other negated
\* (P and its negation are left out).
Condition(cc, f) ==
    LET c == cc \div 2
        taken == CASE c = 0 -> f.of [] c = 1 -> f.cf [] c = 2 -> f.zf [] c = 3 -> f.cf \/ f.zf
                   [] c = 4 -> f.sf [] c = 6 -> f.sf # f.of [] c = 7 -> (f.sf # f.of) \/ f.zf
    IN IF cc % 2 = 0 THEN taken ELSE ~ taken
-----------------------------------------------------------------------------
Nothing == [runs |-> FALSE]
Init == call = << >> /\ out = Nothing

\* The manual's opcodes with a ModR/M byte.
HasModrm(two, op) ==
    IF two THEN op \notin {\h31, \hA2} \cup (\h80 .. \h8F) \cup (\hC8 .. \hCF)
    ELSE \/ op < \h40 /\ op % 8 < 4
         \/ op \in {\h69, \h6B, \hC0, \hC1, \hC6, \hC7, \hF6, \hF7, \hFE, \hFF}
                   \cup (\h80 .. \h8F) \cup (\hD0 .. \hD3) \cup (\hD8 .. \hDF)
Opcodes == (0 .. 255) \ {\h0F, \h2E, \h65, \h66, \h67, \hF0, \hF2, \hF3}

DecodeInsn ==
    \E ps \in Prefixes, two \in BOOLEAN, op \in Opcodes, reg \in 0 .. 7, m \in Modrms :
        /\ HasModrm(two, op) \/ (reg = 0 /\ m = CHOOSE n \in Modrms : TRUE)
        /\ call' = [what |-> "insn", ps |-> ps, two |-> two, op |-> op, reg |-> reg, m |-> m]
        /\ out' = Decode(ps, two, op, reg, m)
ReadModrm ==
    \E m \in [mod : 0 .. 2, rm : 0 .. 7, base : 0 .. 7, index : 0 .. 7, shift : 0 .. 3] :
        /\ call' = [what |-> "modrm", m |-> m]
        /\ out' = ModrmDecode(m)
Test ==
    \E cc \in (0 .. 15) \ {10, 11}, a, b \in 0 .. M - 1 :
        /\ call' = [what |-> "test", cc |-> cc, a |-> a, b |-> b]
        /\ out' = [holds |-> Condition(cc, CompareFlags(a, b))]
Finish == call # << >> /\ call' = << >> /\ out' = Nothing

Next == \/ call = << >> /\ (DecodeInsn \/ ReadModrm \/ Test)
        \/ Finish
Spec == Init /\ [][Next]_vars
-----------------------------------------------------------------------------
(* The manual.                                                             *)
Has(ps, p) == \E i \in DOMAIN ps : ps[i] = p
Last(ps, p) == IF Has(ps, p) THEN CHOOSE i \in DOMAIN ps : ps[i] = p /\ \A j \in DOMAIN ps : ps[j] = p => j <= i ELSE 0
Ran == call # << >> /\ call.what = "insn" /\ out.runs

ImmBytes(two, op, reg, z) ==
    CASE two -> (IF op \in \h80 .. \h8F THEN z \div 8 ELSE IF op \in {\h73, \hA4, \hAC, \hBA} THEN 1 ELSE 0)
      [] ~ two /\ (\/ op < \h40 /\ op % 8 = 5
                   \/ op \in {\h68, \h69, \h81, \hA9, \hC7, \hE8, \hE9} \cup (\hB8 .. \hBF)
                   \/ op = \hF7 /\ reg < 2) -> z \div 8
      [] ~ two /\ (\/ op < \h40 /\ op % 8 = 4
                   \/ op \in {\h6A, \h6B, \h80, \h83, \hA8, \hC0, \hC1, \hC6, \hCD, \hE3, \hEB}
                             \cup (\h70 .. \h7F) \cup (\hB0 .. \hB7)
                   \/ op = \hF6 /\ reg < 2) -> 1
      [] ~ two /\ op \in \hA0 .. \hA3 -> 4
      [] ~ two /\ op = \hC2 -> 2
      [] OTHER -> 0
ModrmBytes(m) ==
    CASE m.mod = 3 -> 1
      [] m.mod = 0 -> (IF m.rm = 5 THEN 5 ELSE IF m.rm = 4 THEN (IF m.base = 5 THEN 6 ELSE 2) ELSE 1)
      [] m.mod = 1 -> (IF m.rm = 4 THEN 3 ELSE 2)
      [] m.mod = 2 -> (IF m.rm = 4 THEN 6 ELSE 5)

\* The instruction pointer after an instruction is past all its bytes, for
\* every opcode, operand size and addressing form; but a locked two-byte
\* opcode that is not one of three is left in the middle.
NextInstruction ==
    Ran /\ out.name # "passed over" =>
        out.next = Len(call.ps) + (IF call.two THEN 2 ELSE 1) + ImmBytes(call.two, call.op, call.reg, out.size)
                   + (IF HasModrm(call.two, call.op) THEN ModrmBytes(call.m) ELSE 0)

\* A prefix counts wherever it stands, and a fault or an undefined opcode
\* goes back to the first byte.  The operand size prefix is the exception: a
\* second one takes the first back, a segment before it is forgotten, and
\* it is not run again after a fault.
PrefixesCount ==
    call # << >> /\ call.what = "insn" =>
        LET last == Last(call.ps, \h66) IN
        /\ out.runs => out.restart = last
        /\ ~ out.runs => out.next = out.restart /\ out.restart \in {0, last}
        /\ out.runs => out.gs = Has(SubSeq(call.ps, last + 1, Len(call.ps)), \h65)
        /\ out.runs /\ Cardinality({i \in DOMAIN call.ps : call.ps[i] = \h66}) < 2 =>
               out.size = (IF Has(call.ps, \h66) THEN 16 ELSE 32)

\* With a LOCK prefix an instruction runs only where the manual allows one,
\* on memory, and is the one it is without; or it is passed over.
LockIsLegal ==
    Ran /\ Has(call.ps, \hF0) /\ out.name # "passed over" =>
        LET plain == Decode(SelectSeq(call.ps, LAMBDA p : p # \hF0), call.two, call.op, call.reg, call.m) IN
        /\ call.m.mod # 3 /\ HasModrm(call.two, call.op)
        /\ out.name \in {"add", "or", "adc", "sbb", "and", "sub", "xor", "inc", "dec", "cmpxchg", "xadd"}
        /\ plain.runs /\ plain.name = out.name /\ plain.width = out.width /\ plain.next + 1 = out.next

\* An address has the registers and the displacement the manual gives it.
AddressIsIntels ==
    call # << >> /\ call.what = "modrm" =>
        LET m == call.m
            displaced == m.mod = 0 /\ (m.rm = 5 \/ (m.rm = 4 /\ m.base = 5))
        IN /\ out.len = ModrmBytes(m)
           /\ out.base = (IF displaced THEN NoRegister ELSE IF m.rm = 4 THEN m.base ELSE m.rm)
           /\ (out.index # NoRegister) = (m.rm = 4 /\ m.index # 4)
           /\ out.index # NoRegister => out.index = m.index /\ out.shift = m.shift

\* After a comparison a conditional is taken when the relation it is named
\* for holds, of the signed or of the unsigned numbers.
ConditionsHold ==
    call # << >> /\ call.what = "test" =>
        LET a == call.a
            b == call.b
            sa == Signed(a)
            sb == Signed(b)
            c == call.cc
        IN /\ c = 2 => out.holds = (a < b)
           /\ c = 3 => out.holds = (a >= b)
           /\ c = 4 => out.holds = (a = b)
           /\ c = 5 => out.holds = (a # b)
           /\ c = 6 => out.holds = (a <= b)
           /\ c = 7 => out.holds = (a > b)
           /\ c = 12 => out.holds = (sa < sb)
           /\ c = 13 => out.holds = (sa >= sb)
           /\ c = 14 => out.holds = (sa <= sb)
           /\ c = 15 => out.holds = (sa > sb)
=============================================================================
