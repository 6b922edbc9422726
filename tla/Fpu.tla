-------------------------------- MODULE Fpu ---------------------------------
(***************************************************************************)
(* The floating point instructions: opcodes d8 to df of emu/decode.h and   *)
(* the macros of emu/interp/fpu.h on the registers of struct cpu_state,    *)
(* whose values are terms here (Float80 has the arithmetic itself).        *)
(* `x87' is the processor of the manual after the same instructions.       *)
(***************************************************************************)
EXTENDS Integers, Sequences

CONSTANTS Depths,      \* numbers of registers in use at first
          Roundings,   \* values of the rounding control, 0 is to nearest
          MaxOps       \* instructions run in a row

VARIABLES fp,       \* cpu->fp
          top,      \* cpu->top
          rc,       \* cpu->rc
          status,   \* what c0, c2, c3 or zf, cf compare, of the last comparison
          stored,   \* what the last store wrote to memory or to ax
          x87,      \* [st, rc, status, stored, known]: the processor of the manual
          steps

vars == <<fp, top, rc, status, stored, x87, steps>>

ST(i) == fp[top + i]
Nearest == 0
\* dst `op' src, the operands in the order of the subtraction or division.
Compute(op, dst, src) ==
    CASE op \in {"add", "mul", "sub", "div"} -> <<op, dst, src>>
      [] op = "subr" -> <<"sub", src, dst>>
      [] op = "divr" -> <<"div", src, dst>>
-----------------------------------------------------------------------------
(* The decoder's tables: what is done, with which operands, and how many   *)
(* registers are popped.                                                   *)
Undefined == [do |-> "undefined", pops |-> 0]
Arith(op, dst, src, pops) == [do |-> "arith", op |-> op, dst |-> dst, src |-> src, pops |-> pops]
Compare(src, pops) == [do |-> "compare", src |-> src, pops |-> pops]
CompareI(pops) == [do |-> "comparei", pops |-> pops]
Load(src) == [do |-> "load", src |-> src, pops |-> 0]
Store(as, pops) == [do |-> "store", as |-> as, pops |-> pops]
Simple(what) == [do |-> what, pops |-> 0]

\* The memory operand of an opcode: a float or, with "i", an integer.
Memory(size) == <<"memory", size>>
Register(i) == <<"st", i>>
FloatSize(insn) == IF insn \in {\hD8, \hD9} THEN "32" ELSE "64"
IntSize(insn) == IF insn \in {\hDA, \hDB} THEN "i32" ELSE "i16"
Operation(reg) == CASE reg = 0 -> "add" [] reg = 1 -> "mul" [] reg = 4 -> "sub"
                    [] reg = 5 -> "subr" [] reg = 6 -> "div" [] reg = 7 -> "divr"

MemForm(insn, reg) ==
    CASE insn \in {\hD8, \hDC} /\ reg \in {2, 3} -> Compare(Memory(FloatSize(insn)), reg - 2)
      [] insn \in {\hD8, \hDC} /\ reg \notin {2, 3} -> Arith(Operation(reg), 0, Memory(FloatSize(insn)), 0)
      [] \/ insn = \hDA /\ reg \notin {2, 3}
         \/ insn = \hDE /\ reg \in {1, 6, 7} -> Arith(Operation(reg), 0, Memory(IntSize(insn)), 0)
      [] insn \in {\hD9, \hDD} /\ reg = 0 -> Load(Memory(FloatSize(insn)))
      [] insn \in {\hD9, \hDD} /\ reg \in {2, 3} -> Store(FloatSize(insn), reg - 2)
      [] insn = \hD9 /\ reg = 5 -> Simple("ldcw")
      [] insn = \hD9 /\ reg = 7 -> Simple("stcw")
      [] insn \in {\hDB, \hDF} /\ reg = 0 -> Load(Memory(IntSize(insn)))
      [] \/ insn = \hDB /\ reg \in {2, 3}
         \/ insn = \hDF /\ reg = 3 -> Store(IntSize(insn), reg - 2)
      [] insn = \hDB /\ reg = 5 -> Load(Memory("80"))
      [] insn = \hDB /\ reg = 7 -> Store("80", 1)
      [] insn = \hDF /\ reg = 5 -> Load(Memory("i64"))
      [] insn = \hDF /\ reg = 7 -> Store("i64", 1)
      [] OTHER -> Undefined

\* A slip: the result goes to the source.
FopBackwards(op, src, dst, pops) == Arith(op, src, Register(dst), pops)

\* FSUB(src, dst) and its like take the source first.
Fop(op, src, dst, pops) == Arith(op, dst, Register(src), pops)
RegForm(insn, reg, i) ==
    LET pops == IF insn = \hDE THEN 1 ELSE 0 IN
    CASE insn = \hD8 /\ reg \in {2, 3} -> Compare(Register(i), reg - 2)
      [] insn = \hD8 /\ reg \notin {2, 3} -> Fop(Operation(reg), i, 0, 0)
      [] insn \in {\hDC, \hDE} /\ reg = 0 -> Fop("add", 0, i, pops)
      [] insn \in {\hDC, \hDE} /\ reg = 1 -> Fop("mul", 0, i, pops)
      [] insn \in {\hDC, \hDE} /\ reg = 4 -> Fop("subr", 0, i, pops)
      [] insn \in {\hDC, \hDE} /\ reg = 5 -> Fop("sub", 0, i, pops)
      [] insn \in {\hDC, \hDE} /\ reg = 6 -> Fop("divr", 0, i, pops)
      [] insn \in {\hDC, \hDE} /\ reg = 7 -> Fop("div", 0, i, pops)
      [] insn = \hD9 /\ reg = 0 -> Load(Register(i))
      [] insn = \hD9 /\ reg = 1 -> Simple("xch")
      [] insn = \hDB /\ reg \in {5, 6} -> CompareI(0)
      [] insn = \hDF /\ reg = 5 -> CompareI(1)
      [] insn = \hDD /\ reg = 3 -> [do |-> "st", pops |-> 1]
      [] insn = \hDD /\ reg \in {4, 5} -> Compare(Register(i), reg - 4)
      [] insn = \hDA /\ reg = 5 -> Compare(Register(i), 2)
      [] insn = \hD9 /\ reg = 4 /\ i \in {0, 4} -> Simple("chs")
      [] insn = \hD9 /\ reg = 4 /\ i = 1 -> Simple("abs")
      [] insn = \hD9 /\ reg = 5 /\ i \in 0 .. 6 -> Load(Memory("constant"))
      [] insn = \hD9 /\ reg = 6 /\ i = 3 -> [do |-> "patan", pops |-> 1]
      [] insn = \hD9 /\ reg = 7 /\ i = 0 -> Simple("prem")
      [] insn = \hDE /\ reg = 3 /\ i = 1 -> Compare(Register(1), 2)
      [] insn = \hDF /\ reg = 4 /\ i = 0 -> Simple("stsw")
      [] OTHER -> Undefined        \* also fyl2x, f2xm1, fsqrt, frndint, fscale, fxam
-----------------------------------------------------------------------------
(* The macros.  ST is not taken modulo 8.                                  *)
Src(s) == IF s[1] = "st" THEN ST(s[2]) ELSE s
Touches(d, i) ==      \* the registers named
    LET at(s) == IF s[1] = "st" THEN {s[2]} ELSE {} IN
    CASE d.do = "arith" -> {0, d.dst} \cup at(d.src)
      [] d.do = "compare" -> {0} \cup at(d.src)
      [] d.do = "load" -> at(d.src)
      [] d.do \in {"comparei", "xch", "st"} -> {0, i}
      [] d.do \in {"patan", "prem"} -> {0, 1}
      [] d.do \in {"store", "chs", "abs"} -> {0}
      [] OTHER -> {}

Set(i, v) == fp' = [fp EXCEPT ![top + i] = v]
\* A slip: FCOM compares with the register after the pop.
ExecComparingLate(d, i, word) ==
    /\ top' = IF d.do = "load" THEN (top + 7) % 8 ELSE (top + d.pops) % 8
    /\ CASE d.do = "load" -> fp' = [fp EXCEPT ![(top + 7) % 8] = Src(d.src)]
         [] d.do \in {"chs", "abs"} -> Set(0, <<d.do, ST(0)>>)
         [] OTHER -> fp' = fp
    /\ rc' = IF d.do = "ldcw" THEN word ELSE rc
    /\ status' = IF d.do = "compare" THEN <<fp[(top + d.pops) % 8], Src(d.src)>> ELSE status
    /\ stored' = IF d.do = "store" THEN <<d.as, ST(0), Nearest>> ELSE stored

Exec(d, i, word) ==
    LET pushed == (top + 7) % 8 IN
    /\ top' = IF d.do = "load" THEN pushed ELSE (top + d.pops) % 8
    /\ CASE d.do = "arith" -> Set(d.dst, Compute(d.op, ST(d.dst), Src(d.src)))
         [] d.do = "load" -> fp' = [fp EXCEPT ![pushed] = Src(d.src)]
         [] d.do = "xch" -> fp' = [fp EXCEPT ![top] = ST(i), ![top + i] = ST(0)]
         [] d.do = "st" -> Set(i, ST(0))
         [] d.do \in {"chs", "abs"} -> Set(0, <<d.do, ST(0)>>)
         [] d.do = "prem" -> Set(0, <<"prem", ST(0), ST(1)>>)
         [] d.do = "patan" -> Set(1, <<"patan", ST(1), ST(0)>>)
         [] OTHER -> fp' = fp
    /\ rc' = IF d.do = "ldcw" THEN word ELSE rc
    /\ status' = CASE d.do = "compare" -> <<ST(0), Src(d.src)>>
                   [] d.do = "comparei" -> <<ST(0), ST(i)>>
                   [] OTHER -> status
    \* f80_rounding_mode is never set from the control word.
    /\ stored' = CASE d.do = "store" -> <<d.as, ST(0), Nearest>>
                   [] d.do = "stcw" -> <<"cw", rc>>
                   [] d.do = "stsw" -> <<"sw", top, status>>
                   [] OTHER -> stored
-----------------------------------------------------------------------------
(* The manual: the two bits above the lowest of an escape opcode give the  *)
(* format of a memory operand, and an even opcode is arithmetic.           *)
Format(insn) == CASE (insn \div 2) % 4 = 0 -> "32" [] (insn \div 2) % 4 = 1 -> "i32"
                  [] (insn \div 2) % 4 = 2 -> "64" [] (insn \div 2) % 4 = 3 -> "i16"
Names == <<"add", "mul", "com", "comp", "sub", "subr", "div", "divr">>
Reversed(reg) == Names[(IF reg \in {4, 6} THEN reg + 1 ELSE IF reg \in {5, 7} THEN reg - 1 ELSE reg) + 1]

\* A stack without its first k registers, and with register i replaced.
Popped(s, k) == SubSeq(s, k + 1, Len(s))
Put(s, i, v) == [s EXCEPT ![i + 1] = v]
X87(x, insn, mem, reg, i, word) ==
    LET s == x.st
        operand == IF mem THEN Memory(Format(insn)) ELSE s[i + 1]
        even == insn % 2 = 0
        store(as, pops) == [x EXCEPT !.stored = <<as, s[1], x.rc>>, !.st = Popped(s, pops)]
        push(v) == [x EXCEPT !.st = <<v>> \o s]
        compare(v, pops) == [x EXCEPT !.status = <<s[1], v>>, !.st = Popped(s, pops)]
    IN
    CASE even /\ reg \in {2, 3} /\ (mem \/ insn = \hD8) -> compare(operand, reg - 2)
      [] even /\ mem /\ reg \notin {2, 3} -> [x EXCEPT !.st = Put(s, 0, Compute(Names[reg + 1], s[1], operand))]
      [] insn = \hD8 /\ ~ mem /\ reg \notin {2, 3} ->
           [x EXCEPT !.st = Put(s, 0, Compute(Names[reg + 1], s[1], operand))]
      [] insn \in {\hDC, \hDE} /\ ~ mem /\ reg \notin {2, 3} ->
           [x EXCEPT !.st = Popped(Put(s, i, Compute(Reversed(reg), operand, s[1])), (insn \div 2) % 2)]
      [] insn = \hDE /\ ~ mem /\ reg = 3 -> compare(s[2], 2)
      [] insn = \hDA /\ ~ mem /\ reg = 5 -> compare(s[i + 1], 2)
      [] ~ even /\ mem /\ reg = 0 -> push(Memory(Format(insn)))
      [] ~ even /\ mem /\ reg \in {2, 3} -> store(Format(insn), reg - 2)
      [] insn = \hDB /\ mem /\ reg = 5 -> push(Memory("80"))
      [] insn = \hDB /\ mem /\ reg = 7 -> store("80", 1)
      [] insn = \hDF /\ mem /\ reg = 5 -> push(Memory("i64"))
      [] insn = \hDF /\ mem /\ reg = 7 -> store("i64", 1)
      [] insn = \hD9 /\ mem /\ reg = 5 -> [x EXCEPT !.rc = word]
      [] insn = \hD9 /\ mem /\ reg = 7 -> [x EXCEPT !.stored = <<"cw", x.rc>>]
      [] insn = \hD9 /\ ~ mem /\ reg = 0 -> push(operand)
      [] insn = \hD9 /\ ~ mem /\ reg = 1 -> [x EXCEPT !.st = Put(Put(s, 0, operand), i, s[1])]
      [] insn = \hD9 /\ ~ mem /\ reg = 4 /\ i = 0 -> [x EXCEPT !.st = Put(s, 0, <<"chs", s[1]>>)]
      [] insn = \hD9 /\ ~ mem /\ reg = 4 /\ i = 1 -> [x EXCEPT !.st = Put(s, 0, <<"abs", s[1]>>)]
      [] insn = \hD9 /\ ~ mem /\ reg = 4 /\ i = 4 -> compare(Memory("constant"), 0)
      [] insn = \hD9 /\ ~ mem /\ reg = 5 -> push(Memory("constant"))
      [] insn = \hD9 /\ ~ mem /\ reg = 6 -> [x EXCEPT !.st = Popped(Put(s, 1, <<"patan", s[2], s[1]>>), 1)]
      [] insn = \hD9 /\ ~ mem /\ reg = 7 -> [x EXCEPT !.st = Put(s, 0, <<"prem", s[1], s[2]>>)]
      [] insn \in {\hDB, \hDF} /\ ~ mem /\ reg \in {5, 6} -> compare(operand, IF insn = \hDF THEN 1 ELSE 0)
      [] insn = \hDD /\ ~ mem /\ reg = 3 -> [x EXCEPT !.st = Popped(Put(s, i, s[1]), 1)]
      [] insn = \hDD /\ ~ mem /\ reg \in {4, 5} -> compare(operand, reg - 4)
      [] insn = \hDF /\ ~ mem /\ reg = 4 -> [x EXCEPT !.stored = <<"sw", (8 - Len(s)) % 8, x.status>>]

\* Encodings of which the code makes another instruction: FTST changes the
\* sign, and FUCOMPP is recognised whatever its last three bits.
Wrong(insn, mem, reg, i) ==
    ~ mem /\ (\/ insn = \hD9 /\ reg = 4 /\ i = 4
              \/ insn = \hDA /\ reg = 5 /\ i # 1)
-----------------------------------------------------------------------------
Init ==
    \E d \in Depths :
        /\ top = (8 - d) % 8
        /\ fp = [k \in 0 .. 7 |-> <<"r", k>>]
        /\ rc = Nearest /\ status = << >> /\ stored = << >> /\ steps = 0
        /\ x87 = [st |-> [k \in 1 .. d |-> <<"r", 8 - d + k - 1>>], rc |-> Nearest,
                  status |-> << >>, stored |-> << >>]

\* An instruction of a program that keeps to the registers it has filled.
Run(insn, mem, reg, i, word) ==
    LET d == IF mem THEN MemForm(insn, reg) ELSE RegForm(insn, reg, i) IN
    /\ d.do # "undefined"       \* SIGILL, with nothing changed
    /\ ~ Wrong(insn, mem, reg, i)
    /\ \A r \in Touches(d, i) : r < Len(x87.st)
    /\ d.pops <= Len(x87.st)
    /\ d.do = "load" => Len(x87.st) < 8
    /\ d.do # "ldcw" => word = Nearest
    /\ Exec(d, i, word)
    /\ x87' = X87(x87, insn, mem, reg, i, word)
    /\ steps' = steps + 1

Next ==
    \/ /\ steps < MaxOps
       /\ \E insn \in \hD8 .. \hDF, mem \in BOOLEAN, reg \in 0 .. 7, i \in 0 .. 7, word \in Roundings :
            (mem => i = 0) /\ Run(insn, mem, reg, i, word)
    \/ steps = MaxOps /\ UNCHANGED vars

Spec == Init /\ [][Next]_vars
-----------------------------------------------------------------------------
\* The registers from the top on are the processor's stack, whatever was
\* pushed, exchanged and popped before.
StackIsX87 ==
    /\ top = (8 - Len(x87.st)) % 8
    /\ Len(x87.st) > 0 => \A k \in 1 .. Len(x87.st) : fp[top + k - 1] = x87.st[k]

\* A comparison leaves the flags of the operands the manual names, and a
\* store writes what it would write; but a number is stored as if the
\* rounding control were "to nearest", whatever FLDCW loaded.
OutcomesAreX87 ==
    /\ status = x87.status /\ rc = x87.rc
    /\ IF stored # << >> /\ Len(stored) = 3 /\ stored[1] # "sw"
       THEN x87.stored[1] = stored[1] /\ x87.stored[2] = stored[2] /\ stored[3] = Nearest
       ELSE stored = x87.stored
=============================================================================
