------------------------------ MODULE MCMachine -----------------------------
(***************************************************************************)
(* An instance for TLC of waiting and of the machine: poll, epoll and      *)
(* eventfd, timers, futexes and the kernel log, and what an instruction    *)
(* does, from its bytes to its flags and floating point numbers.  They     *)
(* share no state: `part' is the one that takes steps, and the others stay *)
(* as they begin.                                                          *)
(***************************************************************************)
EXTENDS Futex, Timers, KernelLog, Polls, TLC

CONSTANTS Z, H, Operands, Counts, Sizes, MaxOps, Depths, Roundings, S, E, Exps, Modes

VARIABLES part,
          s, x86, agrees, steps,
          decoded, out,
          fp, top, rc, status, result, x87, fpuSteps,
          floatCall, res, int

aluVars == <<s, x86, agrees, steps>>
decodeVars == <<decoded, out>>
fpuVars == <<fp, top, rc, status, result, x87, fpuSteps>>
floatVars == <<floatCall, res, int>>
machineVars == <<part, pollVars, timerVars, vars, logVars, aluVars, decodeVars,
                 fpuVars, floatVars>>
-----------------------------------------------------------------------------
\* Two threads share a space, the third has one of its own.
SpaceOf == ("a" :> "p") @@ ("b" :> "p") @@ ("c" :> "q")

\* The operand size, the segment of threads, lock and the two repetitions,
\* alone and in pairs; one ModR/M of a register and one with a SIB byte.
Prefixes == {<< >>, <<\h66>>, <<\h65>>, <<\h66, \h65>>, <<\h65, \h66>>, <<\h66, \h66>>,
             <<\hF0>>, <<\h66, \hF0>>, <<\hF0, \h65>>, <<\hF0, \h66>>, <<\hF2>>,
             <<\hF3>>, <<\h66, \hF3>>, <<\hF3, \h65>>, <<\h67>>}
Modrms == {[mod |-> 3, rm |-> 1, base |-> 0, index |-> 4, shift |-> 0],
           [mod |-> 1, rm |-> 4, base |-> 5, index |-> 4, shift |-> 0]}

Arithmetic == INSTANCE Alu WITH Values <- Operands
Instruction == INSTANCE Decoder WITH call <- decoded
Stack == INSTANCE Fpu WITH steps <- fpuSteps, stored <- result
Float == INSTANCE Float80 WITH call <- floatCall
-----------------------------------------------------------------------------
(* Polls in three parts, for which TLC can do with few threads: two writers *)
(* and one that waits; two that wait and one worker, with an eventfd or with *)
(* a file of the host.  Making the pipe may fail in the last two.            *)
Polling == {"writers", "watchers", "hosts"}
PartsThreads == [writers |-> {"t1", "t2", "w1"}, watchers |-> {"t1", "w1", "w2"},
                 hosts |-> {"t1", "w1", "w2"}]
PartsFile == [writers |-> "e", watchers |-> "e", hosts |-> "h"]

\* Other threads stay out, and the threads of the part use its file only.
Poll(p) ==
    /\ PollsNext
    /\ \A t \in PollThreads \ PartsThreads[p] : doing'[t] = "idle"
    /\ posted' \subseteq PartsThreads[p]
    /\ \A t \in Workers : doing'[t] # "idle" => tgt'[t] = PartsFile[p]
    /\ hostReady' \subseteq {PartsFile[p]}
    /\ p = "writers" => ~leaked'

MachineInit ==
    /\ part \in Polling \cup {"timers", "futexes", "log", "alu", "decoder",
                              "fpu", "floats"}
    /\ PollsInit /\ TimerInit /\ Init /\ LogInit /\ Arithmetic!Init
    /\ Instruction!Init /\ Stack!Init /\ Float!Init
    /\ part # "fpu" => top = 0         \* one of the depths it may begin at

Only(p) ==
    /\ part = p /\ UNCHANGED part
    /\ IF p \in Polling THEN TRUE ELSE UNCHANGED pollVars
    /\ IF p = "timers" THEN TRUE ELSE UNCHANGED timerVars
    /\ IF p = "futexes" THEN TRUE ELSE UNCHANGED vars
    /\ IF p = "log" THEN TRUE ELSE UNCHANGED logVars
    /\ IF p = "alu" THEN TRUE ELSE UNCHANGED aluVars
    /\ IF p = "decoder" THEN TRUE ELSE UNCHANGED decodeVars
    /\ IF p = "fpu" THEN TRUE ELSE UNCHANGED fpuVars
    /\ IF p = "floats" THEN TRUE ELSE UNCHANGED floatVars

MachineNext ==
    \/ \E p \in Polling : Only(p) /\ Poll(p)
    \/ Only("timers") /\ TimerNext
    \/ Only("futexes") /\ Next
    \/ Only("log") /\ LogNext
    \/ Only("alu") /\ Arithmetic!Next
    \/ Only("decoder") /\ Instruction!Next
    \/ Only("fpu") /\ Stack!Next
    \/ Only("floats") /\ Float!Next

\* The threads of timers go on whenever they can, as in TimerFairness.
Fairness == \A i \in Ids : WF_timerVars(Only("timers") /\ ThreadStep(i))
MachineSpec == MachineInit /\ [][MachineNext]_machineVars /\ Fairness
-----------------------------------------------------------------------------
(* The properties of the components, each stated and explained in its      *)
(* module, put together by what they are about.                            *)


\* An instruction ends where the next begins, its prefixes, address and
\* condition are the manual's, and the stack of the FPU follows
\* (emu/decode.h, emu/modrm.h, emu/interp/fpu.h).
InstructionsExact ==
    /\ part = "decoder" =>
          /\ Instruction!NextInstruction /\ Instruction!PrefixesCount /\ Instruction!LockIsLegal
          /\ Instruction!AddressIsIntels /\ Instruction!ConditionsHold
    /\ part = "fpu" => Stack!StackIsX87 /\ Stack!OutcomesAreX87
=============================================================================
