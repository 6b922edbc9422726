-------------------------------- MODULE Exec --------------------------------
(***************************************************************************)
(* execve: kernel/exec.c.  A file is run as an ELF image, and if it is not *)
(* one as a script; an image may name an interpreter of its own.  Three    *)
(* files take part: prog, the one executed, sh, the interpreter of a       *)
(* script, and ld, the interpreter of an image.  What exec does to page    *)
(* tables is in Memory, to descriptors in FdTables, to a vfork parent in   *)
(* ProcTree.                                                               *)
(***************************************************************************)
EXTENDS Integers, Sequences, FiniteSets, SequencesExt

CONSTANTS Args,       \* lists of arguments the guest passes
          Envs,       \* environments
          MaxArgs,    \* MAX_ARGS
          StrLen,     \* strlen of each string
          Page        \* bytes of a page

VARIABLES pc,
          kind,       \* kind[f]: what the file is
          cur,        \* the file that is loaded as an image
          given,      \* argv of the call
          argv, envp, \* as they are handed to the image
          mem,        \* what current->mem holds
          held,       \* locks less unlocks of the new memory's lock, for writing
          open,       \* files exec has opened and not closed
          stack,      \* what is on the new stack
          res

vars == <<pc, kind, cur, given, argv, envp, mem, held, open, stack, res>>

Elf == {"static", "dynamic", "two"}     \* with no, one and two interpreters
Kinds == Elf \cup {"script", "script with argument", "other", "missing"}
ENOENT == -2
EIO == -5
E2BIG == -7
ENOEXEC == -8
ENOMEM == -12
EFAULT == -14
EINVAL == -22
ELIBBAD == -80
-----------------------------------------------------------------------------
(* The stack, in bytes from the end of its first page.                     *)
AuxSize == 21 * 8
Align(sp) == sp - (sp % 16)

\* Where copy_strings puts each of a list, the last one highest.
CopyStrings(sp, list) ==
    LET at[i \in 1 .. Len(list) + 1] ==
            IF i > Len(list) THEN sp ELSE at[i + 1] - (StrLen[list[i]] + 1)
    IN [i \in 1 .. Len(list) |-> at[i]]
Lowest(sp, at) == IF at = << >> THEN sp ELSE at[1]

\* The pointers found by walking over the strings from the first.
Walk(first, list) ==
    LET p[i \in 1 .. Len(list)] == IF i = 1 THEN first ELSE p[i - 1] + StrLen[list[i - 1]] + 1
    IN [i \in 1 .. Len(list) |-> p[i]]

\* A slip: no room for the null that ends the environment.
PointerSlotsUnended(args, env) == (Len(args) + 1) + Len(env) + 1

\* Slots for argc, the pointers and the two nulls after them.
PointerSlots(args, env) == (Len(args) + 1) + (Len(env) + 1) + 1

StackOf(file, args, env) ==
    LET fileAt == -8 - (StrLen[file] + 1)
        envAt == CopyStrings(fileAt, env)
        argAt == CopyStrings(Lowest(fileAt, envAt), args)
        platform == Align(Lowest(Lowest(fileAt, envAt), argAt)) - 5
        random == platform - 16
        sp == Align(random - PointerSlots(args, env) * 4 - AuxSize)
        table == sp + 4
        envTable == table + (Len(args) + 1) * 4
    IN [file |-> fileAt, envAt |-> envAt, argAt |-> argAt, platform |-> platform,
        random |-> random, sp |-> sp, table |-> table, envTable |-> envTable,
        aux |-> envTable + (Len(env) + 1) * 4,
        argv |-> Walk(Lowest(Lowest(fileAt, envAt), argAt), args),
        envp |-> Walk(Lowest(fileAt, envAt), env)]
-----------------------------------------------------------------------------
(* load_entry: what the bytes of a segment show.  PAGE_ROUND_UP of 0 is    *)
(* the whole address space, as 0 - 1 has no sign.                          *)
AllPages == 2 ^ 20
RoundUp(bytes) == IF bytes = 0 THEN AllPages ELSE (bytes - 1) \div Page + 1

\* A slip: a page that the file ends with is cleared too.
WholeTail(end) == Page - (end % Page)

\* The bytes user_memset clears behind the file's, on the page they share.
TailSize(end) == IF end % Page = 0 THEN 0 ELSE Page - (end % Page)

LoadEntry(addr, filesize, memsize, b) ==
    LET end == addr + filesize
        bss == memsize - filesize
        tail == IF TailSize(end) > bss THEN bss ELSE TailSize(end)
        page == b \div Page
        In(first, pages) == first <= page /\ page < first + pages
    IN CASE bss - tail > 0 /\ In(RoundUp(end), RoundUp(bss - tail)) -> "zero"
         [] ~ In(addr \div Page, RoundUp(filesize + (addr % Page))) -> "nothing"
         [] bss > 0 /\ end <= b /\ b < end + TailSize(end) -> "zero"
         [] OTHER -> "file"
-----------------------------------------------------------------------------
Init ==
    /\ pc = "idle" /\ kind = [f \in {"prog", "sh", "ld"} |-> "missing"] /\ cur = "prog"
    /\ given = << >> /\ argv = << >> /\ envp = << >>
    /\ mem = "old" /\ held = 0 /\ open = {} /\ stack = << >> /\ res = 0

Goto(p) == pc' = p
Fails(p, e) == pc' = p /\ res' = e
Loading == <<kind, given, argv, envp>>

\* _sys_execve copies the strings of the guest, which may not be readable.
ReadArgs ==
    /\ pc = "idle"
    /\ kind' \in [{"prog", "sh", "ld"} -> Kinds]
    /\ \E args \in Args, env \in Envs :
          /\ given' = args /\ argv' = args /\ envp' = env
          /\ IF Len(args) > MaxArgs THEN Fails("done", E2BIG)
             ELSE Fails("open", 0) \/ Fails("done", EFAULT)
    /\ UNCHANGED <<cur, mem, held, open, stack>>

OpenFile ==
    /\ pc = "open"
    /\ IF kind["prog"] = "missing" THEN Fails("done", ENOENT) /\ UNCHANGED open
       ELSE Goto("header") /\ open' = {"prog"} /\ UNCHANGED res
    /\ UNCHANGED <<Loading, cur, mem, held, stack>>

ReadHeader ==
    /\ pc = "header"
    /\ \/ kind[cur] \in Elf /\ Goto("interp") /\ UNCHANGED res
       \/ kind[cur] \notin Elf /\ Fails("returned", ENOEXEC)
       \/ \E e \in {EIO, ENOMEM} : Fails("returned", e)
    /\ UNCHANGED <<Loading, cur, mem, held, open, stack>>

\* A slip: the old memory is given up before the interpreter is looked for.
FindInterpLate ==
    /\ pc = "interp" /\ mem' = "empty"
    /\ \/ kind[cur] = "static" /\ Goto("release") /\ UNCHANGED <<open, res>>
       \/ /\ kind[cur] # "static" /\ kind["ld"] = "missing"
          /\ Fails("cleanup", ENOENT) /\ UNCHANGED open
       \/ /\ kind[cur] # "static" /\ kind["ld"] # "missing"
          /\ Goto("release") /\ open' = open \cup {"ld"} /\ UNCHANGED res
    /\ UNCHANGED <<Loading, cur, held, stack>>

\* The interpreter is opened and its headers read while the old memory stands.
FindInterp ==
    /\ pc = "interp"
    /\ \/ kind[cur] = "static" /\ Goto("release") /\ UNCHANGED <<open, res>>
       \/ kind[cur] # "static" /\ Fails("returned", ENOMEM) /\ UNCHANGED open
       \/ /\ kind[cur] # "static" /\ kind["ld"] = "missing"
          /\ Fails("cleanup", ENOENT) /\ UNCHANGED open
       \/ /\ kind[cur] # "static" /\ kind["ld"] # "missing"
          /\ open' = open \cup {"ld"}
          /\ \/ kind["ld"] \notin Elf /\ Fails("cleanup", ELIBBAD)
             \/ \E e \in {EIO, ENOMEM} : Fails("cleanup", e)
             \/ kind["ld"] \in Elf /\ kind[cur] = "two" /\ Fails("cleanup", EINVAL)
             \/ kind["ld"] \in Elf /\ kind[cur] = "dynamic" /\ Goto("release") /\ UNCHANGED res
    /\ UNCHANGED <<Loading, cur, mem, held, stack>>

\* The point of no return.
Release ==
    /\ pc = "release" /\ Goto("load")
    /\ mem' = "empty" /\ held' = held + 1
    /\ UNCHANGED <<Loading, cur, open, stack, res>>

\* load_entry of every segment, and of every segment of the interpreter.
Load ==
    /\ pc = "load"
    /\ \/ Goto(IF kind[cur] = "dynamic" THEN "load interpreter" ELSE "map") /\ UNCHANGED res
       \/ Fails("hopeless", ENOMEM)
    /\ UNCHANGED <<Loading, cur, mem, held, open, stack>>
LoadInterp ==
    /\ pc = "load interpreter"
    /\ \/ Goto("map") /\ UNCHANGED res
       \/ Fails("hopeless", ENOMEM)
    /\ UNCHANGED <<Loading, cur, mem, held, open, stack>>

\* The vdso, vvar and stack pages, the last that are mapped.
MapRest ==
    /\ pc = "map"
    /\ \/ Goto("stack") /\ held' = held - 1 /\ mem' = "mapped" /\ UNCHANGED res
       \/ Fails("hopeless", ENOMEM) /\ UNCHANGED <<held, mem>>
    /\ UNCHANGED <<Loading, cur, open, stack>>

\* A pointer that cannot be written is returned without cleaning up.
CopyStack ==
    /\ pc = "stack"
    /\ \/ /\ Fails("cleanup", 0) /\ mem' = "ready"
          /\ stack' = StackOf(cur, argv, envp)
       \/ \E to \in {"hopeless", "returned"} : Fails(to, EFAULT) /\ UNCHANGED <<mem, stack>>
    /\ UNCHANGED <<Loading, cur, held, open>>

\* A slip: the lock stays taken.
BeyondHopeLocked ==
    /\ pc = "hopeless" /\ Goto("cleanup")
    /\ UNCHANGED <<Loading, cur, mem, held, open, stack, res>>

BeyondHope ==
    /\ pc = "hopeless" /\ Goto("cleanup")
    /\ held' = held - 1
    /\ UNCHANGED <<Loading, cur, mem, open, stack, res>>

OutFree ==
    /\ pc = "cleanup" /\ Goto("returned")
    /\ open' = open \ {"ld"}
    /\ UNCHANGED <<Loading, cur, mem, held, stack, res>>

\* elf_exec has returned to sys_execve or to shebang_exec.
FormatExec ==
    /\ pc = "returned"
    /\ Goto(IF cur = "prog" /\ res = ENOEXEC THEN "shebang" ELSE "close")
    /\ open' = IF cur = "sh" THEN open \ {"sh"} ELSE open
    /\ UNCHANGED <<Loading, cur, mem, held, stack, res>>

\* A slip: the name the guest gave for the script is passed too.
RestWithName == {argv}

\* The arguments after the first.  Of an empty list not even the null is
\* copied, and what follows in memory counts.
Rest == IF argv = << >> THEN {<< >>, <<"garbage">>} ELSE {Tail(argv)}

\* The interpreter is used although it may not have been opened.
ShebangExec ==
    /\ pc = "shebang"
    /\ \/ Fails("close", EIO) /\ UNCHANGED <<cur, argv, open>>
       \/ /\ kind["prog"] \notin {"script", "script with argument"}
          /\ Fails("close", ENOEXEC) /\ UNCHANGED <<cur, argv, open>>
       \/ /\ kind["prog"] \in {"script", "script with argument"} /\ cur' = "sh"
          /\ \E rest \in Rest :
                 argv' = <<"sh">> \o (IF kind["prog"] = "script" THEN << >> ELSE <<"arg">>)
                         \o <<"prog">> \o rest
          /\ IF kind["sh"] = "missing" THEN Fails("crashed", 0) /\ UNCHANGED open
             ELSE Fails("header", 0) /\ open' = open \cup {"sh"}
    /\ UNCHANGED <<kind, given, envp, mem, held, stack>>

Close ==
    /\ pc = "close" /\ Goto("done")
    /\ open' = open \ {"prog"}
    /\ UNCHANGED <<Loading, cur, mem, held, stack, res>>

\* The next execve; the memory there is then is the old one.
Return ==
    /\ pc \in {"done", "crashed"} /\ pc' = "idle"
    /\ kind' = [f \in {"prog", "sh", "ld"} |-> "missing"] /\ cur' = "prog"
    /\ given' = << >> /\ argv' = << >> /\ envp' = << >>
    /\ mem' = "old" /\ held' = 0 /\ open' = {} /\ stack' = << >> /\ res' = 0

Next ==
    \/ ReadArgs \/ OpenFile \/ ReadHeader \/ FindInterp \/ Release \/ Load \/ LoadInterp
    \/ MapRest \/ CopyStack \/ BeyondHope \/ OutFree \/ FormatExec \/ ShebangExec \/ Close
    \/ Return

Spec == Init /\ [][Next]_vars
-----------------------------------------------------------------------------
TypeOK ==
    /\ kind \in [{"prog", "sh", "ld"} -> Kinds] /\ cur \in {"prog", "sh"}
    /\ mem \in {"old", "empty", "mapped", "ready"} /\ held \in -1 .. 1
    /\ open \subseteq {"prog", "sh", "ld"}

\* An execve that fails for what the files are leaves the caller its memory,
\* and no file is tried as a script after its loading as an image has begun:
\* the errors after mem_release must not be the ones callers go on after.
OldProgramUntilLoaded ==
    /\ pc = "shebang" => mem = "old" /\ res = ENOEXEC
    /\ pc = "done" /\ res \in {ENOENT, ENOEXEC, ELIBBAD, EINVAL, EIO} => mem = "old"
    /\ pc = "done" /\ res = 0 => mem = "ready"

\* Whatever fails, execve ends with its files closed and the new memory's
\* lock free.  Only a stack that cannot be written, which is found out after
\* the lock is free, has it unlocked again or the interpreter left open.
ExecReleases == pc = "done" /\ res # EFAULT => open = {} /\ held = 0

\* A program gets the guest's arguments: an image as they are, and the
\* interpreter of a script the script's name for the first of them.
ArgumentsArrive ==
    pc = "done" /\ res = 0 /\ given # << >> =>
        argv = IF kind["prog"] \in Elf THEN given
               ELSE IF kind["prog"] = "script" THEN <<"sh", "prog">> \o Tail(given)
               ELSE <<"sh", "arg", "prog">> \o Tail(given)

\* The room that is computed for argc, pointers and auxiliary vector is the
\* room they take when they are written: nothing lies over another part, the
\* stack pointer is aligned, and each pointer leads to the start of its string.
StackLaidOut ==
    stack # << >> =>
        /\ stack.sp % 16 = 0
        /\ stack.aux + AuxSize <= stack.random
        /\ stack.random + 16 <= stack.platform
        /\ stack.platform + 5 <= Lowest(stack.file, stack.envAt)
        /\ stack.argv = stack.argAt /\ stack.envp = stack.envAt
        /\ stack.argAt # << >> => stack.platform + 5 <= stack.argAt[1]

\* A segment shows its file's bytes and then zeroes, as far as it is in
\* memory, wherever in a page it begins and ends (a writable one, and not
\* one without a byte of file at the start of a page).
SegmentIsImage(MaxBytes) ==
    \A addr \in Page .. 2 * Page - 1, filesize \in 0 .. MaxBytes, memsize \in 0 .. MaxBytes :
        filesize <= memsize /\ filesize + (addr % Page) > 0 =>
            \A b \in addr .. addr + memsize - 1 :
                LoadEntry(addr, filesize, memsize, b)
                  = IF b < addr + filesize THEN "file" ELSE "zero"
=============================================================================
