------------------------------ MODULE MCFiles -------------------------------
(***************************************************************************)
(* An instance for TLC of files: the components of fs/, the calls poll and *)
(* select, and execve, which share no state: `part' is the one that takes  *)
(* steps, and the others stay as they begin.                               *)
(***************************************************************************)
EXTENDS FdTables, Mounts, TtyLocks, Tty, FakeFs, TLC

CONSTANTS s, t, NoTask,
          t1, t2, i1, i2, x, y,
          r, m1, m2,
          W, MaxLen, MaxPos,
          f1, f2, f3, d1,
          MaxEntries, Names, MaxPath, MaxParts, MaxDepth,
          MaxArgs, Page, MaxBytes,
          MaxPid, Buffers, Sizes, Reads, MaxOffset

VARIABLES part,
          length, pos, append, lock, ioCall, disturbed, ret,
          pollCall, polls, next, marked, added, ready, revents, returned,
          pathCall, out, pathRest, depth, res,
          at, kind, cur, given, argv, envp, mem, held, open, stack, result,
          alive, host, step, index, ptr, found, asked, room, listed, throughout,
          pid, offset, shown, copied

ioVars == <<length, pos, append, lock, ioCall, disturbed, ret>>
pollVars == <<pollCall, polls, next, marked, added, ready, revents, returned>>
pathVars == <<pathCall, out, pathRest, depth, res>>
execVars == <<at, kind, cur, given, argv, envp, mem, held, open, stack, result>>
procVars == <<alive, host, step, index, ptr, found, asked, room, listed, throughout,
              pid, offset, shown, copied>>
filesVars == <<part, vars, mountVars, ioVars, fakeVars, pollVars, pathVars, lineVars,
               lockVars, execVars, procVars>>
-----------------------------------------------------------------------------
(* Mount points and the paths of calls; vectors of two elements, of which  *)
(* the second may be out of the guest's memory; names in a directory and   *)
(* in another.                                                             *)
MountPoints == {<<"a">>, <<"a", "b">>}
Looked == {<< >>, <<"a">>, <<"a", "b">>, <<"c">>}
Vectors == {<<[len |-> 1, mapped |-> TRUE], [len |-> 2, mapped |-> b]>> : b \in BOOLEAN}
           \cup {<<[len |-> 2, mapped |-> FALSE], [len |-> 1, mapped |-> TRUE]>>}
FakeNames == {<<"a">>, <<"b">>, <<"a", "x">>, <<"b", "x">>}
ThreeFiles == {f1, f2, f3}
OneDirectory == {d1}

\* Trees with links to names and to links, from the root and relative, up
\* and down; one is a loop.
Lengths == ("." :> 1) @@ (".." :> 2) @@ ("a" :> 1) @@ ("b" :> 2) @@ ("l" :> 1)
To(parts) == [abs |-> FALSE, parts |-> parts]
ToRoot(parts) == [abs |-> TRUE, parts |-> parts]
Trees == {<< >>,
          (<<"l">> :> To(<<"a">>)) @@ (<<"a", "l">> :> To(<<"..", "b">>)),
          (<<"a", "l">> :> ToRoot(<<"l">>)) @@ (<<"l">> :> To(<<".", "a", "b">>)),
          (<<"l">> :> To(<<"a", "l">>)) @@ (<<"a", "l">> :> ToRoot(<<"b", "..", "l">>)),
          (<<"b">> :> ToRoot(<< >>))}
Bases == {<< >>, <<"a">>, <<"b", "b">>}

\* The descriptors of a call of poll or select: two of them are one file, the
\* other file is one of the host, one is closed and one is below zero.
PollTable == ("a" :> "f1") @@ ("b" :> "f1") @@ ("c" :> "f2")
PollEntries == {{"in"}, {"out"}}
PollReady == {{}, {"in"}, {"out", "hup"}, {"in", "err"}, {"pri"}}

\* Strings of arguments, and lists of them, one too long.
StringSizes == ("a" :> 1) @@ ("bc" :> 4) @@ ("e" :> 2) @@ ("prog" :> 3) @@ ("sh" :> 2)
               @@ ("arg" :> 3) @@ ("garbage" :> 1)
ArgLists == {<< >>, <<"a">>, <<"a", "bc">>, <<"bc", "a", "a">>}
Environments == {<< >>, <<"e">>}

\* Names of entries of /proc, of which one of a process is longer than that
\* of the file in it, and the paths of up to three of them.
ProcNames == (0 :> <<"v", "e", "r">>) @@ (1 :> <<"1">>) @@ (2 :> <<"1", "2">>) @@ (3 :> <<"1", "2", "3">>)
Stat == <<"s", "t">>
ProcPaths == UNION {[1 .. n -> {ProcNames[p] : p \in 0 .. 3} \cup {Stat, <<"3">>}] : n \in 0 .. 3}

Io == INSTANCE FileIo WITH call <- ioCall
Poll == INSTANCE PollCalls WITH Fds <- {"neg", "a", "b", "c", "bad"}, NegativeFds <- {"neg"},
            Table <- PollTable, RealFiles <- {"f2"}, Entries <- PollEntries, ReadySets <- PollReady
Path == INSTANCE Paths WITH Size <- Lengths, call <- pathCall, rest <- pathRest
Run == INSTANCE Exec WITH Args <- ArgLists, Envs <- Environments, StrLen <- StringSizes,
           pc <- at, res <- result
Proc == INSTANCE ProcFs WITH NameOf <- ProcNames, StatName <- Stat, Paths <- ProcPaths, Bits <- W

ASSUME InstancesAssumption ==
    Io!IoAssumption /\ Io!VectorsFit /\ Poll!PollCallsAssumption /\ Proc!ProcAssumption
-----------------------------------------------------------------------------
FilesInit ==
    /\ part \in {"descriptors", "mounts", "io", "fakefs", "poll", "paths", "tty",
               "ttylocks", "exec", "proc"}
    /\ Init /\ MountInit /\ Io!Init /\ FakeInit /\ Poll!PollInit /\ Path!Init
    /\ LineInit /\ LocksInit /\ Run!Init /\ Proc!ProcInit

Only(p) ==
    /\ part = p /\ UNCHANGED part
    /\ IF p = "descriptors" THEN TRUE ELSE UNCHANGED vars
    /\ IF p = "mounts" THEN TRUE ELSE UNCHANGED mountVars
    /\ IF p = "io" THEN TRUE ELSE UNCHANGED ioVars
    /\ IF p = "fakefs" THEN TRUE ELSE UNCHANGED fakeVars
    /\ IF p = "poll" THEN TRUE ELSE UNCHANGED pollVars
    /\ IF p = "paths" THEN TRUE ELSE UNCHANGED pathVars
    /\ IF p = "tty" THEN TRUE ELSE UNCHANGED lineVars
    /\ IF p = "ttylocks" THEN TRUE ELSE UNCHANGED lockVars
    /\ IF p = "exec" THEN TRUE ELSE UNCHANGED execVars
    /\ IF p = "proc" THEN TRUE ELSE UNCHANGED procVars

FilesNext ==
    \/ Only("descriptors") /\ Next
    \/ Only("mounts") /\ MountNext
    \/ Only("io") /\ Io!Next
    \/ Only("fakefs") /\ FakeNext
    \/ Only("poll") /\ Poll!PollNext
    \/ Only("paths") /\ Path!Next
    \/ Only("tty") /\ LineNext
    \/ Only("ttylocks") /\ LocksNext
    \/ Only("exec") /\ Run!Next
    \/ Only("proc") /\ Proc!ProcNext

FilesSpec == FilesInit /\ [][FilesNext]_filesVars
-----------------------------------------------------------------------------
(* The properties of the components, each stated and explained in its      *)
(* module, put together by what they are about.                            *)

\* Calls answer with what is there: a path's normal form is the file it means
\* and a name in /proc leads to its entry; so do calls of several steps: pread
\* and vectors over a shared offset, listings while entries come and go, text
\* that shrinks, sets of descriptors, lines of a terminal (fs/path.c, fs/proc.c,
\* fs/dir.c, kernel/fs.c, kernel/poll.c, fs/tty.c).
CallsAnswer ==
    /\ part = "paths" => Path!TypeOK /\ Path!NormalIsMeant /\ Path!OnlyKnownFailures
    /\ part = "proc" => Proc!LookupFinds
    /\ part = "io" => Io!TypeOK /\ Io!PreadReadsThere /\ Io!VectorsCountBytes
    /\ part = "proc" => Proc!ProcTypeOK /\ Proc!ListsLivingOnce /\ Proc!ReadStaysInside
    /\ part = "poll" => Poll!RegisteredOnce /\ Poll!PollAnswers /\ Poll!SelectAnswers
    /\ part = "tty" => LineTypeOK /\ NoSleepOnInput

\* execve leaves the old program while it can fail for what the files are,
\* gives back what it took, and hands on arguments, a stack and segments as
\* they were meant (kernel/exec.c).
ExecSound ==
    part = "exec" =>
        /\ Run!TypeOK /\ Run!OldProgramUntilLoaded /\ Run!ExecReleases
        /\ Run!ArgumentsArrive /\ Run!StackLaidOut
        /\ at = "idle" => Run!SegmentIsImage(MaxBytes)

\* No step changes a finished line, reads one that is edited, sleeps where
\* poll promised input or overruns the buffer without full lines (fs/tty.c), or
\* loses a file of a tree that is rebuilt (fs/fake-rebuild.c:91).
LinesAndFilesKept ==
    [][/\ part = "tty" =>
             /\ FinishedInputStays /\ ReadsLinesOnly
             /\ PollMeansRead /\ OverrunNeedsFullLines
       /\ part = "fakefs" => RebuildKeepsFiles]_filesVars
=============================================================================
