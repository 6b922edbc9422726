------------------------------- MODULE ProcFs -------------------------------
(***************************************************************************)
(* getdents64 (fs/dir.c) and the proc file system (fs/proc.c, fs/proc/).   *)
(* One reader lists a directory, or reads /proc/<pid>/stat, while          *)
(* processes are born and die.  A directory has an entry at position 0,    *)
(* which is always there, and one at position p for every process p: the   *)
(* root of proc.  A directory of the host has entries that come and go at  *)
(* their positions likewise, and is read through its stream (fs/real.c).   *)
(***************************************************************************)
EXTENDS Integers, Sequences, FiniteSets, SequencesExt, FiniteSetsExt

CONSTANTS MaxPid,
          NameOf,      \* NameOf[p]: the name at position p, a sequence of characters
          StatName,    \* the name of stat
          Paths,       \* paths that are looked up, as sequences of names
          Buffers,     \* sizes of a caller's buffer for entries
          Sizes,       \* lengths the text of stat can have
          Reads,       \* sizes of a caller's buffer for text
          MaxOffset,   \* bound on the offset a seek goes to, no less than any of Sizes
          Bits         \* bits of a size_t

VARIABLES alive, host, step, index, ptr, found, asked, room, listed, throughout,
          pid, offset, shown, copied

dirVars == <<host, index, ptr, found, asked, room, listed, throughout>>
fileVars == <<pid, offset, shown, copied>>
procVars == <<alive, step, dirVars, fileVars>>

Pids == 1 .. MaxPid

\* A record of an entry has 19 bytes before the name and a padding behind it.
Reclen(p) == 19 + Len(NameOf[p]) + 4

\* What the constants have to be.  Every buffer has room for the longest
\* record: into a smaller one nothing is written, as if at the end.
ProcAssumption ==
    /\ MaxPid \in Nat \ {0} /\ MaxOffset \in Nat /\ Sizes \subseteq 0 .. MaxOffset
    /\ Reads \subseteq Nat /\ Bits \in Nat /\ 2 ^ Bits \in Nat \ {0}
    /\ Buffers \subseteq Nat
    /\ \A p \in 0 .. MaxPid : Len(NameOf[p]) \in Nat /\ \A b \in Buffers : Reclen(p) <= b
-----------------------------------------------------------------------------
(* proc_lookup.  Entries are <<"root", 0>>, <<"version", 0>>, <<"dir", p>> *)
(* and <<"stat", p>>; children are found by their index in a directory.    *)
Children(entry) ==
    IF entry[1] = "root" THEN [i \in {0} \cup alive |-> IF i = 0 THEN <<"version", 0>> ELSE <<"dir", i>>]
    ELSE [i \in {0} |-> <<"stat", entry[2]>>]
ChildName(child) == IF child[1] = "stat" THEN StatName ELSE NameOf[child[2]]

\* A slip: a directory is read on from where the one above was left.
IndexFollowing(last) == last
StartIndex(last) == 0

\* What the buffer holds once a component is copied into it without an end.
Buffer(old, name) == name \o SubSeq(old, Len(name) + 1, Len(old))

Lookup(path) ==
    LET Root == [entry |-> <<"root", 0>>, component |-> << >>, index |-> 0]
        Step(at, name) ==
            LET component == Buffer(at.component, name)
                fits == {i \in DOMAIN Children(at.entry) :
                           /\ i >= StartIndex(at.index)
                           /\ ChildName(Children(at.entry)[i]) = component}
            IN IF at.entry[1] \in {"ENOENT", "ENOTDIR"} THEN at
               ELSE IF at.entry[1] \notin {"root", "dir"} THEN [at EXCEPT !.entry = <<"ENOTDIR", 0>>]
               ELSE IF fits = {} THEN [at EXCEPT !.entry = <<"ENOENT", 0>>]
               ELSE [entry |-> Children(at.entry)[Min(fits)], component |-> component,
                     index |-> Min(fits) + 1]
    IN FoldLeft(Step, Root, path).entry
-----------------------------------------------------------------------------
ProcInit ==
    /\ alive = {1} /\ host = FALSE /\ step = "closed"
    /\ index = 0 /\ ptr = 0 /\ found = 0 /\ asked = 0 /\ room = 0
    /\ listed = << >> /\ throughout = {}
    /\ pid = 0 /\ offset = 0 /\ shown = 0 /\ copied = 0

Goto(p) == step' = p

\* A process is created, or removed from the table of pids; a host's file
\* appears or is unlinked.
Birth ==
    /\ \E p \in Pids \ alive : alive' = alive \cup {p}
    /\ UNCHANGED <<step, dirVars, fileVars>>
Death ==
    /\ \E p \in alive : alive' = alive \ {p} /\ throughout' = throughout \ {p}
    /\ UNCHANGED <<step, host, index, ptr, found, asked, room, listed, fileVars>>

OpenDir ==
    /\ step = "closed" /\ Goto("dir")
    /\ host' \in BOOLEAN /\ throughout' = alive
    /\ UNCHANGED <<alive, index, ptr, found, asked, room, listed, fileVars>>

Getdents ==
    /\ step = "dir" /\ Goto("loop")
    /\ asked' \in Buffers /\ room' = asked'
    /\ UNCHANGED <<alive, host, index, ptr, found, listed, throughout, fileVars>>

\* readdir, after the position has been noted.  proc_root_readdir searches
\* under pids_lock, and asserts when it has given it up that what it found
\* is still there: if it is not, the whole system ends, here as "failed".
ReadDir ==
    LET left == {p \in {0} \cup alive : p >= index}
    IN /\ step = "loop" /\ ptr' = index
       /\ IF left = {} THEN Goto("seek") /\ UNCHANGED <<index, found>>
          ELSE /\ found' = Min(left) /\ index' = Min(left) + 1
               /\ Goto(IF host \/ Min(left) = 0 THEN "put" ELSE "assert")
       /\ UNCHANGED <<alive, host, asked, room, listed, throughout, fileVars>>
StillThere ==
    /\ step = "assert" /\ Goto(IF found \in alive THEN "put" ELSE "failed")
    /\ UNCHANGED <<alive, dirVars, fileVars>>
\* The stream of the host cannot be opened or read.
StreamFails ==
    /\ step = "loop" /\ host /\ Goto("failed")
    /\ UNCHANGED <<alive, dirVars, fileVars>>

PutEntry ==
    /\ step = "put"
    /\ \/ Reclen(found) > room /\ Goto("seek") /\ UNCHANGED <<listed, room>>
       \/ /\ Reclen(found) <= room /\ Goto("loop")
          /\ listed' = Append(listed, found) /\ room' = room - Reclen(found)
       \/ Reclen(found) <= room /\ Goto("failed") /\ UNCHANGED <<listed, room>>
    /\ UNCHANGED <<alive, host, index, ptr, found, asked, throughout, fileVars>>

\* A slip: the entry that did not fit is not taken back.
SeekNowhere ==
    /\ step = "seek" /\ Goto(IF room = asked THEN "listed" ELSE "dir")
    /\ UNCHANGED <<alive, dirVars, fileVars>>

\* The call returns; nothing written is the end of the directory to the caller.
SeekDir ==
    /\ step = "seek" /\ Goto(IF room = asked THEN "listed" ELSE "dir")
    /\ index' = ptr
    /\ UNCHANGED <<alive, host, ptr, found, asked, room, listed, throughout, fileVars>>
-----------------------------------------------------------------------------
OpenStat ==
    /\ step = "closed" /\ Goto("file")
    /\ \E p \in alive : /\ Lookup(<<NameOf[p], StatName>>) = <<"stat", p>>
                        /\ pid' = p
    /\ UNCHANGED <<alive, dirVars, offset, shown, copied>>

\* The text is written anew for every call, and fails when the process is gone.
Show(p) == IF p \in alive THEN Sizes ELSE {}
Refresh == shown' \in Show(pid)

\* A slip: an offset behind the end is not looked for.
RemainingUnchecked(size) == (size - offset) % 2 ^ Bits
Remaining(size) == IF offset > size THEN 0 ELSE (size - offset) % 2 ^ Bits

ProcRead ==
    /\ step = "file" /\ Refresh
    /\ \E bufsize \in Reads :
          LET n == Min({bufsize, Remaining(shown')})
          IN copied' = n /\ offset' = offset + n
    /\ UNCHANGED <<alive, step, dirVars, pid>>

ProcSeek ==
    /\ step = "file" /\ Refresh
    /\ \E off \in -MaxOffset .. MaxOffset, base \in {0, offset, shown'} :
          /\ offset' = IF base + off < 0 THEN offset ELSE base + off
          /\ offset' <= MaxOffset
    /\ copied' = 0
    /\ UNCHANGED <<alive, step, dirVars, pid>>

Close ==
    /\ step \in {"dir", "listed", "failed", "file"} /\ Goto("closed")
    /\ host' = FALSE /\ index' = 0 /\ ptr' = 0 /\ found' = 0 /\ asked' = 0 /\ room' = 0
    /\ listed' = << >> /\ throughout' = {}
    /\ pid' = 0 /\ offset' = 0 /\ shown' = 0 /\ copied' = 0
    /\ UNCHANGED alive

ProcNext ==
    \/ Birth \/ Death
    \/ OpenDir \/ Getdents \/ ReadDir \/ StillThere \/ StreamFails \/ PutEntry \/ SeekDir
    \/ OpenStat \/ ProcRead \/ ProcSeek \/ Close

ProcSpec == ProcInit /\ [][ProcNext]_procVars
-----------------------------------------------------------------------------
ProcTypeOK ==
    /\ alive \subseteq Pids /\ throughout \subseteq alive /\ listed \in Seq(0 .. MaxPid)
    /\ step \in {"closed", "dir", "loop", "assert", "put", "seek", "listed", "failed", "file"}
    /\ index \in 0 .. MaxPid + 1 /\ room \in 0 .. asked /\ offset \in 0 .. MaxOffset

\* A listing made with several calls of getdents64, each with room for the
\* longest record, has no entry twice, and when the end is reported it has
\* every entry that was there the whole time, however the buffers cut it up
\* and whatever else came and went.
ListsLivingOnce ==
    /\ IsInjective(listed)
    /\ step = "listed" => {0} \cup throughout \subseteq ToSet(listed)

\* proc_read copies no more than the text it has just been given, however
\* much longer the text was when the offset was moved.
ReadStaysInside == copied <= shown

\* A path leads to the entry it names.  This fails for one whose component is
\* shorter than one before, as the rest of that is taken for a part of it.
Growing(path) == \A i \in 1 .. Len(path) - 1 : Len(path[i]) <= Len(path[i + 1])
Meant(path) ==
    IF path = << >> THEN <<"root", 0>>
    ELSE IF path[1] = NameOf[0] THEN IF Len(path) = 1 THEN <<"version", 0>> ELSE <<"ENOTDIR", 0>>
    ELSE IF ~ \E p \in alive : path[1] = NameOf[p] THEN <<"ENOENT", 0>>
    ELSE LET p == CHOOSE p \in alive : path[1] = NameOf[p]
         IN IF Len(path) = 1 THEN <<"dir", p>>
            ELSE IF path[2] # StatName THEN <<"ENOENT", 0>>
            ELSE IF Len(path) = 2 THEN <<"stat", p>> ELSE <<"ENOTDIR", 0>>
LookupFinds ==
    step = "closed" => \A path \in Paths : Growing(path) => Lookup(path) = Meant(path)
=============================================================================
