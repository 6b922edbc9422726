----------------------------- MODULE FdTables ------------------------------
(***************************************************************************)
(* Open files and who holds them: fs/fd.c, kernel/fs_info.c, chdir and     *)
(* fchdir, and what fork, exec and exit do with the tables.  A descriptor  *)
(* counts the slots and working directories that hold it; f_get hands it   *)
(* to a call without counting.  Calls of tasks that share a table are      *)
(* taken one after the other, but for the use of what f_get returned.      *)
(* fs->root is handled as fs->pwd is and left out.                         *)
(***************************************************************************)
EXTENDS Integers, FiniteSets, FiniteSetsExt

CONSTANTS Tasks,
          Tables, FsInfos,  \* struct fdtable, struct fs_info
          Fds,              \* struct fd
          Slots,            \* the most slots a table may get
          None

ASSUME FdTablesAssumption ==
    /\ IsFiniteSet(Tasks) /\ Tasks # {} /\ IsFiniteSet(Tables) /\ Tables # {}
    /\ IsFiniteSet(FsInfos) /\ FsInfos # {} /\ Fds # {} /\ Slots \in Nat \ {0}
    /\ None \notin Tables /\ None \notin FsInfos /\ None \notin Fds

F == 0 .. Slots - 1

VARIABLES live, count,     \* the descriptors allocated; their reference counts
          files, size, cloexec, tableRefs,
          pwd, fsRefs,
          table, fs,       \* current->files and current->fs, None before and after
          limit,           \* RLIMIT_NOFILE
          using,           \* what f_get returned to the call a task is in
          shared,          \* tasks whose table somebody shared during the call
          stale,           \* tasks whose call uses a descriptor that was freed
          odd              \* rare cases that have come up (see below)

tableVars == <<files, size, cloexec, tableRefs>>
fsVars == <<pwd, fsRefs>>
callVars == <<using, shared>>
vars == <<live, count, tableVars, fsVars, table, fs, limit, callVars, stale, odd>>

\* After a slot was left with a freed descriptor, written before the array, or
\* lost without being closed, the tables are not followed any further.
Broken == odd # "none"
Runs(t) == table[t] # None /\ using[t] = None /\ ~Broken

Open(T) == {f \in F : files[T][f] # None}
SlotsOf(T, o) == {f \in F : f < size[T] /\ files[T][f] = o}

Init ==
    LET a == CHOOSE t \in Tasks : TRUE
        T == CHOOSE x \in Tables : TRUE
        i == CHOOSE x \in FsInfos : TRUE
        o == CHOOSE x \in Fds : TRUE
    IN /\ live = {o} /\ count = [x \in Fds |-> IF x = o THEN 1 ELSE 0]
       /\ files = [x \in Tables |-> [f \in F |-> None]]
       /\ size = [x \in Tables |-> IF x = T THEN 1 ELSE 0]
       /\ cloexec = [x \in Tables |-> {}]
       /\ tableRefs = [x \in Tables |-> IF x = T THEN 1 ELSE 0]
       /\ pwd = [x \in FsInfos |-> IF x = i THEN o ELSE None]
       /\ fsRefs = [x \in FsInfos |-> IF x = i THEN 1 ELSE 0]
       /\ table = [t \in Tasks |-> IF t = a THEN T ELSE None]
       /\ fs = [t \in Tasks |-> IF t = a THEN i ELSE None]
       /\ limit = Slots /\ using = [t \in Tasks |-> None]
       /\ shared = {} /\ stale = {} /\ odd = "none"

\* The counts after n[o] references to each o were dropped and one to gained
\* added: fd_close frees what comes to zero.
Counts(n, gained) ==
    LET new == [o \in Fds |-> count[o] - n[o] + IF o = gained THEN 1 ELSE 0]
        freed == {o \in Fds : new[o] = 0 /\ n[o] > 0}
    IN /\ count' = new
       /\ live' = (live \cup ({gained} \ {None})) \ freed
       /\ stale' = stale \cup {t \in Tasks : using[t] \in freed}

One(o) == [x \in Fds |-> IF x = o THEN 1 ELSE 0]
Nothing == [x \in Fds |-> 0]

\* A slip: the wanted number is taken whether it is free or not.
SlotAsked(T, start) == IF start < size[T] \/ start < limit THEN start ELSE -1

\* f_install_start: the first free slot from start on among those below both the
\* limit and the size, else the next one, for which fdtable_expand may make the
\* table longer; -1 stands for EMFILE.
SlotFor(T, start) ==
    LET top == IF limit < size[T] THEN limit ELSE size[T]
        free == {f \in start .. top - 1 : files[T][f] = None}
        f == IF free # {} THEN Min(free) ELSE IF start > top THEN start ELSE top
    IN IF f < size[T] \/ f < limit THEN f ELSE -1

Larger(a, b) == IF a > b THEN a ELSE b

\* f_install_start and f_install_flags of o, which has just got the reference
\* that the table takes or that fd_close drops.
Install(T, o, start, cloexecFlag) ==
    LET f == SlotFor(T, start) IN
    IF f = -1 THEN Counts(One(o), o) /\ UNCHANGED <<tableVars, odd>>
    ELSE /\ Counts(Nothing, o)
         /\ files' = [files EXCEPT ![T][f] = o]
         /\ size' = [size EXCEPT ![T] = Larger(@, f + 1)]
         /\ cloexec' = [cloexec EXCEPT ![T] = IF cloexecFlag THEN @ \cup {f} ELSE @ \ {f}]
         /\ odd' = IF files[T][f] # None THEN "installed over another" ELSE odd
         /\ UNCHANGED tableRefs

\* fd_create, by open or any other call, then f_install_flags.
OpenCall(t, cloexecFlag) ==
    /\ Runs(t)
    /\ \E o \in Fds \ live : Install(table[t], o, 0, cloexecFlag)
    /\ UNCHANGED <<fsVars, table, fs, limit, callVars>>

\* sys_dup, and F_DUPFD, which starts at an argument.
Dup(t, f, start) ==
    LET o == files[table[t]][f] IN
    /\ Runs(t) /\ o # None
    /\ Install(table[t], o, start, FALSE)
    /\ UNCHANGED <<fsVars, table, fs, limit, callVars>>

\* A slip: the mark of the closed slot stays.
CloseKeepingMark(t, f) ==
    LET T == table[t] IN
    /\ Runs(t) /\ files[T][f] # None
    /\ Counts(One(files[T][f]), None)
    /\ files' = [files EXCEPT ![T][f] = None]
    /\ UNCHANGED <<cloexec, size, tableRefs, fsVars, table, fs, limit, callVars, odd>>

\* f_close.
Close(t, f) ==
    LET T == table[t] IN
    /\ Runs(t) /\ files[T][f] # None
    /\ Counts(One(files[T][f]), None)
    /\ files' = [files EXCEPT ![T][f] = None]
    /\ cloexec' = [cloexec EXCEPT ![T] = @ \ {f}]
    /\ UNCHANGED <<size, tableRefs, fsVars, table, fs, limit, callVars, odd>>

\* A slip: what was in the slot is not closed.
Dup2Losing(t, f, newF) ==
    LET T == table[t]  o == files[T][f] IN
    /\ Runs(t) /\ o # None
    /\ newF < size[T] \/ newF < limit
    /\ Counts(Nothing, o)
    /\ files' = [files EXCEPT ![T][newF] = o]
    /\ size' = [size EXCEPT ![T] = Larger(@, newF + 1)]
    /\ UNCHANGED <<cloexec, odd, tableRefs, fsVars, table, fs, limit, callVars>>

\* sys_dup2: new_f is closed first, then its slot stored to; there is no check
\* for new_f = f, nor for one below zero, for which nothing is expanded.
Dup2(t, f, newF) ==
    LET T == table[t]  o == files[T][f]  old == files[T][newF] IN
    /\ Runs(t) /\ o # None
    /\ newF < size[T] \/ newF < limit
    /\ Counts(IF old = None THEN Nothing ELSE One(old), o)
    /\ files' = [files EXCEPT ![T][newF] = o]
    /\ size' = [size EXCEPT ![T] = Larger(@, newF + 1)]
    /\ cloexec' = IF old = None THEN cloexec ELSE [cloexec EXCEPT ![T] = @ \ {newF}]
    /\ odd' = IF newF = f /\ count[o] = 1 THEN "dup2 of the last reference" ELSE odd
    /\ UNCHANGED <<tableRefs, fsVars, table, fs, limit, callVars>>

Dup2BelowZero(t, f) ==
    /\ Runs(t) /\ files[table[t]][f] # None
    /\ odd' = "dup2 below zero"
    /\ UNCHANGED <<live, count, tableVars, fsVars, table, fs, limit, callVars, stale>>

\* F_SETFD.
SetFd(t, f) ==
    LET T == table[t] IN
    /\ Runs(t) /\ files[T][f] # None
    /\ \E s \in {cloexec[T] \cup {f}, cloexec[T] \ {f}} : cloexec' = [cloexec EXCEPT ![T] = s]
    /\ UNCHANGED <<live, count, files, size, tableRefs, fsVars, table, fs, limit, callVars, stale, odd>>

\* setrlimit of RLIMIT_NOFILE.
SetLimit(t, n) ==
    /\ Runs(t) /\ limit' = n
    /\ UNCHANGED <<live, count, tableVars, fsVars, table, fs, callVars, stale, odd>>

\* The references that closing the slots below n of table T drops.
Dropped(T, n) == [o \in Fds |-> Cardinality({f \in F : f < n /\ files[T][f] = o})]
Emptied(T, s) == [f \in F |-> IF f \in s THEN None ELSE files[T][f]]

\* fs_chdir, to a directory just opened or, in fchdir, to an open descriptor.
Chdir(t) ==
    LET i == fs[t]  T == table[t] IN
    /\ Runs(t)
    /\ \E o \in (Fds \ live) \cup {files[T][f] : f \in Open(T)} :
          /\ Counts(One(pwd[i]), o)
          /\ pwd' = [pwd EXCEPT ![i] = o]
    /\ UNCHANGED <<tableVars, fsRefs, table, fs, limit, callVars, odd>>

\* A slip: the copied table holds its descriptors without counting them.
ForkUncounted(t, u, shareFiles, shareFs) ==
    LET T == table[t]  i == fs[t] IN
    /\ Runs(t) /\ table[u] = None /\ shareFs
    /\ \E T2 \in Tables :
          /\ IF shareFiles THEN T2 = T ELSE tableRefs[T2] = 0
          /\ files' = [files EXCEPT ![T2] = files[T]]
          /\ size' = [size EXCEPT ![T2] = size[T]]
          /\ cloexec' = [cloexec EXCEPT ![T2] = cloexec[T]]
          /\ tableRefs' = [tableRefs EXCEPT ![T2] = @ + 1]
          /\ fsRefs' = [fsRefs EXCEPT ![i] = @ + 1]
          /\ table' = [table EXCEPT ![u] = T2] /\ fs' = [fs EXCEPT ![u] = i]
          /\ shared' = IF shareFiles
                       THEN shared \cup {x \in Tasks : table[x] = T /\ using[x] # None} ELSE shared
    /\ UNCHANGED <<live, count, pwd, limit, using, stale, odd>>

\* copy_task, as far as descriptors go.
Fork(t, u, shareFiles, shareFs) ==
    LET T == table[t]  i == fs[t] IN
    /\ Runs(t) /\ table[u] = None
    /\ \E T2 \in Tables, i2 \in FsInfos :
          /\ IF shareFiles THEN T2 = T ELSE tableRefs[T2] = 0
          /\ IF shareFs THEN i2 = i ELSE fsRefs[i2] = 0
          /\ count' = [o \in Fds |-> count[o]
                          + (IF shareFiles THEN 0 ELSE Cardinality(SlotsOf(T, o)))
                          + (IF ~shareFs /\ pwd[i] = o THEN 1 ELSE 0)]
          /\ files' = [files EXCEPT ![T2] = files[T]]
          /\ size' = [size EXCEPT ![T2] = size[T]]
          /\ cloexec' = [cloexec EXCEPT ![T2] = cloexec[T]]
          /\ tableRefs' = [tableRefs EXCEPT ![T2] = @ + 1]
          /\ pwd' = [pwd EXCEPT ![i2] = pwd[i]]
          /\ fsRefs' = [fsRefs EXCEPT ![i2] = @ + 1]
          /\ table' = [table EXCEPT ![u] = T2] /\ fs' = [fs EXCEPT ![u] = i2]
          /\ shared' = IF shareFiles
                       THEN shared \cup {x \in Tasks : table[x] = T /\ using[x] # None} ELSE shared
    /\ UNCHANGED <<live, limit, using, stale, odd>>

\* copy_task fails after the copies: fdtable_release of the new table closes the
\* slots with f_close, which works on the table of the caller.
ForkFails(t) ==
    LET T == table[t] IN
    /\ Runs(t) /\ \E T2 \in Tables : tableRefs[T2] = 0
    /\ Open(T) # {}
    /\ files' = [files EXCEPT ![T] = [f \in F |-> None]]
    /\ cloexec' = [cloexec EXCEPT ![T] = {}]
    /\ odd' = "fork failed"
    /\ UNCHANGED <<live, count, size, tableRefs, fsVars, table, fs, limit, callVars, stale>>

\* sys_execve closes what is marked.
Exec(t) ==
    LET T == table[t] IN
    /\ Runs(t) /\ cloexec[T] # {}
    /\ Counts([o \in Fds |-> Cardinality(SlotsOf(T, o) \cap cloexec[T])], None)
    /\ files' = [files EXCEPT ![T] = Emptied(T, cloexec[T])]
    /\ cloexec' = [cloexec EXCEPT ![T] = {}]
    /\ UNCHANGED <<size, tableRefs, fsVars, table, fs, limit, callVars, odd>>

\* do_exit: fdtable_release and fs_info_release.
Exit(t) ==
    LET T == table[t]  i == fs[t]
        dropped == IF tableRefs[T] = 1 THEN Dropped(T, size[T]) ELSE Nothing
    IN /\ Runs(t)
       /\ Counts([o \in Fds |-> dropped[o] + IF fsRefs[i] = 1 /\ pwd[i] = o THEN 1 ELSE 0], None)
       /\ files' = IF tableRefs[T] = 1 THEN [files EXCEPT ![T] = [f \in F |-> None]] ELSE files
       /\ size' = IF tableRefs[T] = 1 THEN [size EXCEPT ![T] = 0] ELSE size
       /\ cloexec' = IF tableRefs[T] = 1 THEN [cloexec EXCEPT ![T] = {}] ELSE cloexec
       /\ tableRefs' = [tableRefs EXCEPT ![T] = @ - 1]
       /\ pwd' = IF fsRefs[i] = 1 THEN [pwd EXCEPT ![i] = None] ELSE pwd
       /\ fsRefs' = [fsRefs EXCEPT ![i] = @ - 1]
       /\ table' = [table EXCEPT ![t] = None] /\ fs' = [fs EXCEPT ![t] = None]
       /\ UNCHANGED <<limit, callVars, odd>>

\* Any call between f_get and its return, with a descriptor it did not count.
CallBegins(t, f) ==
    /\ Runs(t) /\ files[table[t]][f] # None
    /\ using' = [using EXCEPT ![t] = files[table[t]][f]]
    /\ shared' = IF tableRefs[table[t]] > 1 THEN shared \cup {t} ELSE shared
    /\ UNCHANGED <<live, count, tableVars, fsVars, table, fs, limit, stale, odd>>

CallEnds(t) ==
    /\ using[t] # None
    /\ using' = [using EXCEPT ![t] = None]
    /\ shared' = shared \ {t} /\ stale' = stale \ {t}
    /\ UNCHANGED <<live, count, tableVars, fsVars, table, fs, limit, odd>>

NobodyLeft == (Broken \/ \A t \in Tasks : table[t] = None) /\ UNCHANGED vars

Next ==
    \/ \E t \in Tasks :
          \/ \E b \in BOOLEAN : OpenCall(t, b)
          \/ \E n \in 1 .. Slots : SetLimit(t, n)
          \/ Chdir(t) \/ Exec(t) \/ Exit(t) \/ ForkFails(t) \/ CallEnds(t)
          \/ \E u \in Tasks : \E b, c \in BOOLEAN : Fork(t, u, b, c)
          \/ table[t] # None /\ \E f \in F :
                \/ \E g \in F : Dup2(t, f, g) \/ Dup(t, f, g)
                \/ Close(t, f) \/ Dup2BelowZero(t, f) \/ SetFd(t, f) \/ CallBegins(t, f)
    \/ NobodyLeft

Spec == Init /\ [][Next]_vars
-----------------------------------------------------------------------------
TypeOK ==
    /\ live \subseteq Fds /\ count \in [Fds -> Nat]
    /\ files \in [Tables -> [F -> Fds \cup {None}]] /\ size \in [Tables -> 0 .. Slots]
    /\ cloexec \in [Tables -> SUBSET F] /\ tableRefs \in [Tables -> 0 .. Cardinality(Tasks)]
    /\ pwd \in [FsInfos -> Fds \cup {None}] /\ fsRefs \in [FsInfos -> 0 .. Cardinality(Tasks)]
    /\ table \in [Tasks -> Tables \cup {None}] /\ fs \in [Tasks -> FsInfos \cup {None}]
    /\ limit \in 1 .. Slots /\ using \in [Tasks -> Fds \cup {None}]
    /\ shared \subseteq Tasks /\ stale \subseteq Tasks

Holders(o) == {q \in Tables \X F : files[q[1]][q[2]] = o}
Dirs(o) == {i \in FsInfos : pwd[i] = o}

\* A descriptor is allocated while a slot or a working directory holds it, and
\* counts all of them; after a fork that failed late, or an installation over
\* another descriptor, it counts too many (fs/fd.c:29-47, 109-111, 220-222; kernel/fs.c:403).
DescriptorsCounted ==
    \A o \in Fds :
        LET n == Cardinality(Holders(o)) + Cardinality(Dirs(o)) IN
        /\ ~Broken => count[o] = n /\ (o \in live <=> n > 0)
        /\ odd \in {"fork failed", "installed over another"} => count[o] >= n /\ (n > 0 => o \in live)

\* A call goes on with a freed descriptor only where another task shared the
\* table: f_get counts nothing (fs/fd.c:120-124).
UseAfterCloseNeedsSharing == stale \subseteq shared

\* Only open slots are marked close-on-exec, so that dup2 into an empty slot,
\* which clears no mark, makes a descriptor that exec keeps (fs/fd.c:180-188, 222).
MarksOnOpenSlots == ~Broken => \A T \in Tables : cloexec[T] \subseteq Open(T)

\* Descriptors live as long as a slot or a directory holds them, exec keeps
\* what is not marked, and a call meets a freed one only where two share a
\* table (fs/fd.c, kernel/fork.c).
DescriptorsSound ==
    TypeOK /\ DescriptorsCounted /\ UseAfterCloseNeedsSharing /\ MarksOnOpenSlots

\* In every step f_install_start replaces an open descriptor only after the limit
\* was lowered below the size of the table (fs/fd.c:144-157).
NoOverwriteWithinLimit ==
    [][~Broken /\ odd' = "installed over another" => \E T \in Tables : limit < size[T]]_vars
=============================================================================
