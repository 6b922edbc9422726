------------------------------ MODULE FileIo -------------------------------
(***************************************************************************)
(* Reading, writing and seeking in one open file that tasks share:         *)
(* kernel/fs.c from sys_read to sys_pread, over fs/real.c.  The host's     *)
(* read, write and lseek are atomic; fd->lock is held by the seeking calls *)
(* and by pread, not by read and write.  The file is its length, the data  *)
(* the place it comes from.  Words have 2^w = W values.                    *)
(***************************************************************************)
EXTENDS Integers, Sequences, FiniteSets, SequencesExt

CONSTANTS Tasks, NoTask,
          W,           \* number of values of a dword
          MaxLen,      \* length of the file, and of a transfer
          MaxPos,      \* positions are bounded: the host's disk is full there
          Vectors      \* iovecs: sequences of [len, mapped]

IoVec == [len : Nat, mapped : BOOLEAN]

\* What the constants have to be; a vector of nothing returns at once.
IoAssumption ==
    /\ NoTask \notin Tasks /\ W \in Nat \ {0}
    /\ MaxLen \in Nat /\ MaxPos \in Nat /\ MaxLen <= MaxPos
    /\ \A v \in Vectors : v \in Seq(IoVec) /\ v # <<>>

\* The lengths of the buffers of v, with k before them, add up to a dword.
Left(v, k) ==
    \E left \in [1 .. Len(v) + 1 -> 0 .. W - 1] :
        /\ left[Len(v) + 1] = 0 /\ k + left[1] < W
        /\ \A i \in 1 .. Len(v) : left[i] = v[i].len + left[i + 1]
VectorsFit == \A v \in Vectors : Left(v, 0)

VARIABLES length, pos, append,   \* the file; the position and O_APPEND of the descriptor
          lock,                  \* owner of fd->lock
          call,                  \* call[t]
          disturbed,             \* tasks in a pread under which others moved pos
          ret                    \* ret[t]: result and bytes moved of a vector just done

vars == <<length, pos, append, lock, call, disturbed, ret>>

Idle == [op |-> "idle"]
Nothing == [res |-> 0, moved |-> 0, failed |-> FALSE]
EFAULT == -1
ENOSPC == -2
Fewer(a, b) == IF a < b THEN a ELSE b
Unsigned(n) == n % W

Init ==
    /\ length = MaxLen /\ pos = 0 /\ append = FALSE /\ lock = NoTask
    /\ call = [t \in Tasks |-> Idle] /\ disturbed = {}
    /\ ret = [t \in Tasks |-> Nothing]

\* What read(2) of n bytes transfers at the position.
Readable(n) == IF pos >= length THEN 0 ELSE Fewer(n, length - pos)
Preaders == {t \in Tasks : call[t].op = "pread"}

\* realfs_read: the position moves although the copy to the guest may fail.
HostRead(n) ==
    /\ pos' = pos + Readable(n)
    /\ disturbed' = IF Readable(n) > 0 THEN disturbed \cup Preaders ELSE disturbed
    /\ UNCHANGED <<length, append>>

WriteAt == IF append THEN length ELSE pos
\* What write(2) of n bytes transfers; the host has no room past MaxPos.
Writable(n) == Fewer(n, MaxPos - WriteAt)

\* realfs_write; with O_APPEND at the end of the file.
HostWrite(n) ==
    LET end == WriteAt + Writable(n) IN
    /\ pos' = IF Writable(n) > 0 THEN end ELSE pos
    /\ length' = IF Writable(n) > 0 /\ end > length THEN end ELSE length
    /\ disturbed' = IF pos' # pos THEN disturbed \cup Preaders ELSE disturbed
    /\ UNCHANGED append

\* sys_read and sys_write of one buffer; the guest's page may be missing, which
\* write finds out before it writes.
Transfer(isRead, n, mapped) ==
    IF isRead THEN HostRead(n)
    ELSE IF mapped THEN HostWrite(n) ELSE UNCHANGED <<length, pos, append, disturbed>>

Forget(t) == ret' = [ret EXCEPT ![t] = Nothing]

ReadWrite(t, isRead, n, mapped) ==
    /\ call[t] = Idle /\ Transfer(isRead, n, mapped) /\ Forget(t)
    /\ UNCHANGED <<lock, call>>

\* sys_readv and sys_writev take one buffer after the other; in between others
\* may move the position.
VectorBegins(t, isRead, iov) ==
    /\ call[t] = Idle
    /\ call' = [call EXCEPT ![t] = [op |-> "vector", read |-> isRead, iov |-> iov, count |-> 0, moved |-> 0,
                                    failed |-> FALSE]]
    /\ Forget(t)
    /\ UNCHANGED <<length, pos, append, lock, disturbed>>

\* A slip: what the last buffer took is returned for all of them.
VectorStepLast(t) ==
    LET c == call[t]
        v == Head(c.iov)
        n == IF c.read THEN Readable(v.len) ELSE Writable(v.len)
        res == IF v.mapped THEN n ELSE EFAULT
        moved == c.moved + IF c.read \/ v.mapped THEN n ELSE 0
        failed == c.failed \/ res < 0
    IN /\ c.op = "vector"
       /\ Transfer(c.read, v.len, v.mapped)
       /\ IF res < v.len \/ Len(c.iov) = 1
          THEN /\ call' = [call EXCEPT ![t] = Idle]
               /\ ret' = [ret EXCEPT ![t] = [res |-> res, moved |-> moved, failed |-> failed]]
          ELSE /\ call' = [call EXCEPT ![t] = [c EXCEPT !.iov = Tail(c.iov), !.count = res,
                                                        !.moved = moved, !.failed = failed]]
               /\ UNCHANGED ret
       /\ UNCHANGED lock

\* One round of the loop.  res of readv is unsigned: an error is not below zero,
\* is added to the count, and is not shorter than the buffer either.
VectorStep(t) ==
    LET c == call[t]
        v == Head(c.iov)
        n == IF c.read THEN Readable(v.len) ELSE Writable(v.len)
        res == IF ~v.mapped THEN EFAULT ELSE IF ~c.read /\ n = 0 /\ v.len > 0 THEN ENOSPC ELSE n
        fails == ~c.read /\ res < 0
        count == Unsigned(c.count + res)
        moved == c.moved + IF c.read \/ v.mapped THEN n ELSE 0
        failed == c.failed \/ res < 0
        short == IF c.read THEN Unsigned(res) < v.len ELSE res < v.len
    IN /\ c.op = "vector"
       /\ Transfer(c.read, v.len, v.mapped)
       /\ IF fails \/ short \/ Len(c.iov) = 1
          THEN /\ call' = [call EXCEPT ![t] = Idle]
               /\ ret' = [ret EXCEPT ![t] = [res |-> IF fails THEN res ELSE count,
                                             moved |-> moved, failed |-> failed]]
          ELSE /\ call' = [call EXCEPT ![t] = [c EXCEPT !.iov = Tail(c.iov), !.count = count,
                                                        !.moved = moved, !.failed = failed]]
               /\ UNCHANGED ret
       /\ UNCHANGED lock

Base(whence) == CASE whence = "set" -> 0 [] whence = "cur" -> pos [] whence = "end" -> length

\* A slip: without fd->lock.
LseekUnlocked(t, distance, whence) ==
    LET to == Base(whence) + Unsigned(distance) IN
    /\ call[t] = Idle /\ to <= MaxPos
    /\ pos' = to
    /\ Forget(t)
    /\ UNCHANGED <<length, append, lock, call, disturbed>>

\* sys_lseek: the distance is a dword that is widened without its sign; a place
\* that no dword holds is reported as an overflow, and is gone to all the same.
Lseek(t, distance, whence) ==
    LET to == Base(whence) + Unsigned(distance) IN
    /\ call[t] = Idle /\ lock = NoTask /\ to <= MaxPos
    /\ pos' = to
    /\ Forget(t)
    /\ UNCHANGED <<length, append, lock, call, disturbed>>

\* sys__llseek: the host refuses a position below zero.
Llseek(t, distance, whence) ==
    LET to == Base(whence) + distance IN
    /\ call[t] = Idle /\ lock = NoTask /\ to <= MaxPos
    /\ pos' = IF to < 0 THEN pos ELSE to
    /\ Forget(t)
    /\ UNCHANGED <<length, append, lock, call, disturbed>>

\* sys_pread: the result of lseek is cut to an int, and one that looks negative
\* ends the call; otherwise the read follows under the same lock.
PreadSeeks(t, off, n) ==
    /\ call[t] = Idle /\ lock = NoTask /\ pos' = off
    /\ IF Unsigned(off) >= W \div 2
       THEN UNCHANGED <<lock, call, disturbed>>
       ELSE /\ call' = [call EXCEPT ![t] = [op |-> "pread", off |-> off, n |-> n]]
            /\ lock' = t /\ UNCHANGED disturbed
    /\ Forget(t)
    /\ UNCHANGED <<length, append>>

PreadReads(t) ==
    /\ call[t].op = "pread"
    /\ pos' = pos + Readable(call[t].n)
    /\ call' = [call EXCEPT ![t] = Idle] /\ lock' = NoTask
    /\ disturbed' = disturbed \ {t}
    /\ UNCHANGED <<length, append, ret>>

\* F_SETFL.
SetFlags(t) ==
    /\ call[t] = Idle /\ append' = ~append /\ Forget(t)
    /\ UNCHANGED <<length, pos, lock, call, disturbed>>

\* sys_ftruncate64, and sys_fallocate, which only makes longer.
Truncate(t, n) ==
    /\ call[t] = Idle /\ length' = n /\ Forget(t)
    /\ UNCHANGED <<pos, append, lock, call, disturbed>>
Fallocate(t, end) == end > length /\ Truncate(t, end)

Next == \E t \in Tasks :
    \/ \E b, mapped \in BOOLEAN, n \in 0 .. MaxLen : ReadWrite(t, b, n, mapped)
    \/ \E b \in BOOLEAN, v \in Vectors : VectorBegins(t, b, v)
    \/ VectorStep(t) \/ PreadReads(t) \/ SetFlags(t)
    \/ \E d \in -2 .. 2, whence \in {"set", "cur", "end"} :
          (d >= 0 \/ whence # "set") /\ (Lseek(t, d, whence) \/ Llseek(t, d, whence))
    \/ \E off \in 0 .. MaxPos, n \in 1 .. MaxLen : PreadSeeks(t, off, n)
    \/ \E n \in 0 .. MaxLen : Truncate(t, n) \/ Fallocate(t, n)

Spec == Init /\ [][Next]_vars
-----------------------------------------------------------------------------
TypeOK ==
    /\ length \in 0 .. MaxPos /\ pos \in 0 .. MaxPos /\ append \in BOOLEAN
    /\ lock \in Tasks \cup {NoTask} /\ disturbed \subseteq Preaders
    /\ \A t \in Tasks : call[t].op \in {"idle", "vector", "pread"}

\* A pread reads where it was asked to, unless a read or a write of another task,
\* which take no lock, came between its two steps (kernel/fs.c:311-315, 188, 241).
PreadReadsThere ==
    \A t \in Tasks : call[t].op = "pread" /\ t \notin disturbed => pos = call[t].off

\* readv and writev return the number of bytes they moved, unless one of
\* the transfers failed (kernel/fs.c:198-223, 247-272).
VectorsCountBytes ==
    \A t \in Tasks : ~ret[t].failed => ret[t].res = ret[t].moved
=============================================================================
