----------------------------- MODULE KernelLog -----------------------------
(***************************************************************************)
(* The kernel's log: kernel/log.c.  A ring of Cap bytes that printk fills  *)
(* line by line, each thread from a buffer of its own, and that syslog     *)
(* reads and clears.  A byte is the thread that printed it, or "nl".       *)
(***************************************************************************)
EXTENDS Integers, Sequences, FiniteSets

CONSTANTS LogThreads,
          Cap,        \* sizeof(log_buf)
          MaxLine,    \* bytes of a line that is printed in pieces
          MaxPiece    \* bytes printed by one call

\* What one thread has to print at a time fits the array: buf has 2^12 bytes, and
\* log_buf 2^20.
ASSUME LogAssumption ==
    /\ Cap \in Nat \ {0} /\ MaxLine \in Nat /\ MaxPiece \in Nat
    /\ MaxLine + MaxPiece <= Cap
    /\ "nl" \notin LogThreads

VARIABLES mem,     \* log_buf; "zero" where nothing was stored yet
          head,    \* log_head
          size,    \* log_size
          line,    \* line[t]: the static thread-local buf of vprintk
          log      \* what the log is to hold: the last Cap bytes since a clear

logVars == <<mem, head, size, line, log>>

Lesser(a, b) == IF a < b THEN a ELSE b
Contents == [k \in 1 .. size |-> mem[(head + k - 1) % Cap]]
\* int total is compared with size_t log_size: a negative one is a large one.
Clip(total) == IF total < 0 THEN size ELSE Lesser(total, size)

\* A slip: the copy does not begin anew at the start of the array.
SyslogReadStraight(total) ==
    [k \in 1 .. Clip(total) |-> IF head + k - 1 < Cap THEN mem[head + k - 1] ELSE "past"]

\* syslog_read: bytes are copied in chunks which are as long as the array is
\* behind log_head, from log_head on: its argument start is not used.  "past" is
\* a byte behind the array.
SyslogRead(total) ==
    [k \in 1 .. Clip(total) |->
        LET chunk == Cap - head
            i == ((head + ((k - 1) \div chunk) * chunk) % Cap) + ((k - 1) % chunk)
        IN IF i < Cap THEN mem[i] ELSE "past"]

\* A slip: the whole log, whatever the size of the guest's buffer.
SyslogReadAllUnclipped(len) == SyslogRead(size)

\* syslog_read_all: the start it computes is that of the newest bytes.
SyslogReadAll(len) == SyslogRead(Clip(len))

\* Slips: the size grows past the array; the head stays when the oldest bytes
\* are overwritten.
LogBufAppends(b, newSize, newHead) ==
    LET n == Len(b) IN
    /\ mem' = [i \in 0 .. Cap - 1 |->
                 LET ks == {k \in 1 .. n : (head + size + k - 1) % Cap = i} IN
                 IF ks = {} THEN mem[i] ELSE b[CHOOSE k \in ks : \A j \in ks : j <= k]]
    /\ size' = newSize /\ head' = newHead
    /\ log' = LET all == log \o b IN SubSeq(all, 1 + Len(all) - Lesser(Len(all), Cap), Len(all))
LogBufAppendUnbounded(b) == LogBufAppends(b, size + Len(b), head)
LogBufAppendAtHead(b) == LogBufAppends(b, Lesser(size + Len(b), Cap), head)

\* log_buf_append of the bytes b.
LogBufAppend(b) ==
    LET n == Len(b) IN
    /\ mem' = [i \in 0 .. Cap - 1 |->
                 LET ks == {k \in 1 .. n : (head + size + k - 1) % Cap = i} IN
                 IF ks = {} THEN mem[i] ELSE b[CHOOSE k \in ks : \A j \in ks : j <= k]]
    /\ size' = Lesser(size + n, Cap)
    /\ head' = IF size + n > Cap THEN (head + size + n - Cap) % Cap ELSE head
    /\ log' = LET all == log \o b IN SubSeq(all, 1 + Len(all) - Lesser(Len(all), Cap), Len(all))

LogInit ==
    /\ mem = [i \in 0 .. Cap - 1 |-> "zero"] /\ head = 0 /\ size = 0
    /\ line = [t \in LogThreads |-> <<>>] /\ log = <<>>

\* A slip: what is printed goes out at once, line or not.
PrintkPieces(t, msg) ==
    /\ LogBufAppend(msg)
    /\ line' = [line EXCEPT ![t] = <<>>]

\* vprintk: what is complete up to the last newline goes out, in one go under
\* log_lock; the rest waits in the thread's buffer.
Printk(t, msg) ==
    LET buf == line[t] \o msg IN
    \E out \in 0 .. Len(buf) :
       /\ out > 0 => buf[out] = "nl"
       /\ \A i \in out + 1 .. Len(buf) : buf[i] # "nl"
       /\ Len(buf) - out <= MaxLine
       /\ LogBufAppend(SubSeq(buf, 1, out))
       /\ line' = [line EXCEPT ![t] = SubSeq(buf, out + 1, Len(buf))]

\* SYSLOG_ACTION_READ; a copy to the guest that fails leaves the log alone.
SyslogActionRead(len) ==
    LET n == Clip(len) IN
    /\ head' = (head + n) % Cap /\ size' = size - n
    /\ log' = SubSeq(log, n + 1, Len(log))
    /\ UNCHANGED <<mem, line>>

\* SYSLOG_ACTION_CLEAR, and READ_CLEAR, which clears after a failed copy too.
SyslogClear ==
    /\ head' = 0 /\ size' = 0 /\ log' = <<>>
    /\ UNCHANGED <<mem, line>>

LogNext ==
    \/ \E t \in LogThreads, n \in 0 .. MaxPiece :
          \E msg \in [1 .. n -> {t, "nl"}] : Printk(t, msg)
    \/ \E len \in -1 .. Cap + 1 : SyslogActionRead(len)
    \/ SyslogClear

LogSpec == LogInit /\ [][LogNext]_logVars
-----------------------------------------------------------------------------
LogTypeOK ==
    /\ mem \in [0 .. Cap - 1 -> LogThreads \cup {"nl", "zero"}]
    /\ head \in 0 .. Cap - 1 /\ size \in 0 .. Cap /\ Len(log) <= Cap
    /\ \A t \in LogThreads : Len(line[t]) <= MaxLine

\* The ring holds the last bytes printed and not yet read, in their order,
\* across every wrap of head and tail (kernel/log.c:98-116, 60-65).
RingIsLog == Contents = log

\* READ returns the oldest bytes of the log, in their order, wherever its head
\* and its end are in the array, and never one from behind it.  So does READ_ALL:
\* it computes where the newest bytes begin (kernel/log.c:54), and syslog_read
\* reads from log_head all the same (35), so a short buffer gets the oldest.
SyslogReturnsLog ==
    \A len \in -1 .. Cap + 1 :
        /\ SyslogRead(len) = SubSeq(log, 1, Clip(len))
        /\ SyslogReadAll(len) = SubSeq(log, 1, Clip(len))

\* A line in the log is one thread's, whoever printed at the same time.
LinesWhole ==
    \A i \in 1 .. size - 1 :
        Contents[i] # "nl" /\ Contents[i + 1] # "nl" => Contents[i] = Contents[i + 1]

\* All of the log's promises.
LogSound == LogTypeOK /\ RingIsLog /\ SyslogReturnsLog /\ LinesWhole
=============================================================================
