-------------------------- MODULE FileCalls_proofs --------------------------
(* Proofs about calls on open files, for any number of tasks: the calls of   *)
(* fs/tty.c take their locks in one order and so never wait for each other   *)
(* in a circle (TtyLocks), a terminal keeps its lines and leaves no reader   *)
(* asleep (Tty), reads of a shared file are where and as long as they say    *)
(* (FileIo), poll and select answer what was asked (PollCalls), and          *)
(* directories are listed whole (ProcFs).  The five share no state.          *)
EXTENDS TtyLocks, Tty, FileIo, PollCalls, ProcFs, SequenceTheorems, FiniteSetTheorems,
        WellFoundedInduction, TLAPS

-----------------------------------------------------------------------------
(* The order of the locks, and the calls that keep to it *)

Op == [lock : Locks, take : BOOLEAN]

\* The order the calls keep to; fs/tty.c does not write it down.
Rank(l) == IF l = "ttys" THEN 1 ELSE IF l = "fds" THEN 2 ELSE IF l = "fdpoll" THEN 3
           ELSE IF l = "poll" THEN 4 ELSE IF l = "tty" THEN 5
           ELSE IF l = "pids" THEN 6 ELSE 7

\* Lock l comes after every lock of H.
Above(l, H) == \A k \in H : Rank(k) < Rank(l)

\* A lock operation that takes the set H of held locks to the set G, in order.
Orderly(op, H, G) ==
  IF op.take THEN Above(op.lock, H) /\ G = H \cup {op.lock} ELSE G = H \ {op.lock}

\* The held locks before and after each operation of c.
Trace(h, c) ==
  /\ h \in [0 .. Len(c) -> SUBSET Locks]
  /\ \A i \in 1 .. Len(c) : Orderly(c[i], h[i - 1], h[i])

\* The operations c keep to the order, from holding H to holding G.
Path(c, H, G) ==
  /\ c \in Seq(Op)
  /\ \E h : Trace(h, c) /\ h[0] = H /\ h[Len(c)] = G

\* A single operation.
LEMMA PathOne ==
  \A op, H, G : op \in Op /\ H \in SUBSET Locks /\ G \in SUBSET Locks /\ Orderly(op, H, G)
    => Path(<<op>>, H, G)
<1>. SUFFICES ASSUME NEW op \in Op, NEW H \in SUBSET Locks, NEW G \in SUBSET Locks,
                     Orderly(op, H, G)
              PROVE  Path(<<op>>, H, G)
  OBVIOUS
<1>. DEFINE h == [i \in 0 .. 1 |-> IF i = 0 THEN H ELSE G]
<1>1. <<op>> \in Seq(Op) /\ Len(<<op>>) = 1 /\ <<op>>[1] = op
  OBVIOUS
<1>2. h \in [0 .. 1 -> SUBSET Locks] /\ h[0] = H /\ h[1] = G
  OBVIOUS
<1>. HIDE DEF h
<1>3. \A i \in 1 .. 1 : i = 1 /\ i - 1 = 0
  OBVIOUS
<1>4. Trace(h, <<op>>)
  BY <1>1, <1>2, <1>3 DEF Trace
<1>. QED
  BY <1>1, <1>2, <1>4 DEF Path

\* One stretch of operations after another.
LEMMA PathThen ==
  \A a, b, H, I, G : Path(a, H, I) /\ Path(b, I, G) => Path(a \o b, H, G)
<1>. SUFFICES ASSUME NEW a, NEW b, NEW H, NEW I, NEW G, Path(a, H, I), Path(b, I, G)
              PROVE  Path(a \o b, H, G)
  OBVIOUS
<1>1. a \in Seq(Op) /\ b \in Seq(Op)
  BY DEF Path
<1>2. PICK f : Trace(f, a) /\ f[0] = H /\ f[Len(a)] = I
  BY DEF Path
<1>3. PICK g : Trace(g, b) /\ g[0] = I /\ g[Len(b)] = G
  BY DEF Path
<1>. DEFINE m == Len(a)
            n == Len(b)
            h == [i \in 0 .. m + n |-> IF i <= m THEN f[i] ELSE g[i - m]]
<1>4. m \in Nat /\ n \in Nat
  BY <1>1
<1>5. /\ a \o b \in Seq(Op) /\ Len(a \o b) = m + n
      /\ \A i \in 1 .. m : (a \o b)[i] = a[i]
      /\ \A i \in 1 .. n : (a \o b)[m + i] = b[i]
  BY <1>1
<1>6. /\ f \in [0 .. m -> SUBSET Locks] /\ \A i \in 1 .. m : Orderly(a[i], f[i - 1], f[i])
      /\ g \in [0 .. n -> SUBSET Locks] /\ \A i \in 1 .. n : Orderly(b[i], g[i - 1], g[i])
      /\ f[m] = g[0] /\ f[0] = H /\ g[n] = G
  BY <1>2, <1>3 DEF Trace
<1>. HIDE DEF m, n
<1>7. h \in [0 .. m + n -> SUBSET Locks]
  BY <1>4, <1>6
<1>8. /\ \A i \in 0 .. m : h[i] = f[i]
      /\ \A i \in 0 .. n : h[m + i] = g[i]
  <2>1. \A i \in 0 .. m : i \in 0 .. m + n /\ i <= m
    BY <1>4
  <2>2. ASSUME NEW i \in 0 .. n PROVE h[m + i] = g[i]
    <3>1. m + i \in 0 .. m + n /\ (m + i) - m = i /\ (m + i <= m <=> i = 0)
      BY <1>4
    <3>2. h[m + i] = IF m + i <= m THEN f[m + i] ELSE g[(m + i) - m]
      BY <3>1
    <3>3. i = 0 => m + i = m
      BY <1>4
    <3>. HIDE DEF h
    <3>. QED
      BY <1>6, <3>1, <3>2, <3>3
  <2>. QED
    BY <2>1, <2>2
<1>. HIDE DEF h
<1>9. ASSUME NEW i \in 1 .. m + n
      PROVE  Orderly((a \o b)[i], h[i - 1], h[i])
  <2>1. CASE i <= m
    <3>1. i \in 1 .. m /\ i - 1 \in 0 .. m /\ i \in 0 .. m
      BY <1>4, <2>1
    <3>. QED
      BY <1>5, <1>6, <1>8, <3>1
  <2>2. CASE i > m
    <3>1. PICK j \in 1 .. n : i = m + j
      <4>1. i - m \in 1 .. n /\ i = m + (i - m)
        BY <1>4, <2>2
      <4>. QED
        BY <4>1
    <3>2. j - 1 \in 0 .. n /\ j \in 0 .. n /\ i - 1 = m + (j - 1)
      BY <1>4, <3>1
    <3>3. h[i - 1] = g[j - 1] /\ h[i] = g[j] /\ (a \o b)[i] = b[j]
      BY <1>5, <1>8, <3>1, <3>2
    <3>. QED
      BY <1>6, <3>3
  <2>3. i <= m \/ i > m
    BY <1>4
  <2>. QED
    BY <2>1, <2>2, <2>3
<1>10. h[0] = H /\ h[m + n] = G
  BY <1>4, <1>6, <1>8
<1>. QED
  BY <1>5, <1>7, <1>9, <1>10 DEF Path, Trace

\* Nothing done, nothing changed.
LEMMA PathNothing == \A H \in SUBSET Locks : Path(<<>>, H, H)
<1>. SUFFICES ASSUME NEW H \in SUBSET Locks PROVE Path(<<>>, H, H)
  OBVIOUS
<1>. DEFINE h == [i \in 0 .. 0 |-> H]
<1>1. <<>> \in Seq(Op) /\ Len(<<>>) = 0
  OBVIOUS
<1>2. h \in [0 .. 0 -> SUBSET Locks] /\ h[0] = H
  OBVIOUS
<1>. HIDE DEF h
<1>3. Trace(h, <<>>)
  BY <1>1, <1>2 DEF Trace
<1>. QED
  BY <1>1, <1>2, <1>3 DEF Path

LEMMA PathLock ==
  \A l \in Locks, H \in SUBSET Locks : Above(l, H) => Path(Lock(l), H, H \cup {l})
<1>. SUFFICES ASSUME NEW l \in Locks, NEW H \in SUBSET Locks, Above(l, H)
              PROVE  Path(Lock(l), H, H \cup {l})
  OBVIOUS
<1>. DEFINE op == [lock |-> l, take |-> TRUE]
<1>1. op \in Op /\ op.take /\ op.lock = l
  BY DEF Op
<1>. HIDE DEF op
<1>2. Orderly(op, H, H \cup {l}) /\ H \cup {l} \in SUBSET Locks
  BY <1>1 DEF Orderly
<1>3. Path(<<op>>, H, H \cup {l})
  BY <1>1, <1>2, PathOne
<1>. QED
  BY <1>3 DEF Lock, op

LEMMA PathUnlock ==
  \A l \in Locks, H \in SUBSET Locks : Path(Unlock(l), H, H \ {l})
<1>. SUFFICES ASSUME NEW l \in Locks, NEW H \in SUBSET Locks
              PROVE  Path(Unlock(l), H, H \ {l})
  OBVIOUS
<1>. DEFINE op == [lock |-> l, take |-> FALSE]
<1>1. op \in Op /\ ~op.take /\ op.lock = l
  BY DEF Op
<1>. HIDE DEF op
<1>2. Orderly(op, H, H \ {l}) /\ H \ {l} \in SUBSET Locks
  BY <1>1 DEF Orderly
<1>3. Path(<<op>>, H, H \ {l})
  BY <1>1, <1>2, PathOne
<1>. QED
  BY <1>3 DEF Unlock, op

\* A critical section whose body keeps what it finds keeps what it finds.
LEMMA PathUnder ==
  \A l \in Locks, H \in SUBSET Locks : \A body :
    Above(l, H) /\ Path(body, H \cup {l}, H \cup {l}) => Path(Under(l, body), H, H)
<1>. SUFFICES ASSUME NEW l \in Locks, NEW H \in SUBSET Locks, NEW body, Above(l, H),
                     Path(body, H \cup {l}, H \cup {l})
              PROVE  Path(Under(l, body), H, H)
  OBVIOUS
<1>1. l \notin H /\ H \cup {l} \in SUBSET Locks
  BY DEF Above, Rank
<1>2. Path(Lock(l), H, H \cup {l})
  BY PathLock
<1>3. Path(Unlock(l), H \cup {l}, H)
  <2>1. (H \cup {l}) \ {l} = H
    BY <1>1
  <2>. QED
    BY <1>1, <2>1, PathUnlock
<1>4. Path(Lock(l) \o body, H, H \cup {l})
  BY <1>2, PathThen
<1>. QED
  BY <1>3, <1>4, PathThen DEF Under

LEMMA PathBriefly ==
  \A l \in Locks, H \in SUBSET Locks : Above(l, H) => Path(Briefly(l), H, H)
<1>. SUFFICES ASSUME NEW l \in Locks, NEW H \in SUBSET Locks, Above(l, H)
              PROVE  Path(Briefly(l), H, H)
  OBVIOUS
<1>1. Path(<<>>, H \cup {l}, H \cup {l})
  BY PathNothing
<1>. QED
  BY <1>1, PathUnder DEF Briefly

-----------------------------------------------------------------------------
(* Every call of fs/tty.c keeps to the order *)

\* Terminals are looked up and dropped, opened and closed in order.
LEMMA OpensAreOrdered ==
  /\ \A b \in BOOLEAN : Path(OpenDevice(b), {}, {}) /\ Path(OpenCurrent(b), {}, {})
  /\ Path(TtyClose, {}, {})
<1>1. Path(TtyGet, {}, {})
  <2>1. Path(Briefly("tty"), {} \cup {"ttys"}, {} \cup {"ttys"})
    BY PathBriefly DEF Locks, Above, Rank
  <2>. QED
    BY <2>1, PathUnder DEF TtyGet, Locks, Above
<1>2. Path(Briefly("fds"), {}, {})
  BY PathBriefly DEF Locks, Above
<1>3. ASSUME NEW b \in BOOLEAN PROVE Path(OpenRest(b), {}, {})
  <2>1. Path(SetControlling, {} \cup {"pids"}, {} \cup {"pids"})
    BY PathBriefly DEF SetControlling, Locks, Above, Rank
  <2>2. Path(<<>>, {} \cup {"pids"}, {} \cup {"pids"})
    BY PathNothing DEF Locks
  <2>3. Path(IF b THEN SetControlling ELSE <<>>, {} \cup {"pids"}, {} \cup {"pids"})
    BY <2>1, <2>2
  <2>4. Path(Under("pids", IF b THEN SetControlling ELSE <<>>), {}, {})
    BY <2>3, PathUnder DEF Locks, Above
  <2>. QED
    BY <1>2, <2>4, PathThen DEF OpenRest
<1>4. Path(Under("ttys", Briefly("group")), {}, {})
  <2>1. Path(Briefly("group"), {} \cup {"ttys"}, {} \cup {"ttys"})
    BY PathBriefly DEF Locks, Above, Rank
  <2>. QED
    BY <2>1, PathUnder DEF Locks, Above
<1>. QED
  BY <1>1, <1>2, <1>3, <1>4, PathThen DEF OpenDevice, OpenCurrent, TtyClose, TtyGet, TtyRelease

\* The two calls that come back with ttys_lock held.
LEMMA LeaksAreOrdered ==
  Path(OpenWithoutTty, {}, {"ttys"}) /\ Path(OpenWithoutMemory, {}, {"ttys"})
<1>1. Path(Lock("ttys"), {}, {} \cup {"ttys"})
  BY PathLock DEF Locks, Above
<1>2. Path(Briefly("group"), {"ttys"}, {"ttys"})
  BY PathBriefly DEF Locks, Above, Rank
<1>3. {} \cup {"ttys"} = {"ttys"}
  OBVIOUS
<1>. QED
  BY <1>1, <1>2, <1>3, PathThen DEF OpenWithoutTty, OpenWithoutMemory

\* tty_wake and the sending of a signal, with the terminal locked around them.
LEMMA WakesAreOrdered ==
  Path(TtyWake, {"tty"}, {"tty"}) /\ Path(SendSignal, {"tty"}, {"tty"})
<1>1. Path(Unlock("tty"), {"tty"}, {})
  <2>1. {"tty"} \ {"tty"} = {}
    OBVIOUS
  <2>. QED
    BY <2>1, PathUnlock DEF Locks
<1>2. Path(Lock("tty"), {}, {"tty"})
  <2>1. {} \cup {"tty"} = {"tty"}
    OBVIOUS
  <2>. QED
    BY <2>1, PathLock DEF Locks, Above
<1>3. Path(Under("fds", Under("fdpoll", Briefly("poll"))), {}, {})
  <2>. DEFINE F == {} \cup {"fds"}
              D == F \cup {"fdpoll"}
  <2>1. F \in SUBSET Locks /\ D \in SUBSET Locks /\ {} \in SUBSET Locks
    BY DEF Locks
  <2>2. Above("poll", D) /\ Above("fdpoll", F) /\ Above("fds", {})
    BY DEF Above, Rank
  <2>3. "fds" \in Locks /\ "fdpoll" \in Locks /\ "poll" \in Locks
    BY DEF Locks
  <2>4. Path(Briefly("poll"), D, D)
    BY <2>1, <2>2, <2>3, PathBriefly
  <2>5. Path(Under("fdpoll", Briefly("poll")), F, F)
    BY <2>1, <2>2, <2>3, <2>4, PathUnder
  <2>. QED
    BY <2>1, <2>2, <2>3, <2>5, PathUnder
<1>4. Path(Briefly("pids"), {}, {})
  BY PathBriefly DEF Locks, Above
<1>5. Path(TtyWake, {"tty"}, {"tty"})
  BY <1>1, <1>2, <1>3, PathThen DEF TtyWake
<1>6. Path(SendSignal, {"tty"}, {"tty"})
  BY <1>1, <1>2, <1>4, PathThen DEF SendSignal
<1>. QED
  BY <1>5, <1>6

\* The calls that hold the terminal's lock, with what they do under it.
LEMMA UnderTty == \A body : Path(body, {"tty"}, {"tty"}) => Path(Under("tty", body), {}, {})
<1>1. {} \cup {"tty"} = {"tty"} /\ "tty" \in Locks /\ {} \in SUBSET Locks /\ Above("tty", {})
  BY DEF Locks, Above
<1>2. \A body : Above("tty", {}) /\ Path(body, {} \cup {"tty"}, {} \cup {"tty"})
                  => Path(Under("tty", body), {}, {})
  BY <1>1, PathUnder
<1>. QED
  BY <1>1, <1>2

LEMMA TerminalCallsAreOrdered ==
  /\ \A b \in BOOLEAN : Path(Input(b), {}, {}) /\ Path(SetCtty(b), {}, {})
  /\ Path(GetGroup, {}, {}) /\ Path(SetGroup, {}, {}) /\ Path(SetWinsize, {}, {})
<1>. DEFINE T == {"tty"}
            P == T \cup {"pids"}
<1>0. /\ T \in SUBSET Locks /\ P \in SUBSET Locks
      /\ "pids" \in Locks /\ "group" \in Locks
      /\ Above("pids", T) /\ Above("group", T) /\ Above("group", P)
  BY DEF Locks, Above, Rank
<1>1. Path(Briefly("group"), T, T) /\ Path(Briefly("pids"), T, T) /\ Path(Briefly("group"), P, P)
  BY <1>0, PathBriefly
<1>2. Path(<<>>, T, T) /\ Path(<<>>, P, P)
  BY <1>0, PathNothing
<1>3. ASSUME NEW b \in BOOLEAN PROVE Path(Input(b), {}, {})
  <2>1. Path(IF b THEN SendSignal ELSE <<>>, T, T)
    BY <1>2, WakesAreOrdered
  <2>2. Path((IF b THEN SendSignal ELSE <<>>) \o TtyWake, T, T)
    BY <2>1, WakesAreOrdered, PathThen
  <2>. QED
    BY <2>2, UnderTty DEF Input
<1>4. ASSUME NEW b \in BOOLEAN PROVE Path(SetCtty(b), {}, {})
  <2>. DEFINE body == (IF b THEN Briefly("group") ELSE <<>>) \o SetControlling
  <2>1. Path(IF b THEN Briefly("group") ELSE <<>>, P, P)
    BY <1>1, <1>2
  <2>2. Path(body, P, P)
    BY <1>1, <2>1, PathThen DEF SetControlling
  <2>. HIDE DEF body
  <2>3. Path(Under("pids", body), T, T)
    BY <1>0, <2>2, PathUnder
  <2>4. Path(Under("tty", Under("pids", body)), {}, {})
    BY <2>3, UnderTty
  <2>. QED
    BY <2>4 DEF SetCtty, body
<1>5. Path(GetGroup, {}, {})
  BY <1>1, UnderTty DEF GetGroup, IsCurrent
<1>6. Path(SetGroup, {}, {})
  <2>1. Path(Briefly("pids") \o IsCurrent, T, T)
    BY <1>1, PathThen DEF IsCurrent
  <2>. QED
    BY <2>1, UnderTty DEF SetGroup
<1>7. Path(SetWinsize, {}, {})
  BY WakesAreOrdered, UnderTty DEF SetWinsize
<1>. QED
  BY <1>3, <1>4, <1>5, <1>6, <1>7

\* setsid and the calls of fs/poll.c that meet the terminals.
LEMMA OtherCallsAreOrdered ==
  Path(Setsid, {}, {}) /\ Path(TtyPoll, {}, {}) /\ Path(PollAdd, {}, {})
<1>. DEFINE S(l) == {} \cup {l}
<1>0. /\ \A l \in Locks : S(l) \in SUBSET Locks /\ Above(l, {})
      /\ {"pids", "group", "poll", "tty", "fdpoll"} \subseteq Locks
      /\ Above("group", S("pids")) /\ Above("tty", S("poll")) /\ Above("poll", S("fdpoll"))
      /\ {} \in SUBSET Locks
  BY DEF Locks, Above, Rank
<1>1. /\ Path(Briefly("group"), S("pids"), S("pids"))
      /\ Path(Briefly("tty"), S("poll"), S("poll"))
      /\ Path(Briefly("poll"), S("fdpoll"), S("fdpoll"))
  BY <1>0, PathBriefly
<1>2. Path(Setsid, {}, {})
  BY <1>0, <1>1, PathUnder DEF Setsid
<1>3. Path(TtyPoll, {}, {})
  BY <1>0, <1>1, PathUnder DEF TtyPoll
<1>4. Path(PollAdd, {}, {})
  BY <1>0, <1>1, PathUnder DEF PollAdd
<1>. QED
  BY <1>2, <1>3, <1>4

\* Every call keeps to the order from holding nothing.
LEMMA CallsAreOrdered == \A c \in Calls : \E G \in SUBSET Locks : Path(c, {}, G)
<1>1. {} \in SUBSET Locks /\ {"ttys"} \in SUBSET Locks
  BY DEF Locks
<1>. QED
  BY <1>1, OpensAreOrdered, LeaksAreOrdered, TerminalCallsAreOrdered, OtherCallsAreOrdered
     DEF Calls

-----------------------------------------------------------------------------
(* Every call is short *)

Short(c, n) == c \in Seq(Op) /\ Len(c) <= n

\* One operation is one long, and lengths add up.
LEMMA ShortParts ==
  /\ \A l \in Locks : Short(Lock(l), 1) /\ Short(Unlock(l), 1) /\ Short(Briefly(l), 2)
  /\ \A a, b : \A m, n \in Nat : Short(a, m) /\ Short(b, n) => Short(a \o b, m + n)
  /\ \A l \in Locks, n \in Nat : \A body : Short(body, n) => Short(Under(l, body), n + 2)
  /\ \A n \in Nat : Short(<<>>, n)
<1>1. ASSUME NEW l \in Locks PROVE Short(Lock(l), 1) /\ Short(Unlock(l), 1)
  <2>1. [lock |-> l, take |-> TRUE] \in Op /\ [lock |-> l, take |-> FALSE] \in Op
    BY DEF Op
  <2>2. \A op \in Op : <<op>> \in Seq(Op) /\ Len(<<op>>) = 1
    OBVIOUS
  <2>. QED
    BY <2>1, <2>2 DEF Lock, Unlock, Short
<1>2. ASSUME NEW a, NEW b, NEW m \in Nat, NEW n \in Nat, Short(a, m), Short(b, n)
      PROVE  Short(a \o b, m + n)
  <2>1. a \o b \in Seq(Op) /\ Len(a \o b) = Len(a) + Len(b) /\ Len(a) \in Nat /\ Len(b) \in Nat
    BY <1>2 DEF Short
  <2>. QED
    BY <1>2, <2>1 DEF Short
<1>3. ASSUME NEW l \in Locks, NEW n \in Nat, NEW body, Short(body, n)
      PROVE  Short(Under(l, body), n + 2)
  <2>1. Short(Lock(l) \o body, 1 + n)
    BY <1>1, <1>2, <1>3
  <2>2. Short((Lock(l) \o body) \o Unlock(l), (1 + n) + 1)
    BY <1>1, <1>2, <2>1
  <2>3. (1 + n) + 1 = n + 2
    OBVIOUS
  <2>. QED
    BY <2>2, <2>3 DEF Under
<1>4. ASSUME NEW n \in Nat PROVE Short(<<>>, n)
  <2>1. <<>> \in Seq(Op) /\ Len(<<>>) = 0
    OBVIOUS
  <2>. QED
    BY <2>1 DEF Short
<1>5. \A l \in Locks : Short(Briefly(l), 2)
  BY <1>3, <1>4 DEF Briefly
<1>. QED
  BY <1>1, <1>2, <1>3, <1>4, <1>5

\* The longest call is the input of a character that sends a signal.
LEMMA CallsAreShort == \A c \in Calls : Len(c) <= 20
<1>0. /\ {"ttys", "tty", "fds", "pids", "group", "fdpoll", "poll"} \subseteq Locks
      /\ \A c, m, n : m \in Nat /\ n \in Nat /\ m <= n /\ Short(c, m) => Short(c, n)
  BY DEF Locks, Short
<1>1. Short(TtyGet, 4) /\ Short(Under("ttys", Briefly("group")), 4) /\ Short(SetControlling, 2)
  BY <1>0, ShortParts DEF TtyGet, SetControlling
<1>2. ASSUME NEW b \in BOOLEAN PROVE Short(OpenDevice(b), 10) /\ Short(OpenCurrent(b), 10)
  <2>1. Short(IF b THEN SetControlling ELSE <<>>, 2)
    BY <1>1, ShortParts
  <2>2. Short(Under("pids", IF b THEN SetControlling ELSE <<>>), 4)
    BY <1>0, <2>1, ShortParts
  <2>3. Short(OpenRest(b), 6)
    BY <1>0, <2>2, ShortParts DEF OpenRest
  <2>. QED
    BY <1>1, <2>3, ShortParts DEF OpenDevice, OpenCurrent
<1>3. Short(OpenWithoutTty, 3) /\ Short(OpenWithoutMemory, 1) /\ Short(TtyClose, 6)
  <2>1. Short(OpenWithoutTty, 1 + 2) /\ Short(OpenWithoutMemory, 1)
    BY <1>0, ShortParts DEF OpenWithoutTty, OpenWithoutMemory
  <2>2. Short(Briefly("fds"), 2) /\ Short(TtyRelease, 4)
    BY <1>0, <1>1, ShortParts DEF TtyRelease, TtyGet
  <2>3. Short(TtyClose, 2 + 4)
    BY <2>2, ShortParts DEF TtyClose
  <2>. QED
    BY <2>1, <2>3
<1>4. Short(TtyWake, 8) /\ Short(SendSignal, 4)
  <2>1. Short(Under("fds", Under("fdpoll", Briefly("poll"))), 6)
    <3>1. Short(Under("fdpoll", Briefly("poll")), 4)
      BY <1>0, ShortParts
    <3>. QED
      BY <1>0, <3>1, ShortParts
  <2>2. Short(Unlock("tty") \o Under("fds", Under("fdpoll", Briefly("poll"))), 7)
    BY <1>0, <2>1, ShortParts
  <2>3. Short(Unlock("tty") \o Briefly("pids"), 3)
    BY <1>0, ShortParts
  <2>4. Short(Lock("tty"), 1)
    BY <1>0, ShortParts
  <2>5. Short(TtyWake, 7 + 1)
    BY <2>2, <2>4, ShortParts DEF TtyWake
  <2>6. Short(SendSignal, 3 + 1)
    BY <2>3, <2>4, ShortParts DEF SendSignal
  <2>. QED
    BY <2>5, <2>6
<1>5. ASSUME NEW b \in BOOLEAN PROVE Short(Input(b), 14)
  <2>1. Short(IF b THEN SendSignal ELSE <<>>, 4)
    BY <1>4, ShortParts
  <2>2. Short((IF b THEN SendSignal ELSE <<>>) \o TtyWake, 12)
    BY <1>4, <2>1, ShortParts
  <2>. QED
    BY <1>0, <2>2, ShortParts DEF Input
<1>6. ASSUME NEW b \in BOOLEAN PROVE Short(SetCtty(b), 8)
  <2>1. Short(IF b THEN Briefly("group") ELSE <<>>, 2)
    BY <1>0, ShortParts
  <2>2. Short((IF b THEN Briefly("group") ELSE <<>>) \o SetControlling, 4)
    BY <1>1, <2>1, ShortParts
  <2>3. Short(Under("pids", (IF b THEN Briefly("group") ELSE <<>>) \o SetControlling), 6)
    BY <1>0, <2>2, ShortParts
  <2>. QED
    BY <1>0, <2>3, ShortParts DEF SetCtty
<1>7. Short(GetGroup, 4) /\ Short(SetGroup, 6) /\ Short(SetWinsize, 6)
  <2>1. Short(Briefly("pids") \o IsCurrent, 4)
    BY <1>0, ShortParts DEF IsCurrent
  <2>. QED
    BY <1>0, <1>4, <2>1, ShortParts DEF GetGroup, SetGroup, SetWinsize, IsCurrent
<1>8. Short(Setsid, 4) /\ Short(TtyPoll, 4) /\ Short(PollAdd, 4)
  BY <1>0, ShortParts DEF Setsid, TtyPoll, PollAdd
<1>. QED
  BY <1>2, <1>3, <1>5, <1>6, <1>7, <1>8 DEF Calls, Short

-----------------------------------------------------------------------------
(* The invariant *)

\* The locks thread t holds.
Held(t) == {l \in Locks : owner[l] = t}

LockTypes ==
  /\ owner \in [Locks -> Threads \cup {NoThread}] /\ ttyLeaked \in BOOLEAN
  /\ rest \in [Threads -> Seq(Op)]
  /\ \A t \in Threads : Len(rest[t]) <= 20

\* What is left of every call keeps to the order from the locks its thread
\* holds, and a thread outside a call holds none.
Ordered ==
  \A t \in Threads :
    /\ \E G : Path(rest[t], Held(t), G)
    /\ rest[t] = <<>> => Held(t) = {}

Inv == LockTypes /\ (~ttyLeaked => Ordered)

\* A call in progress has a first operation, and the last one leaves nothing.
LEMMA FirstOp ==
  \A c \in Seq(Op) : c # <<>> =>
    /\ Head(c) \in Op /\ Head(c).lock \in Locks /\ Head(c).take \in BOOLEAN
    /\ Tail(c) \in Seq(Op) /\ (Tail(c) = <<>> => Len(c) = 1)
    /\ Len(c) \in Nat /\ Len(Tail(c)) = Len(c) - 1
<1>. SUFFICES ASSUME NEW c \in Seq(Op), c # <<>>
              PROVE  /\ Head(c) \in Op /\ Head(c).lock \in Locks /\ Head(c).take \in BOOLEAN
                     /\ Tail(c) \in Seq(Op) /\ (Tail(c) = <<>> => Len(c) = 1)
                     /\ Len(c) \in Nat /\ Len(Tail(c)) = Len(c) - 1
  OBVIOUS
<1>1. Head(c) \in Op /\ Tail(c) \in Seq(Op) /\ Len(c) \in Nat
  OBVIOUS
<1>2. Head(c).lock \in Locks /\ Head(c).take \in BOOLEAN
  BY <1>1 DEF Op
<1>3. Len(Tail(c)) = Len(c) - 1
  OBVIOUS
<1>4. Len(<<>>) = 0 /\ (Tail(c) = <<>> => Len(Tail(c)) = Len(<<>>))
  OBVIOUS
<1>. QED
  BY <1>1, <1>2, <1>3, <1>4

\* The first operation of a call, and the rest of it.
LEMMA PathFirst ==
  \A c, H, G : Path(c, H, G) /\ c # <<>>
    => /\ Head(c) \in Op /\ Tail(c) \in Seq(Op)
       /\ \E I : Orderly(Head(c), H, I) /\ Path(Tail(c), I, G)
<1>. SUFFICES ASSUME NEW c, NEW H, NEW G, Path(c, H, G), c # <<>>
              PROVE  /\ Head(c) \in Op /\ Tail(c) \in Seq(Op)
                     /\ \E I : Orderly(Head(c), H, I) /\ Path(Tail(c), I, G)
  OBVIOUS
<1>1. c \in Seq(Op)
  BY DEF Path
<1>2. PICK h : Trace(h, c) /\ h[0] = H /\ h[Len(c)] = G
  BY DEF Path
<1>. DEFINE n == Len(c) - 1
            k == [i \in 0 .. n |-> h[i + 1]]
<1>3. n \in Nat /\ Len(c) = n + 1
  BY <1>1
<1>4. /\ Head(c) = c[1] /\ Head(c) \in Op /\ Tail(c) \in Seq(Op) /\ Len(Tail(c)) = n
      /\ \A i \in 1 .. n : Tail(c)[i] = c[i + 1]
  BY <1>1
<1>5. /\ h \in [0 .. n + 1 -> SUBSET Locks]
      /\ \A i \in 1 .. n + 1 : Orderly(c[i], h[i - 1], h[i])
      /\ h[n + 1] = G
  BY <1>2, <1>3 DEF Trace
<1>. HIDE DEF n
<1>6. Orderly(Head(c), H, h[1])
  <2>1. 1 \in 1 .. n + 1 /\ 1 - 1 = 0
    BY <1>3
  <2>. QED
    BY <1>2, <1>4, <1>5, <2>1
<1>7. /\ k \in [0 .. n -> SUBSET Locks]
      /\ \A i \in 0 .. n : k[i] = h[i + 1]
  <2>1. \A i \in 0 .. n : i + 1 \in 0 .. n + 1
    BY <1>3
  <2>. QED
    BY <1>5, <2>1
<1>8. k[0] = h[1] /\ k[n] = G
  <2>1. 0 \in 0 .. n /\ n \in 0 .. n /\ 0 + 1 = 1
    BY <1>3
  <2>. QED
    BY <1>5, <1>7, <2>1
<1>. HIDE DEF k
<1>9. ASSUME NEW i \in 1 .. n
      PROVE  Orderly(Tail(c)[i], k[i - 1], k[i])
  <2>1. i - 1 \in 0 .. n /\ i \in 0 .. n /\ (i - 1) + 1 = i
        /\ i + 1 \in 1 .. n + 1 /\ (i + 1) - 1 = i
    BY <1>3
  <2>. QED
    BY <1>4, <1>5, <1>7, <2>1
<1>10. Path(Tail(c), h[1], G)
  BY <1>4, <1>7, <1>8, <1>9 DEF Path, Trace
<1>. QED
  BY <1>4, <1>6, <1>10

\* All threads are outside their calls at first.
LEMMA InitOrdered == LocksInit => Inv
<1>. SUFFICES ASSUME LocksInit PROVE Inv
  OBVIOUS
<1>1. LockTypes
  <2>1. <<>> \in Seq(Op) /\ Len(<<>>) = 0
    OBVIOUS
  <2>2. owner = [l \in Locks |-> NoThread] /\ ttyLeaked = FALSE /\ rest = [t \in Threads |-> <<>>]
    BY DEF LocksInit
  <2>3. rest \in [Threads -> Seq(Op)] /\ \A t \in Threads : Len(rest[t]) <= 20
    BY <2>1, <2>2
  <2>4. owner \in [Locks -> Threads \cup {NoThread}] /\ ttyLeaked \in BOOLEAN
    BY <2>2
  <2>. QED
    BY <2>3, <2>4 DEF LockTypes
<1>2. \A t \in Threads : rest[t] = <<>> /\ Held(t) = {}
  BY TtyLocksAssumption DEF LocksInit, Held
<1>3. {} \in SUBSET Locks
  OBVIOUS
<1>. QED
  BY <1>1, <1>2, <1>3, PathNothing DEF Inv, Ordered

\* A call begins with nothing held; each operation keeps what is left in order.
LEMMA StepOrdered ==
  Inv /\ [LocksNext]_lockVars => Inv'
<1>. SUFFICES ASSUME Inv, [LocksNext]_lockVars PROVE Inv'
  OBVIOUS
<1>1. ASSUME NEW t \in Threads, Call(t) PROVE Inv'
  <2>1. PICK c \in Calls : rest' = [rest EXCEPT ![t] = c]
    BY <1>1 DEF Call
  <2>2. PICK G : Path(c, {}, G)
    BY CallsAreOrdered
  <2>3. rest[t] = <<>> /\ UNCHANGED <<owner, ttyLeaked>>
    BY <1>1 DEF Call
  <2>4. c \in Seq(Op) /\ Len(c) <= 20
    BY <2>2, CallsAreShort DEF Path
  <2>5. /\ LockTypes' /\ rest'[t] = c
        /\ \A u \in Threads \ {t} : rest'[u] = rest[u]
    BY <2>1, <2>3, <2>4 DEF Inv, LockTypes
  <2>6. ASSUME ~ttyLeaked' PROVE Ordered'
    <3>1. Ordered
      BY <2>3, <2>6 DEF Inv
    <3>2. \A u \in Threads : Held(u)' = Held(u)
      BY <2>3 DEF Held
    <3>3. Held(t) = {}
      BY <2>3, <3>1 DEF Ordered
    <3>. QED
      BY <2>2, <2>5, <3>1, <3>2, <3>3 DEF Ordered
  <2>. QED
    BY <2>5, <2>6 DEF Inv
<1>2. ASSUME NEW t \in Threads, Step(t) PROVE Inv'
  <2>. DEFINE op == Head(rest[t])
  <2>1. /\ rest[t] # <<>>
        /\ IF op.take THEN owner[op.lock] = NoThread ELSE owner[op.lock] = t
        /\ owner' = [owner EXCEPT ![op.lock] = IF op.take THEN t ELSE NoThread]
        /\ rest' = [rest EXCEPT ![t] = Tail(rest[t])]
        /\ ttyLeaked' = (ttyLeaked \/ (Len(rest[t]) = 1 /\ \E l \in Locks : owner'[l] = t))
    BY <1>2 DEF Step
  <2>2. /\ owner \in [Locks -> Threads \cup {NoThread}]
        /\ rest \in [Threads -> Seq(Op)] /\ rest[t] \in Seq(Op)
        /\ ttyLeaked \in BOOLEAN /\ \A u \in Threads : Len(rest[u]) <= 20
    BY DEF Inv, LockTypes
  <2>3. op \in Op /\ Tail(rest[t]) \in Seq(Op) /\ op.lock \in Locks /\ op.take \in BOOLEAN
    BY <2>1, <2>2, FirstOp
  <2>4. /\ Tail(rest[t]) = <<>> => Len(rest[t]) = 1
        /\ Len(Tail(rest[t])) <= 20
    BY <2>1, <2>2, FirstOp
  <2>. HIDE DEF op
  <2>5. /\ LockTypes' /\ rest'[t] = Tail(rest[t])
        /\ \A u \in Threads \ {t} : rest'[u] = rest[u]
    BY <2>1, <2>2, <2>3, <2>4 DEF LockTypes
  <2>6. \A l \in Locks : owner'[l] = IF l = op.lock THEN IF op.take THEN t ELSE NoThread
                                     ELSE owner[l]
    BY <2>1, <2>2, <2>3
  <2>7. \A u \in Threads \ {t} : Held(u)' = Held(u)
    BY <2>1, <2>6, TtyLocksAssumption DEF Held
  <2>8. Held(t)' = IF op.take THEN Held(t) \cup {op.lock} ELSE Held(t) \ {op.lock}
    <3>1. CASE op.take
      BY <2>3, <2>6, <3>1 DEF Held
    <3>2. CASE ~op.take
      BY <2>3, <2>6, <3>2, TtyLocksAssumption DEF Held
    <3>. QED
      BY <3>1, <3>2
  <2>9. ASSUME ~ttyLeaked' PROVE Ordered'
    <3>1. Ordered
      BY <2>1, <2>9 DEF Inv
    <3>2. PICK G : Path(rest[t], Held(t), G)
      BY <3>1 DEF Ordered
    <3>3. PICK I : Orderly(op, Held(t), I) /\ Path(Tail(rest[t]), I, G)
      BY <2>1, <3>2, PathFirst DEF op
    <3>4. I = Held(t)'
      BY <2>8, <3>3 DEF Orderly
    <3>5. Tail(rest[t]) = <<>> => Held(t)' = {}
      BY <2>1, <2>4, <2>9 DEF Held
    <3>. QED
      BY <2>5, <2>7, <3>1, <3>3, <3>4, <3>5 DEF Ordered
  <2>. QED
    BY <2>5, <2>9 DEF Inv
<1>3. CASE UNCHANGED lockVars
  BY <1>3 DEF lockVars, Inv, LockTypes, Ordered, Held
<1>. QED
  BY <1>1, <1>2, <1>3 DEF LocksNext, StuckAfterLeak

-----------------------------------------------------------------------------
(* No circle *)

\* A thread that waits for another one wants a lock below the one the other
\* waits for in its turn.
LEMMA WaitsClimb ==
  ASSUME LockTypes, Ordered, NEW t \in Threads, NEW u \in WaitsFor(t), WaitsFor(u) # {}
  PROVE  Rank(Head(rest[t]).lock) < Rank(Head(rest[u]).lock)
<1>1. /\ u \in Threads /\ rest[t] # <<>> /\ owner[Head(rest[t]).lock] = u
      /\ rest[u] # <<>> /\ Head(rest[u]).take
  BY DEF WaitsFor
<1>2. Head(rest[t]).lock \in Locks
  BY <1>1, FirstOp DEF LockTypes
<1>3. Head(rest[t]).lock \in Held(u)
  BY <1>1, <1>2 DEF Held
<1>4. PICK G : Path(rest[u], Held(u), G)
  BY <1>1 DEF Ordered
<1>5. \E I : Orderly(Head(rest[u]), Held(u), I)
  BY <1>1, <1>4, PathFirst
<1>. QED
  BY <1>1, <1>3, <1>5 DEF Orderly, Above

\* There are only seven locks to climb.
LEMMA OrderedHasNoCycle ==
  LockTypes /\ Ordered =>
    \A s \in (SUBSET Threads) \ {{}} : \E t \in s : WaitsFor(t) \cap s = {}
<1>. SUFFICES ASSUME LockTypes, Ordered, NEW s \in SUBSET Threads, s # {},
                     \A t \in s : WaitsFor(t) \cap s # {}
              PROVE  FALSE
  OBVIOUS
<1>. DEFINE At(k) == \E t \in s : Rank(Head(rest[t]).lock) >= k
<1>1. \A l : Rank(l) \in 1 .. 7
  BY DEF Rank
<1>2. ASSUME NEW k \in Nat, At(k) PROVE At(k + 1)
  <2>1. PICK t \in s : Rank(Head(rest[t]).lock) >= k
    BY <1>2
  <2>2. PICK u : u \in WaitsFor(t) /\ u \in s
    OBVIOUS
  <2>3. WaitsFor(u) # {}
    BY <2>2
  <2>4. Rank(Head(rest[t]).lock) < Rank(Head(rest[u]).lock)
    BY <2>2, <2>3, WaitsClimb
  <2>5. Rank(Head(rest[t]).lock) \in Nat /\ Rank(Head(rest[u]).lock) \in Nat
    BY <1>1
  <2>6. Rank(Head(rest[u]).lock) >= k + 1
    BY <2>1, <2>4, <2>5
  <2>. QED
    BY <2>2, <2>6
<1>3. At(1)
  BY <1>1
<1>4. \A k \in Nat : At(k) => At(k + 1)
  BY <1>2
<1>. HIDE DEF At
<1>5. At(2)
  BY <1>3, <1>4
<1>6. At(3)
  BY <1>4, <1>5
<1>7. At(4)
  BY <1>4, <1>6
<1>8. At(5)
  BY <1>4, <1>7
<1>9. At(6)
  BY <1>4, <1>8
<1>10. At(7)
  BY <1>4, <1>9
<1>11. At(8)
  BY <1>4, <1>10
<1>. QED
  BY <1>1, <1>11 DEF At

\* Whatever calls on terminals any number of threads make at once, they never
\* wait for each other in a circle, as long as no call has come back with
\* ttys_lock held.
THEOREM NoCircle == LocksSpec => []NoTtyLockCycle
<1>1. LocksInit => Inv
  BY InitOrdered
<1>2. Inv /\ [LocksNext]_lockVars => Inv'
  BY StepOrdered
<1>3. Inv => NoTtyLockCycle
  BY OrderedHasNoCycle DEF Inv, LockTypes, LocksTypeOK, NoTtyLockCycle
<1>. QED
  BY <1>1, <1>2, <1>3, PTL DEF LocksSpec

-----------------------------------------------------------------------------
(* The lines of a terminal *)
Bytes == {"x", "NUL"}

\* The finished lines of a buffer b with the flags f, and the line after them.
FinishedOf(f, b) == LET e == Ends(f, Len(b)) IN
                    IF e = {} THEN <<>> ELSE SubSeq(b, 1, CHOOSE i \in e : \A j \in e : j <= i)
EditedOf(f, b) == SubSeq(b, Len(FinishedOf(f, b)) + 1, Len(b))

\* k is the last of the first n places with a flag, or 0.
IsLast(f, n, k) == k \in 0 .. n /\ (k = 0 \/ f[k]) /\ \A j \in 1 .. n : f[j] => j <= k

\* c and its flags g are what b and f are without the first n places.
Shifted(f, b, g, c, n) ==
  Len(c) = Len(b) - n /\ \A i \in 1 .. Len(b) - n : c[i] = b[i + n] /\ (g[i] <=> f[i + n])

\* A set of places has a first and a last one.
LEMMA FirstAndLast ==
  ASSUME NEW n \in Nat, NEW e, e \subseteq 1 .. n, e # {}
  PROVE  (\E i \in e : \A j \in e : i <= j) /\ (\E i \in e : \A j \in e : j <= i)
<1>. DEFINE Less == {p \in Nat \X Nat : p[1] < p[2]}
<1>1. IsWellFoundedOn(Less, Nat)
  BY NatLessThanWellFounded DEF OpToRel
<1>2. ASSUME NEW T \in SUBSET Nat, T # {} PROVE \E x \in T : \A y \in T : x <= y
  <2>1. PICK x \in T : \A y \in T : ~(<<y, x>> \in Less)
    BY <1>1, <1>2, WFMin
  <2>2. \A y \in T : ~(y < x)
    BY <2>1
  <2>. QED
    BY <2>2
<1>. HIDE DEF Less
<1>3. \E i \in e : \A j \in e : i <= j
  BY <1>2
<1>4. \E i \in e : \A j \in e : j <= i
  <2>. DEFINE T == {n - i : i \in e}
  <2>1. T \in SUBSET Nat /\ T # {}
    <3>1. \A i \in e : n - i \in Nat
      OBVIOUS
    <3>. QED
      BY <3>1
  <2>2. PICK y \in T : \A z \in T : y <= z
    BY <1>2, <2>1
  <2>3. PICK i \in e : y = n - i
    OBVIOUS
  <2>4. \A j \in e : n - i <= n - j
    BY <2>2, <2>3
  <2>. QED
    BY <2>4
<1>. QED
  BY <1>3, <1>4

\* There is a last flag.
LEMMA LastIs ==
  ASSUME NEW f, NEW n \in Nat
  PROVE  /\ \E k \in 0 .. n : IsLast(f, n, k)
         /\ \A k : IsLast(f, n, k) =>
              /\ Ends(f, n) = {} <=> k = 0
              /\ k # 0 => (CHOOSE i \in Ends(f, n) : \A j \in Ends(f, n) : j <= i) = k
<1>0. Ends(f, n) \subseteq 1 .. n
  BY DEF Ends
<1>1. \E k \in 0 .. n : IsLast(f, n, k)
  <2>1. CASE Ends(f, n) = {}
    BY <2>1 DEF IsLast, Ends
  <2>2. CASE Ends(f, n) # {}
    <3>1. PICK k \in Ends(f, n) : \A j \in Ends(f, n) : j <= k
      BY <1>0, <2>2, FirstAndLast
    <3>. QED
      BY <3>1 DEF IsLast, Ends
  <2>. QED
    BY <2>1, <2>2
<1>2. ASSUME NEW k, IsLast(f, n, k)
      PROVE  /\ Ends(f, n) = {} <=> k = 0
             /\ k # 0 => (CHOOSE i \in Ends(f, n) : \A j \in Ends(f, n) : j <= i) = k
  <2>1. Ends(f, n) = {} <=> k = 0
    BY <1>2 DEF IsLast, Ends
  <2>2. ASSUME k # 0 PROVE (CHOOSE i \in Ends(f, n) : \A j \in Ends(f, n) : j <= i) = k
    <3>1. k \in Ends(f, n) /\ \A j \in Ends(f, n) : j <= k
      BY <1>2, <2>2 DEF IsLast, Ends
    <3>. DEFINE c == CHOOSE i \in Ends(f, n) : \A j \in Ends(f, n) : j <= i
    <3>2. c \in Ends(f, n) /\ \A j \in Ends(f, n) : j <= c
      BY <3>1
    <3>. HIDE DEF c
    <3>3. c = k
      BY <1>0, <3>1, <3>2
    <3>. QED
      BY <3>3 DEF c
  <2>. QED
    BY <2>1, <2>2
<1>. QED
  BY <1>1, <1>2

\* The finished lines end at the last flag.
LEMMA FinishedIs ==
  ASSUME NEW f, NEW b \in Seq(Bytes), NEW k, IsLast(f, Len(b), k)
  PROVE  /\ FinishedOf(f, b) = SubSeq(b, 1, k) /\ FinishedOf(f, b) \in Seq(Bytes)
         /\ Len(FinishedOf(f, b)) = k /\ \A i \in 1 .. k : FinishedOf(f, b)[i] = b[i]
         /\ EditedOf(f, b) = SubSeq(b, k + 1, Len(b))
<1>0. Len(b) \in Nat /\ k \in 0 .. Len(b) /\ \A i \in 1 .. Len(b) : b[i] \in Bytes
  BY LenProperties, ElementOfSeq DEF IsLast
<1>1. /\ Ends(f, Len(b)) = {} <=> k = 0
      /\ k # 0 => (CHOOSE i \in Ends(f, Len(b)) : \A j \in Ends(f, Len(b)) : j <= i) = k
  BY <1>0, LastIs
<1>2. /\ SubSeq(b, 1, k) \in Seq(Bytes) /\ Len(SubSeq(b, 1, k)) = k
      /\ \A i \in 1 .. k : SubSeq(b, 1, k)[i] = b[i]
  <2>1. /\ SubSeq(b, 1, k) \in Seq(Bytes)
        /\ Len(SubSeq(b, 1, k)) = IF 1 <= k THEN k - 1 + 1 ELSE 0
        /\ \A i \in 1 .. k - 1 + 1 : SubSeq(b, 1, k)[i] = b[1 + i - 1]
    <3>1. 1 \in Int /\ k \in Int /\ \A i \in 1 .. k : b[i] \in Bytes
      BY <1>0
    <3>. QED
      BY <3>1, SubSeqProperties
  <2>. QED
    BY <1>0, <2>1
<1>3. FinishedOf(f, b) = SubSeq(b, 1, k)
  <2>1. CASE k = 0
    <3>1. SubSeq(b, 1, 0) = <<>>
      BY SubSeqEmpty
    <3>. QED
      BY <1>1, <2>1, <3>1 DEF FinishedOf
  <2>2. CASE k # 0
    BY <1>1, <2>2 DEF FinishedOf
  <2>. QED
    BY <2>1, <2>2
<1>. QED
  BY <1>2, <1>3 DEF EditedOf

\* What stays up to the last flag stays finished.
LEMMA FinishedGrows ==
  ASSUME NEW f, NEW b \in Seq(Bytes), NEW k, IsLast(f, Len(b), k),
         NEW g, NEW c \in Seq(Bytes), NEW m, IsLast(g, Len(c), m), k <= m,
         \A i \in 1 .. k : c[i] = b[i]
  PROVE  IsPrefix(FinishedOf(f, b), FinishedOf(g, c))
<1>. DEFINE s == FinishedOf(f, b)
            t == FinishedOf(g, c)
<1>0. k \in Nat /\ m \in Nat
  BY LenProperties DEF IsLast
<1>1. s \in Seq(Bytes) /\ Len(s) = k /\ \A i \in 1 .. k : s[i] = b[i]
  BY FinishedIs
<1>2. t \in Seq(Bytes) /\ Len(t) = m /\ \A i \in 1 .. m : t[i] = c[i]
  BY FinishedIs
<1>. HIDE DEF s, t
<1>3. \A i \in 1 .. k : s[i] \in Bytes /\ t[i] \in Bytes /\ s[i] = t[i]
  BY <1>0, <1>1, <1>2, ElementOfSeq
<1>4. SubSeq(s, 1, k) = SubSeq(t, 1, k)
  <2>1. /\ SubSeq(s, 1, k) \in Seq(Bytes)
        /\ Len(SubSeq(s, 1, k)) = IF 1 <= k THEN k - 1 + 1 ELSE 0
        /\ \A i \in 1 .. k - 1 + 1 : SubSeq(s, 1, k)[i] = s[1 + i - 1]
    BY <1>0, <1>3, SubSeqProperties
  <2>2. /\ SubSeq(t, 1, k) \in Seq(Bytes)
        /\ Len(SubSeq(t, 1, k)) = IF 1 <= k THEN k - 1 + 1 ELSE 0
        /\ \A i \in 1 .. k - 1 + 1 : SubSeq(t, 1, k)[i] = t[1 + i - 1]
    BY <1>0, <1>3, SubSeqProperties
  <2>3. Len(SubSeq(s, 1, k)) = k /\ Len(SubSeq(t, 1, k)) = k
    BY <1>0, <2>1, <2>2
  <2>4. \A i \in 1 .. k : SubSeq(s, 1, k)[i] = SubSeq(t, 1, k)[i]
    BY <1>0, <1>3, <2>1, <2>2
  <2>. QED
    BY <2>1, <2>2, <2>3, <2>4, SeqEqual
<1>5. IsPrefix(s, t)
  BY <1>0, <1>1, <1>2, <1>4 DEF IsPrefix
<1>. QED
  BY <1>5 DEF s, t

\* The line that is edited stays when bytes before it go.
LEMMA EditedStays ==
  ASSUME NEW f, NEW b \in Seq(Bytes), NEW k, IsLast(f, Len(b), k),
         NEW g, NEW n \in 0 .. k, NEW c \in Seq(Bytes), Shifted(f, b, g, c, n)
  PROVE  EditedOf(g, c) = EditedOf(f, b)
<1>0. /\ Len(b) \in Nat /\ k \in 0 .. Len(b) /\ n \in Nat /\ Len(c) = Len(b) - n
      /\ \A i \in 1 .. Len(b) : b[i] \in Bytes
      /\ \A i \in 1 .. Len(c) : c[i] \in Bytes
  BY LenProperties, ElementOfSeq DEF IsLast, Shifted
<1>8. \A i \in 1 .. Len(b) - n : c[i] = b[i + n] /\ (g[i] <=> f[i + n])
  BY DEF Shifted
<1>1. IsLast(g, Len(c), k - n)
  <2>1. k - n \in 0 .. Len(c)
    BY <1>0
  <2>2. k - n = 0 \/ g[k - n]
    <3>1. CASE k = n
      BY <1>0, <3>1
    <3>2. CASE k # n
      <4>1. k - n \in 1 .. Len(b) - n /\ (k - n) + n = k /\ k # 0
        BY <1>0, <3>2
      <4>2. f[k]
        BY <4>1 DEF IsLast
      <4>. QED
        BY <1>8, <4>1, <4>2
    <3>. QED
      BY <3>1, <3>2
  <2>3. ASSUME NEW j \in 1 .. Len(c), g[j] PROVE j <= k - n
    <3>1. j \in 1 .. Len(b) - n /\ j + n \in 1 .. Len(b)
      BY <1>0
    <3>2. j + n <= k
      BY <1>8, <2>3, <3>1 DEF IsLast
    <3>. QED
      BY <1>0, <3>2
  <2>. QED
    BY <2>1, <2>2, <2>3 DEF IsLast
<1>2. EditedOf(f, b) = SubSeq(b, k + 1, Len(b)) /\ EditedOf(g, c) = SubSeq(c, k - n + 1, Len(c))
  <2>1. EditedOf(f, b) = SubSeq(b, k + 1, Len(b))
    BY FinishedIs
  <2>. DEFINE m == k - n
  <2>. HIDE DEF m
  <2>2. EditedOf(g, c) = SubSeq(c, m + 1, Len(c))
    <3>1. IsLast(g, Len(c), m)
      BY <1>1 DEF m
    <3>. QED
      BY <3>1, FinishedIs
  <2>. QED
    BY <2>1, <2>2 DEF m
<1>. DEFINE s == SubSeq(b, k + 1, Len(b))
            t == SubSeq(c, k - n + 1, Len(c))
<1>3. /\ s \in Seq(Bytes)
      /\ Len(s) = IF k + 1 <= Len(b) THEN Len(b) - (k + 1) + 1 ELSE 0
      /\ \A i \in 1 .. Len(b) - (k + 1) + 1 : s[i] = b[k + 1 + i - 1]
  <2>1. k + 1 \in Int /\ Len(b) \in Int /\ \A i \in k + 1 .. Len(b) : b[i] \in Bytes
    BY <1>0
  <2>. QED
    BY <2>1, SubSeqProperties
<1>4. /\ t \in Seq(Bytes)
      /\ Len(t) = IF k - n + 1 <= Len(c) THEN Len(c) - (k - n + 1) + 1 ELSE 0
      /\ \A i \in 1 .. Len(c) - (k - n + 1) + 1 : t[i] = c[k - n + 1 + i - 1]
  <2>1. k - n + 1 \in Int /\ Len(c) \in Int /\ \A i \in k - n + 1 .. Len(c) : c[i] \in Bytes
    BY <1>0
  <2>. QED
    BY <2>1, SubSeqProperties
<1>. HIDE DEF s, t
<1>5. Len(s) = Len(b) - k /\ Len(t) = Len(b) - k
  BY <1>0, <1>3, <1>4
<1>6. ASSUME NEW i \in 1 .. Len(b) - k PROVE s[i] = t[i]
  <2>1. s[i] = b[k + i] /\ t[i] = c[k - n + i]
    <3>1. /\ i \in 1 .. Len(b) - (k + 1) + 1 /\ k + 1 + i - 1 = k + i
          /\ i \in 1 .. Len(c) - (k - n + 1) + 1 /\ k - n + 1 + i - 1 = k - n + i
      BY <1>0
    <3>. QED
      BY <1>3, <1>4, <3>1
  <2>2. k - n + i \in 1 .. Len(b) - n /\ (k - n + i) + n = k + i
    BY <1>0
  <2>. QED
    BY <1>8, <2>1, <2>2
<1>7. s = t
  BY <1>3, <1>4, <1>5, <1>6, SeqEqual
<1>. QED
  BY <1>2, <1>7 DEF s, t

\* What reading n bytes leaves: one more goes if it is the end of file.
LEMMA TakeIs ==
  ASSUME LineTypeOK, NEW n \in 0 .. Len(buf), Take(n)
  PROVE  \E c \in {n, n + 1} :
           /\ c \in 0 .. Len(buf) /\ (c = n + 1 => flag[c])
           /\ buf' \in Seq(Bytes) /\ Len(buf') = Len(buf) - c
           /\ flag' \in [1 .. Size -> BOOLEAN]
           /\ \A i \in 1 .. Len(buf) - c : buf'[i] = buf[i + c] /\ flag'[i] = flag[i + c]
<1>. DEFINE behind == SubSeq(buf, n + 1, Len(buf))
            down == [i \in 1 .. Size |-> IF i <= Len(behind) THEN flag[i + n] ELSE flag[i]]
            eofNext == behind # <<>> /\ Head(behind) = "NUL" /\ down[1]
<1>0. /\ buf \in Seq(Bytes) /\ Len(buf) \in Nat /\ Len(buf) <= Size /\ Size \in Nat
      /\ flag \in [1 .. Size -> BOOLEAN] /\ \A i \in 1 .. Len(buf) : buf[i] \in Bytes
  BY TtyAssumption, LenProperties, ElementOfSeq DEF LineTypeOK, Bytes
<1>1. /\ behind \in Seq(Bytes) /\ Len(behind) = Len(buf) - n
      /\ \A i \in 1 .. Len(buf) - n : behind[i] = buf[i + n]
  <2>1. /\ behind \in Seq(Bytes)
        /\ Len(behind) = IF n + 1 <= Len(buf) THEN Len(buf) - (n + 1) + 1 ELSE 0
        /\ \A i \in 1 .. Len(buf) - (n + 1) + 1 : behind[i] = buf[n + 1 + i - 1]
    <3>1. n + 1 \in Int /\ Len(buf) \in Int /\ \A i \in n + 1 .. Len(buf) : buf[i] \in Bytes
      BY <1>0
    <3>. QED
      BY <3>1, SubSeqProperties
  <2>. HIDE DEF behind
  <2>2. PICK m \in Nat : m = Len(buf)
    BY <1>0
  <2>3. Len(behind) = m - n
    BY <2>1, <2>2
  <2>4. ASSUME NEW i \in 1 .. m - n PROVE behind[i] = buf[i + n]
    <3>1. i \in 1 .. m - (n + 1) + 1 /\ n + 1 + i - 1 = i + n
      BY <2>2
    <3>. QED
      BY <2>1, <2>2, <3>1
  <2>. QED
    BY <2>1, <2>2, <2>3, <2>4
<1>2. /\ buf' = IF eofNext THEN Tail(behind) ELSE behind
      /\ flag' = IF eofNext
                 THEN [i \in 1 .. Size |-> IF i < Len(behind) THEN down[i + 1] ELSE down[i]]
                 ELSE down
  BY DEF Take
<1>. HIDE DEF behind
<1>3. /\ down \in [1 .. Size -> BOOLEAN]
      /\ \A i \in 1 .. Len(behind) : down[i] = flag[i + n]
  <2>1. \A i \in 1 .. Len(behind) : i \in 1 .. Size /\ i + n \in 1 .. Size
    BY <1>0, <1>1
  <2>. QED
    BY <1>0, <2>1
<1>4. eofNext => Len(behind) # 0 /\ down[1]
  BY <1>1, EmptySeq
<1>. HIDE DEF down, eofNext
<1>5. CASE eofNext
  <2>1. /\ Tail(behind) \in Seq(Bytes) /\ Len(Tail(behind)) = Len(behind) - 1
        /\ \A i \in 1 .. Len(Tail(behind)) : Tail(behind)[i] = behind[i + 1]
    BY <1>1, <1>5, HeadTailProperties DEF eofNext
  <2>2. n + 1 \in 0 .. Len(buf) /\ flag[n + 1]
    <3>1. Len(behind) \in Nat \ {0} /\ 1 \in 1 .. Len(behind)
      BY <1>0, <1>1, <1>4, <1>5
    <3>. QED
      BY <1>0, <1>1, <1>3, <1>4, <1>5, <3>1
  <2>3. flag' \in [1 .. Size -> BOOLEAN]
    <3>1. \A i \in 1 .. Size : i < Len(behind) => i + 1 \in 1 .. Size
      BY <1>0, <1>1
    <3>. QED
      BY <1>2, <1>3, <1>5, <3>1
  <2>4. ASSUME NEW i \in 1 .. Len(buf) - (n + 1)
        PROVE  buf'[i] = buf[i + (n + 1)] /\ flag'[i] = flag[i + (n + 1)]
    <3>1. /\ i + 1 \in 1 .. Len(buf) - n /\ i + 1 \in 1 .. Len(behind) /\ i < Len(behind) /\ i \in 1 .. Size
          /\ i \in 1 .. Len(Tail(behind)) /\ (i + 1) + n = i + (n + 1)
      BY <1>0, <1>1, <2>1
    <3>2. buf'[i] = buf[i + (n + 1)]
      BY <1>1, <1>2, <1>5, <2>1, <3>1
    <3>3. flag'[i] = flag[i + (n + 1)]
      BY <1>2, <1>3, <1>5, <3>1
    <3>. QED
      BY <3>2, <3>3
  <2>5. buf' \in Seq(Bytes) /\ Len(buf') = Len(buf) - (n + 1)
    BY <1>0, <1>1, <1>2, <1>5, <2>1
  <2>. QED
    BY <2>2, <2>3, <2>4, <2>5
<1>6. CASE ~ eofNext
  <2>1. buf' = behind /\ flag' = down
    BY <1>2, <1>6
  <2>2. n # n + 1
    BY <1>0
  <2>. QED
    BY <1>0, <1>1, <1>3, <2>1, <2>2
<1>. QED
  BY <1>5, <1>6

\* Erasing keeps what is finished, and a pushed byte comes behind it.
LEMMA ErasedIs ==
  ASSUME LineTypeOK, NEW count \in 0 .. Len(buf), NEW k, IsLast(flag, Len(buf), k)
  PROVE  ErasedTo(count) \in k .. Len(buf)
<1>0. Len(buf) \in Nat /\ k \in 0 .. Len(buf)
  BY LenProperties DEF LineTypeOK, IsLast
<1>1. /\ Ends(flag, Len(buf)) = {} <=> k = 0
      /\ k # 0 => (CHOOSE i \in Ends(flag, Len(buf)) : \A j \in Ends(flag, Len(buf)) : j <= i) = k
  BY <1>0, LastIs
<1>2. ErasedTo(count) = IF Len(buf) < count + k THEN k ELSE Len(buf) - count
  BY <1>1 DEF ErasedTo
<1>. QED
  BY <1>0, <1>2

LEMMA PushIs ==
  ASSUME LineTypeOK, NEW ch \in Bytes, NEW isEnd \in BOOLEAN, PushChar(ch, isEnd)
  PROVE  \/ buf' = buf /\ flag' = flag
         \/ /\ Len(buf) < Size
            /\ buf' \in Seq(Bytes) /\ Len(buf') = Len(buf) + 1
            /\ \A i \in 1 .. Len(buf) : buf'[i] = buf[i] /\ flag'[i] = flag[i]
            /\ flag' \in [1 .. Size -> BOOLEAN] /\ flag'[Len(buf) + 1] = isEnd
<1>0. /\ buf \in Seq(Bytes) /\ Len(buf) \in Nat /\ Len(buf) <= Size /\ Size \in Nat
      /\ flag \in [1 .. Size -> BOOLEAN]
  BY TtyAssumption, LenProperties DEF LineTypeOK, Bytes
<1>1. CASE Len(buf) >= Size
  BY <1>1 DEF PushChar
<1>2. CASE Len(buf) < Size
  <2>1. buf' = Append(buf, ch) /\ flag' = [flag EXCEPT ![Len(buf) + 1] = isEnd]
    BY <1>0, <1>2 DEF PushChar
  <2>2. Len(buf) + 1 \in 1 .. Size /\ \A i \in 1 .. Len(buf) : i \in 1 .. Size /\ i # Len(buf) + 1
    BY <1>0, <1>2
  <2>. QED
    BY <1>0, <1>2, <2>1, <2>2, AppendProperties
<1>. QED
  BY <1>0, <1>1, <1>2

(* What a step does to the input *)

\* What a step may do to the input, told by the last flag before and after.
Grows ==
  \E k, m : /\ IsLast(flag, Len(buf), k) /\ IsLast(flag', Len(buf'), m) /\ k <= m
            /\ \A i \in 1 .. k : buf'[i] = buf[i]

InputTypes == buf' \in Seq(Bytes) /\ Len(buf') <= Size /\ flag' \in [1 .. Size -> BOOLEAN]

\* A byte in ICANON: it wakes everybody, or adds no end of a line.
LEMMA CanonInputIs ==
  ASSUME LineTypeOK, NEW ch \in Chars \ {"intr"}, CanonInput(ch)
  PROVE  /\ InputTypes /\ Grows /\ overrun' = overrun /\ canon
         /\ WakeReaders \/ (mode' = mode /\ (Ends(flag, Len(buf)) = {} => Ends(flag', Len(buf')) = {}))
<1>0. /\ buf \in Seq(Bytes) /\ Len(buf) \in Nat /\ Len(buf) <= Size /\ Size \in Nat
      /\ flag \in [1 .. Size -> BOOLEAN] /\ \A i \in 1 .. Len(buf) : buf[i] \in Bytes
  BY TtyAssumption, LenProperties, ElementOfSeq DEF LineTypeOK, Bytes
<1>1. PICK k \in 0 .. Len(buf) : IsLast(flag, Len(buf), k)
  BY <1>0, LastIs
<1>2. ASSUME buf' = buf, flag' = flag PROVE InputTypes /\ Grows
  <2>1. k <= k /\ (\A i \in 1 .. k : buf'[i] = buf[i]) /\ IsLast(flag', Len(buf'), k)
    BY <1>0, <1>1, <1>2
  <2>. QED
    BY <1>0, <1>1, <1>2, <2>1 DEF InputTypes, Grows
<1>3. ASSUME NEW c \in Bytes, NEW isEnd \in BOOLEAN, PushChar(c, isEnd)
      PROVE  InputTypes /\ Grows /\ (~ isEnd => (Ends(flag, Len(buf)) = {} => Ends(flag', Len(buf')) = {}))
  <2>1. CASE buf' = buf /\ flag' = flag
    BY <1>2, <2>1
  <2>2. CASE /\ Len(buf) < Size
             /\ buf' \in Seq(Bytes) /\ Len(buf') = Len(buf) + 1
             /\ \A i \in 1 .. Len(buf) : buf'[i] = buf[i] /\ flag'[i] = flag[i]
             /\ flag' \in [1 .. Size -> BOOLEAN] /\ flag'[Len(buf) + 1] = isEnd
    <3>1. InputTypes
      BY <1>0, <2>2 DEF InputTypes
    <3>2. Grows
      <4>1. CASE isEnd
        <5>1. IsLast(flag', Len(buf'), Len(buf) + 1)
          BY <1>0, <2>2, <4>1 DEF IsLast
        <5>2. k <= Len(buf) + 1 /\ \A i \in 1 .. k : i \in 1 .. Len(buf)
          BY <1>0
        <5>. QED
          BY <1>1, <2>2, <5>1, <5>2 DEF Grows
      <4>2. CASE ~ isEnd
        <5>1. IsLast(flag', Len(buf'), k)
          <6>1. k \in 0 .. Len(buf') /\ (k # 0 => k \in 1 .. Len(buf))
            BY <1>0, <2>2
          <6>2. k = 0 \/ flag'[k]
            BY <1>1, <2>2, <6>1 DEF IsLast
          <6>3. ASSUME NEW j \in 1 .. Len(buf'), flag'[j] PROVE j <= k
            <7>1. j \in 1 .. Len(buf)
              BY <1>0, <2>2, <4>2, <6>3
            <7>. QED
              BY <1>1, <2>2, <6>3, <7>1 DEF IsLast
          <6>. QED
            BY <6>1, <6>2, <6>3 DEF IsLast
        <5>2. k <= k /\ \A i \in 1 .. k : i \in 1 .. Len(buf)
          BY <1>0
        <5>. QED
          BY <1>1, <2>2, <5>1, <5>2 DEF Grows
      <4>. QED
        BY <4>1, <4>2
    <3>3. ~ isEnd => (Ends(flag, Len(buf)) = {} => Ends(flag', Len(buf')) = {})
      <4>. SUFFICES ASSUME ~ isEnd, Ends(flag, Len(buf)) = {}, NEW j \in 1 .. Len(buf'), flag'[j] PROVE FALSE
        BY DEF Ends
      <4>1. j \in 1 .. Len(buf)
        BY <1>0, <2>2
      <4>. QED
        BY <2>2, <4>1 DEF Ends
    <3>. QED
      BY <3>1, <3>2, <3>3
  <2>. QED
    BY <1>3, <2>1, <2>2, PushIs
<1>4. ASSUME NEW n \in 0 .. Len(buf), buf' = SubSeq(buf, 1, ErasedTo(n)), flag' = flag
      PROVE  InputTypes /\ Grows /\ (Ends(flag, Len(buf)) = {} => Ends(flag', Len(buf')) = {})
  <2>. DEFINE e == ErasedTo(n)
  <2>1. e \in k .. Len(buf)
    BY <1>1, ErasedIs
  <2>2. /\ buf' \in Seq(Bytes) /\ Len(buf') = e /\ \A i \in 1 .. e : buf'[i] = buf[i]
    <3>. HIDE DEF e
    <3>0. e \in Nat /\ \A i \in 1 .. e : buf[i] \in Bytes
      BY <1>0, <2>1
    <3>1. /\ SubSeq(buf, 1, e) \in Seq(Bytes)
          /\ Len(SubSeq(buf, 1, e)) = IF 1 <= e THEN e - 1 + 1 ELSE 0
          /\ \A i \in 1 .. e - 1 + 1 : SubSeq(buf, 1, e)[i] = buf[1 + i - 1]
      BY <3>0, SubSeqProperties
    <3>2. buf' = SubSeq(buf, 1, e)
      BY <1>4 DEF e
    <3>. QED
      BY <3>0, <3>1, <3>2
  <2>. HIDE DEF e
  <2>3. InputTypes
    BY <1>0, <1>4, <2>1, <2>2 DEF InputTypes
  <2>4. IsLast(flag', Len(buf'), k)
    BY <1>0, <1>1, <1>4, <2>1, <2>2 DEF IsLast
  <2>5. Grows
    <3>1. k <= k /\ \A i \in 1 .. k : i \in 1 .. e
      BY <1>0, <2>1
    <3>. QED
      BY <1>1, <2>2, <2>4, <3>1 DEF Grows
  <2>6. Ends(flag, Len(buf)) = {} => Ends(flag', Len(buf')) = {}
    BY <1>0, <1>4, <2>1, <2>2 DEF Ends
  <2>. QED
    BY <2>3, <2>5, <2>6
<1>. DEFINE c == InputChar(ch)
<1>5. overrun' = overrun /\ canon
  BY DEF CanonInput
<1>6. CASE c = "none"
  <2>1. buf' = buf /\ flag' = flag /\ mode' = mode
    BY <1>6 DEF CanonInput
  <2>. QED
    BY <1>2, <1>5, <2>1
<1>7. CASE c \in {"erase", "kill"}
  <2>1. PICK n \in {1, Len(buf)} : buf' = SubSeq(buf, 1, ErasedTo(n)) /\ (n = 1 => buf # <<>> \/ Len(buf) = 1)
    <3>1. buf' = SubSeq(buf, 1, ErasedTo(IF c = "erase" /\ buf # <<>> THEN 1 ELSE Len(buf)))
      BY <1>7 DEF CanonInput
    <3>. HIDE DEF c
    <3>2. CASE c = "erase" /\ buf # <<>>
      BY <3>1, <3>2
    <3>3. CASE ~ (c = "erase" /\ buf # <<>>)
      BY <3>1, <3>3
    <3>. QED
      BY <3>2, <3>3
  <2>2. flag' = flag /\ mode' = mode
    BY <1>7 DEF CanonInput
  <2>3. n \in 0 .. Len(buf)
    <3>1. buf # <<>> => Len(buf) >= 1
      BY <1>0, EmptySeq
    <3>2. n = Len(buf) \/ (n = 1 /\ Len(buf) >= 1)
      BY <1>0, <2>1, <3>1
    <3>. QED
      BY <1>0, <3>2
  <2>. QED
    BY <1>4, <1>5, <2>1, <2>2, <2>3
<1>8. CASE c \in {"eof", "nl"}
  <2>1. WakeReaders /\ (PushChar("NUL", TRUE) \/ PushChar("x", TRUE))
    BY <1>8 DEF CanonInput
  <2>2. "NUL" \in Bytes /\ "x" \in Bytes
    BY DEF Bytes
  <2>. QED
    BY <1>3, <1>5, <2>1, <2>2
<1>9. CASE c \notin {"none", "erase", "kill", "eof", "nl"}
  <2>1. PushChar("x", FALSE) /\ mode' = mode
    BY <1>9 DEF CanonInput
  <2>2. "x" \in Bytes
    BY DEF Bytes
  <2>. QED
    BY <1>3, <1>5, <2>1, <2>2
<1>. QED
  BY <1>6, <1>7, <1>8, <1>9

\* A byte in raw mode: it wakes everybody, and is stored in its place unless
\* lines filled the buffer.
LEMMA RawInputIs ==
  ASSUME LineTypeOK, RawInput
  PROVE  /\ InputTypes /\ Grows /\ ~ canon /\ WakeReaders
         /\ overrun' = overrun \/ (overrun' = TRUE /\ Len(buf) = Size)
<1>0. /\ buf \in Seq(Bytes) /\ Len(buf) \in Nat /\ Len(buf) <= Size /\ Size \in Nat
      /\ flag \in [1 .. Size -> BOOLEAN]
  BY TtyAssumption, LenProperties DEF LineTypeOK, Bytes
<1>1. PICK k \in 0 .. Len(buf) : IsLast(flag, Len(buf), k)
  BY <1>0, LastIs
<1>2. ~ canon /\ WakeReaders /\ flag' = flag
  BY DEF RawInput
<1>3. overrun' = overrun \/ (overrun' = TRUE /\ Len(buf) = Size)
  BY DEF RawInput
<1>4. CASE buf' = buf
  <2>1. InputTypes
    BY <1>0, <1>2, <1>4 DEF InputTypes
  <2>2. k <= k /\ (\A i \in 1 .. k : buf'[i] = buf[i]) /\ IsLast(flag', Len(buf'), k)
    BY <1>0, <1>1, <1>2, <1>4
  <2>3. Grows
    BY <1>1, <2>2 DEF Grows
  <2>. QED
    BY <1>2, <1>3, <2>1, <2>3
<1>5. CASE buf' # buf
  <2>1. buf' = Append(buf, "x") /\ Len(buf) < Size
    BY <1>0, <1>5 DEF RawInput
  <2>2. /\ buf' \in Seq(Bytes) /\ Len(buf') = Len(buf) + 1
        /\ \A i \in 1 .. Len(buf) : buf'[i] = buf[i]
    <3>1. "x" \in Bytes
      BY DEF Bytes
    <3>. QED
      BY <1>0, <2>1, <3>1, AppendProperties
  <2>3. InputTypes
    BY <1>0, <1>2, <2>1, <2>2 DEF InputTypes
  <2>. DEFINE l == Len(buf')
              g == flag'
  <2>4. PICK m \in 0 .. Len(buf') : IsLast(flag', Len(buf'), m)
    <3>1. l \in Nat
      BY <1>0, <2>2
    <3>. HIDE DEF l, g
    <3>2. \E m \in 0 .. l : IsLast(g, l, m)
      BY <3>1, LastIs
    <3>. QED
      BY <3>2 DEF l, g
  <2>5. k <= m /\ k \in Nat
    <3>1. k = 0 \/ (k \in 1 .. Len(buf') /\ flag'[k])
      BY <1>0, <1>1, <1>2, <2>2 DEF IsLast
    <3>. QED
      BY <1>0, <2>2, <2>4, <3>1 DEF IsLast
  <2>6. \A i \in 1 .. k : buf'[i] = buf[i]
    BY <1>0, <2>2
  <2>7. Grows
    BY <1>1, <2>4, <2>5, <2>6 DEF Grows
  <2>. QED
    BY <1>2, <1>3, <2>3, <2>7
<1>. QED
  BY <1>4, <1>5

\* Any byte.
LEMMA TypeIs ==
  ASSUME LineTypeOK, NEW ch \in Chars, Type(ch)
  PROVE  /\ InputTypes /\ Grows /\ termios' = termios /\ want' = want /\ crossed' = crossed
         /\ overrun' = overrun \/ (overrun' = TRUE /\ ~ canon /\ Len(buf) = Size)
         /\ \/ WakeReaders
            \/ /\ canon /\ mode' = mode
               /\ Ends(flag, Len(buf)) = {} => Ends(flag', Len(buf')) = {}
<1>0. termios' = termios /\ want' = want /\ crossed' = crossed
  BY DEF Type
<1>1. CASE ch = "intr"
  <2>1. input' = input /\ IF canon THEN mode' = mode ELSE WakeReaders
    BY <1>1 DEF Type
  <2>2. buf' = buf /\ flag' = flag /\ overrun' = overrun
    BY <2>1 DEF input
  <2>3. InputTypes /\ Len(buf) \in Nat
    BY <2>2, LenProperties DEF InputTypes, LineTypeOK, Bytes
  <2>4. PICK k \in 0 .. Len(buf) : IsLast(flag, Len(buf), k)
    BY <2>3, LastIs
  <2>5. k <= k /\ (\A i \in 1 .. k : buf'[i] = buf[i]) /\ IsLast(flag', Len(buf'), k)
    BY <2>2, <2>3, <2>4
  <2>6. Grows
    BY <2>4, <2>5 DEF Grows
  <2>7. \/ WakeReaders
        \/ /\ canon /\ mode' = mode
           /\ Ends(flag, Len(buf)) = {} => Ends(flag', Len(buf')) = {}
    BY <2>1, <2>2
  <2>. QED
    BY <1>0, <2>2, <2>3, <2>6, <2>7
<1>2. CASE ch # "intr"
  <2>1. CanonInput(ch) \/ RawInput
    BY <1>2 DEF Type
  <2>2. CASE CanonInput(ch)
    <3>1. ch \in Chars \ {"intr"}
      BY <1>2
    <3>2. /\ InputTypes /\ Grows /\ overrun' = overrun /\ canon
          /\ WakeReaders \/ (mode' = mode /\ (Ends(flag, Len(buf)) = {} => Ends(flag', Len(buf')) = {}))
      BY <2>2, <3>1, CanonInputIs
    <3>. QED
      BY <1>0, <3>2
  <2>3. CASE RawInput
    <3>1. /\ InputTypes /\ Grows /\ ~ canon /\ WakeReaders
          /\ overrun' = overrun \/ (overrun' = TRUE /\ Len(buf) = Size)
      BY <2>3, RawInputIs
    <3>. QED
      BY <1>0, <3>1
  <2>. QED
    BY <2>1, <2>2, <2>3
<1>. QED
  BY <1>1, <1>2

\* A read that finds the end of a line takes no more than that line, one that
\* does not sleeps.
LEMMA ReadCanonIs ==
  ASSUME LineTypeOK, NEW r \in Readers, NEW n \in 1 .. 2, ReadCanon(r, n)
  PROVE  /\ InputTypes /\ Len(buf') <= Len(buf)
         /\ Ends(flag, Len(buf)) = {} => Ends(flag', Len(buf')) = {}
         /\ EditedOf(flag', buf') = EditedOf(flag, buf)
         /\ \/ Ends(flag, Len(buf)) # {} /\ mode' = [mode EXCEPT ![r] = "idle"]
            \/ Ends(flag, Len(buf)) = {} /\ mode' = [mode EXCEPT ![r] = "canon"]
<1>0. /\ buf \in Seq(Bytes) /\ Len(buf) \in Nat /\ Len(buf) <= Size /\ Size \in Nat
      /\ flag \in [1 .. Size -> BOOLEAN]
  BY TtyAssumption, LenProperties DEF LineTypeOK, Bytes
<1>1. CASE Ends(flag, Len(buf)) = {}
  <2>1. mode' = [mode EXCEPT ![r] = "canon"] /\ buf' = buf /\ flag' = flag
    BY <1>1 DEF ReadCanon
  <2>. QED
    BY <1>0, <1>1, <2>1 DEF InputTypes
<1>2. CASE Ends(flag, Len(buf)) # {}
  <2>. DEFINE e == Ends(flag, Len(buf))
              size == CHOOSE i \in e : \A j \in e : i <= j
              line == IF buf[size] = "NUL" THEN size - 1 ELSE size
              s == Smaller(n, line)
  <2>1. Take(s) /\ mode' = [mode EXCEPT ![r] = "idle"]
    BY <1>2 DEF ReadCanon
  <2>2. e \subseteq 1 .. Len(buf)
    BY DEF Ends
  <2>3. \E i \in e : \A j \in e : i <= j
    BY <1>0, <1>2, <2>2, FirstAndLast
  <2>4. size \in e /\ \A j \in e : size <= j
    BY <2>3
  <2>. HIDE DEF size
  <2>5. size \in 1 .. Len(buf) /\ flag[size]
    BY <2>4 DEF Ends
  <2>6. s \in 0 .. Len(buf) /\ s <= size /\ (s = size => line = size)
    BY <1>0, <2>5 DEF Smaller
  <2>7. s = size => buf[size] # "NUL"
    BY <2>5, <2>6
  <2>. HIDE DEF s, line
  <2>8. PICK k \in 0 .. Len(buf) : IsLast(flag, Len(buf), k)
    BY <1>0, LastIs
  <2>9. size <= k
    BY <2>5, <2>8 DEF IsLast
  <2>10. PICK c \in {s, s + 1} :
           /\ c \in 0 .. Len(buf) /\ (c = s + 1 => flag[c])
           /\ buf' \in Seq(Bytes) /\ Len(buf') = Len(buf) - c
           /\ flag' \in [1 .. Size -> BOOLEAN]
           /\ \A i \in 1 .. Len(buf) - c : buf'[i] = buf[i + c] /\ flag'[i] = flag[i + c]
    BY <2>1, <2>6, TakeIs
  <2>11. c \in 0 .. k
    <3>1. c = s + 1 => c \in 1 .. Len(buf) /\ flag[c]
      BY <2>6, <2>10
    <3>2. c = s + 1 => c <= k
      BY <2>8, <3>1 DEF IsLast
    <3>3. c \in 0 .. Len(buf) /\ (c = s \/ c = s + 1) /\ s <= size
      BY <2>6, <2>10
    <3>. QED
      BY <1>0, <2>5, <2>6, <2>8, <2>9, <3>2, <3>3
  <2>12. EditedOf(flag', buf') = EditedOf(flag, buf)
    <3>. DEFINE g == flag'
                b == buf'
    <3>1. b \in Seq(Bytes) /\ Shifted(flag, buf, g, b, c)
      BY <2>10 DEF Shifted
    <3>. HIDE DEF g, b
    <3>2. EditedOf(g, b) = EditedOf(flag, buf)
      BY <1>0, <2>8, <2>11, <3>1, EditedStays
    <3>. QED
      BY <3>2 DEF g, b
  <2>13. InputTypes /\ Len(buf') <= Len(buf)
    BY <1>0, <2>10 DEF InputTypes
  <2>. QED
    BY <1>2, <2>1, <2>12, <2>13
<1>. QED
  BY <1>1, <1>2

LEMMA ReadRawIs ==
  ASSUME LineTypeOK, NEW r \in Readers, NEW n \in 1 .. 2, NEW least \in Nat, ReadRaw(r, n, least)
  PROVE  /\ InputTypes /\ Len(buf') <= Len(buf)
         /\ Ends(flag, Len(buf)) = {} => Ends(flag', Len(buf')) = {}
         /\ \/ Len(buf) >= least /\ mode' = [mode EXCEPT ![r] = "idle"]
            \/ Len(buf) < least /\ buf' = buf /\ mode' = [mode EXCEPT ![r] = "raw"]
<1>0. /\ buf \in Seq(Bytes) /\ Len(buf) \in Nat /\ Len(buf) <= Size /\ Size \in Nat
      /\ flag \in [1 .. Size -> BOOLEAN]
  BY TtyAssumption, LenProperties DEF LineTypeOK, Bytes
<1>1. CASE Len(buf) < least
  <2>1. buf' = buf /\ flag' = flag /\ mode' = [mode EXCEPT ![r] = "raw"]
    BY <1>0, <1>1 DEF ReadRaw
  <2>. QED
    BY <1>0, <1>1, <2>1 DEF InputTypes
<1>2. CASE Len(buf) >= least
  <2>. DEFINE s == Smaller(n, Len(buf))
  <2>1. Take(s) /\ mode' = [mode EXCEPT ![r] = "idle"]
    BY <1>2 DEF ReadRaw
  <2>2. s \in 0 .. Len(buf)
    BY <1>0 DEF Smaller
  <2>. HIDE DEF s
  <2>3. PICK c \in {s, s + 1} :
           /\ c \in 0 .. Len(buf) /\ (c = s + 1 => flag[c])
           /\ buf' \in Seq(Bytes) /\ Len(buf') = Len(buf) - c
           /\ flag' \in [1 .. Size -> BOOLEAN]
           /\ \A i \in 1 .. Len(buf) - c : buf'[i] = buf[i + c] /\ flag'[i] = flag[i + c]
    BY <2>1, <2>2, TakeIs
  <2>4. InputTypes /\ Len(buf') <= Len(buf)
    BY <1>0, <2>3 DEF InputTypes
  <2>5. ASSUME Ends(flag, Len(buf)) = {} PROVE Ends(flag', Len(buf')) = {}
    <3>1. ASSUME NEW i \in 1 .. Len(buf'), flag'[i] PROVE FALSE
      <4>1. i \in 1 .. Len(buf) - c /\ i + c \in 1 .. Len(buf)
        BY <1>0, <2>2, <2>3
      <4>2. flag[i + c]
        BY <2>3, <3>1, <4>1
      <4>. QED
        BY <2>5, <4>1, <4>2 DEF Ends
    <3>. QED
      BY <3>1 DEF Ends
  <2>. QED
    BY <1>2, <2>1, <2>4, <2>5
<1>. QED
  BY <1>0, <1>1, <1>2

\* Who reads bytes under an unchanged mode reads them in raw mode.
LineInv ==
  /\ LineTypeOK /\ NoSleepOnInput
  /\ \A r \in Readers : mode[r] \in {"raw", "rawUp"} /\ r \notin crossed => ~ canon

Modes == {"idle", "canon", "raw", "canonUp", "rawUp"}

\* After a wake up nobody sleeps.
LEMMA WakesAll ==
  ASSUME LineInv, WakeReaders, crossed' = crossed, canon' = canon
  PROVE  /\ mode' \in [Readers -> Modes] /\ NoSleepOnInput'
         /\ (\A r \in Readers : mode[r] \in {"raw", "rawUp"} /\ r \notin crossed => ~ canon)'
<1>1. mode \in [Readers -> Modes]
  BY DEF LineInv, LineTypeOK, Modes
<1>2. /\ mode' \in [Readers -> Modes]
      /\ \A r \in Readers : mode'[r] \in {"idle", "canonUp", "rawUp"}
                            /\ (mode'[r] = "rawUp" => mode[r] \in {"raw", "rawUp"})
  BY <1>1 DEF WakeReaders, Modes
<1>3. NoSleepOnInput'
  BY <1>2 DEF NoSleepOnInput
<1>4. \A r \in Readers : mode'[r] \in {"raw", "rawUp"} /\ r \notin crossed' => ~ canon'
  BY <1>2 DEF LineInv
<1>. QED
  BY <1>2, <1>3, <1>4

LEMMA TypeKeeps == ASSUME LineInv, NEW ch \in Chars, Type(ch) PROVE LineInv'
<1>1. /\ InputTypes /\ Grows /\ termios' = termios /\ want' = want /\ crossed' = crossed
      /\ overrun' = overrun \/ (overrun' = TRUE /\ ~ canon /\ Len(buf) = Size)
      /\ \/ WakeReaders
         \/ /\ canon /\ mode' = mode
            /\ Ends(flag, Len(buf)) = {} => Ends(flag', Len(buf')) = {}
  BY TypeIs DEF LineInv
<1>2. canon' = canon /\ iflags' = iflags /\ min' = min
  BY <1>1 DEF termios
<1>3. /\ mode' \in [Readers -> Modes] /\ NoSleepOnInput'
      /\ (\A r \in Readers : mode[r] \in {"raw", "rawUp"} /\ r \notin crossed => ~ canon)'
  <2>1. CASE WakeReaders
    BY <1>1, <1>2, <2>1, WakesAll
  <2>2. CASE /\ canon /\ mode' = mode
             /\ Ends(flag, Len(buf)) = {} => Ends(flag', Len(buf')) = {}
    <3>1. mode \in [Readers -> Modes] /\ crossed' = crossed
      BY <1>1 DEF LineInv, LineTypeOK, Modes
    <3>2. \A r \in Readers : mode[r] \in {"raw", "rawUp"} => r \in crossed
      BY <2>2 DEF LineInv
    <3>3. NoSleepOnInput'
      BY <2>2, <3>1, <3>2 DEF LineInv, NoSleepOnInput
    <3>. QED
      BY <1>2, <2>2, <3>1, <3>2, <3>3
  <2>. QED
    BY <1>1, <2>1, <2>2
<1>4. LineTypeOK'
  BY <1>1, <1>2, <1>3 DEF LineInv, LineTypeOK, InputTypes, Bytes, Modes
<1>. QED
  BY <1>3, <1>4 DEF LineInv

\* The calls that only shorten the input, and set the mode of one reader.
LEMMA ReaderKeeps ==
  ASSUME LineInv, NEW r \in Readers, NEW m \in Modes, mode' = [mode EXCEPT ![r] = m],
         InputTypes, Len(buf') <= Len(buf), Ends(flag, Len(buf)) = {} => Ends(flag', Len(buf')) = {},
         termios' = termios, overrun' = overrun,
         want' \in [Readers -> (1 .. 2) \X Mins], \A p \in Readers \ {r} : want'[p] = want[p],
         crossed' \subseteq crossed, crossed \ crossed' \subseteq {r},
         m = "canon" => Ends(flag', Len(buf')) = {},
         m = "raw" => r \in crossed' \/ (~ canon /\ Len(buf') < want'[r][2]),
         m # "rawUp"
  PROVE  LineInv'
<1>1. /\ mode \in [Readers -> Modes] /\ want \in [Readers -> (1 .. 2) \X Mins]
      /\ crossed \subseteq Readers
  BY DEF LineInv, LineTypeOK, Modes
<1>2. /\ mode' \in [Readers -> Modes] /\ mode'[r] = m
      /\ \A p \in Readers \ {r} : mode'[p] = mode[p] /\ (p \in crossed' <=> p \in crossed)
  BY <1>1
<1>3. canon' = canon /\ iflags' = iflags /\ min' = min
  BY DEF termios
<1>4. LineTypeOK'
  BY <1>1, <1>2, <1>3 DEF LineInv, LineTypeOK, InputTypes, Bytes, Modes
<1>5. Len(buf) \in Nat /\ Len(buf') \in Nat /\ \A p \in Readers : want[p][2] \in Nat
  <2>1. \A p \in Readers : want[p] \in (1 .. 2) \X Mins
    BY <1>1
  <2>. QED
    BY <2>1, TtyAssumption, LenProperties DEF LineInv, LineTypeOK, InputTypes
<1>6. ASSUME NEW p \in Readers
      PROVE  /\ mode'[p] = "canon" => Ends(flag', Len(buf')) = {}
             /\ mode'[p] = "raw" /\ p \notin crossed' => Len(buf') < want'[p][2]
             /\ mode'[p] \in {"raw", "rawUp"} /\ p \notin crossed' => ~ canon'
  <2>1. CASE p = r
    BY <1>2, <1>3, <2>1
  <2>2. CASE p # r
    <3>1. mode'[p] = mode[p] /\ (p \in crossed' <=> p \in crossed) /\ want'[p] = want[p]
      BY <1>2, <2>2
    <3>2. /\ mode[p] = "canon" => Ends(flag, Len(buf)) = {}
          /\ mode[p] = "raw" /\ p \notin crossed => Len(buf) < want[p][2]
          /\ mode[p] \in {"raw", "rawUp"} /\ p \notin crossed => ~ canon
      BY DEF LineInv, NoSleepOnInput
    <3>3. Len(buf) < want[p][2] => Len(buf') < want[p][2]
      BY <1>5
    <3>. QED
      BY <1>3, <3>1, <3>2, <3>3
  <2>. QED
    BY <2>1, <2>2
<1>7. NoSleepOnInput'
  BY <1>6 DEF NoSleepOnInput
<1>. QED
  BY <1>4, <1>6, <1>7 DEF LineInv

LEMMA ReadKeeps == ASSUME LineInv, NEW r \in Readers, NEW n \in 1 .. 2, Read(r, n) PROVE LineInv'
<1>0. /\ LineTypeOK /\ mode \in [Readers -> Modes] /\ want \in [Readers -> (1 .. 2) \X Mins]
      /\ crossed \subseteq Readers /\ min \in Mins /\ min \in Nat /\ mode[r] = "idle"
  BY TtyAssumption DEF LineInv, LineTypeOK, Modes, Read
<1>1. /\ termios' = termios /\ crossed' = crossed /\ overrun' = overrun
      /\ want' = [want EXCEPT ![r] = IF mode'[r] = "idle" THEN @ ELSE <<n, min>>]
  BY DEF Read
<1>2. /\ want' \in [Readers -> (1 .. 2) \X Mins] /\ \A p \in Readers \ {r} : want'[p] = want[p]
      /\ mode'[r] # "idle" => want'[r][2] = min
  BY <1>0, <1>1
<1>3. crossed' \subseteq crossed /\ crossed \ crossed' \subseteq {r}
  BY <1>1
<1>4. CASE canon
  <2>1. /\ InputTypes /\ Len(buf') <= Len(buf)
        /\ Ends(flag, Len(buf)) = {} => Ends(flag', Len(buf')) = {}
        /\ \/ Ends(flag, Len(buf)) # {} /\ mode' = [mode EXCEPT ![r] = "idle"]
           \/ Ends(flag, Len(buf)) = {} /\ mode' = [mode EXCEPT ![r] = "canon"]
    BY <1>0, <1>4, ReadCanonIs DEF Read
  <2>2. CASE mode' = [mode EXCEPT ![r] = "idle"]
    <3>1. "idle" \in Modes
      BY DEF Modes
    <3>. QED
      BY <1>1, <1>2, <1>3, <2>1, <2>2, <3>1, ReaderKeeps
  <2>3. CASE Ends(flag, Len(buf)) = {} /\ mode' = [mode EXCEPT ![r] = "canon"]
    <3>1. "canon" \in Modes
      BY DEF Modes
    <3>. QED
      BY <1>1, <1>2, <1>3, <2>1, <2>3, <3>1, ReaderKeeps
  <2>. QED
    BY <2>1, <2>2, <2>3
<1>5. CASE ~ canon
  <2>1. /\ InputTypes /\ Len(buf') <= Len(buf)
        /\ Ends(flag, Len(buf)) = {} => Ends(flag', Len(buf')) = {}
        /\ \/ Len(buf) >= min /\ mode' = [mode EXCEPT ![r] = "idle"]
           \/ Len(buf) < min /\ buf' = buf /\ mode' = [mode EXCEPT ![r] = "raw"]
    BY <1>0, <1>5, ReadRawIs DEF Read
  <2>2. CASE mode' = [mode EXCEPT ![r] = "idle"]
    <3>1. "idle" \in Modes
      BY DEF Modes
    <3>. QED
      BY <1>1, <1>2, <1>3, <2>1, <2>2, <3>1, ReaderKeeps
  <2>3. CASE Len(buf) < min /\ buf' = buf /\ mode' = [mode EXCEPT ![r] = "raw"]
    <3>1. "raw" \in Modes /\ mode'[r] = "raw"
      BY <1>0, <2>3 DEF Modes
    <3>2. Len(buf') < want'[r][2]
      BY <1>2, <2>3, <3>1
    <3>. QED
      BY <1>1, <1>2, <1>3, <1>5, <2>1, <2>3, <3>1, <3>2, ReaderKeeps
  <2>. QED
    BY <2>1, <2>2, <2>3
<1>. QED
  BY <1>4, <1>5

LEMMA WakesKeeps == ASSUME LineInv, NEW r \in Readers, Wakes(r) PROVE LineInv'
<1>0. /\ LineTypeOK /\ mode \in [Readers -> Modes] /\ want \in [Readers -> (1 .. 2) \X Mins]
      /\ want[r][1] \in 1 .. 2 /\ want[r][2] \in Nat /\ crossed \subseteq Readers
  <2>1. want \in [Readers -> (1 .. 2) \X Mins]
    BY DEF LineInv, LineTypeOK
  <2>2. want[r] \in (1 .. 2) \X Mins
    BY <2>1
  <2>. QED
    BY <2>1, <2>2, TtyAssumption DEF LineInv, LineTypeOK, Modes
<1>1. /\ termios' = termios /\ want' = want /\ overrun' = overrun
      /\ crossed' = IF mode'[r] = "idle" THEN crossed \ {r} ELSE crossed
  BY DEF Wakes
<1>2. want' \in [Readers -> (1 .. 2) \X Mins] /\ \A p \in Readers \ {r} : want'[p] = want[p]
  BY <1>0, <1>1
<1>3. crossed' \subseteq crossed /\ crossed \ crossed' \subseteq {r}
  BY <1>1
<1>4. CASE mode[r] = "canonUp"
  <2>1. ReadCanon(r, want[r][1])
    BY <1>4 DEF Wakes
  <2>2. /\ InputTypes /\ Len(buf') <= Len(buf)
        /\ Ends(flag, Len(buf)) = {} => Ends(flag', Len(buf')) = {}
        /\ \/ Ends(flag, Len(buf)) # {} /\ mode' = [mode EXCEPT ![r] = "idle"]
           \/ Ends(flag, Len(buf)) = {} /\ mode' = [mode EXCEPT ![r] = "canon"]
    BY <1>0, <2>1, ReadCanonIs
  <2>3. CASE mode' = [mode EXCEPT ![r] = "idle"]
    <3>1. "idle" \in Modes
      BY DEF Modes
    <3>. QED
      BY <1>1, <1>2, <1>3, <2>2, <2>3, <3>1, ReaderKeeps
  <2>4. CASE Ends(flag, Len(buf)) = {} /\ mode' = [mode EXCEPT ![r] = "canon"]
    <3>1. "canon" \in Modes
      BY DEF Modes
    <3>. QED
      BY <1>1, <1>2, <1>3, <2>2, <2>4, <3>1, ReaderKeeps
  <2>. QED
    BY <2>2, <2>3, <2>4
<1>5. CASE mode[r] = "rawUp"
  <2>1. ReadRaw(r, want[r][1], want[r][2])
    BY <1>5 DEF Wakes
  <2>2. /\ InputTypes /\ Len(buf') <= Len(buf)
        /\ Ends(flag, Len(buf)) = {} => Ends(flag', Len(buf')) = {}
        /\ \/ Len(buf) >= want[r][2] /\ mode' = [mode EXCEPT ![r] = "idle"]
           \/ Len(buf) < want[r][2] /\ buf' = buf /\ mode' = [mode EXCEPT ![r] = "raw"]
    BY <1>0, <2>1, ReadRawIs
  <2>3. CASE mode' = [mode EXCEPT ![r] = "idle"]
    <3>1. "idle" \in Modes
      BY DEF Modes
    <3>. QED
      BY <1>1, <1>2, <1>3, <2>2, <2>3, <3>1, ReaderKeeps
  <2>4. CASE Len(buf) < want[r][2] /\ buf' = buf /\ mode' = [mode EXCEPT ![r] = "raw"]
    <3>1. "raw" \in Modes /\ mode'[r] = "raw"
      BY <1>0, <2>4 DEF Modes
    <3>2. crossed' = crossed
      BY <1>1, <3>1
    <3>3. r \in crossed' \/ (~ canon /\ Len(buf') < want'[r][2])
      BY <1>1, <1>5, <2>4, <3>2 DEF LineInv
    <3>. QED
      BY <1>1, <1>2, <1>3, <2>2, <2>4, <3>1, <3>3, ReaderKeeps
  <2>. QED
    BY <2>2, <2>3, <2>4
<1>. QED
  BY <1>4, <1>5 DEF Wakes

LEMMA InterruptedKeeps == ASSUME LineInv, NEW r \in Readers, Interrupted(r) PROVE LineInv'
<1>1. /\ mode' = [mode EXCEPT ![r] = "idle"] /\ crossed' = crossed \ {r} /\ termios' = termios
      /\ want' = want /\ buf' = buf /\ flag' = flag /\ overrun' = overrun
  BY DEF Interrupted, input
<1>2. /\ "idle" \in Modes /\ want' \in [Readers -> (1 .. 2) \X Mins] /\ InputTypes
      /\ Len(buf') <= Len(buf)
  <2>1. Len(buf) \in Nat
    BY LenProperties DEF LineInv, LineTypeOK
  <2>. QED
    BY <1>1, <2>1 DEF LineInv, LineTypeOK, Modes, InputTypes, Bytes
<1>3. /\ \A p \in Readers \ {r} : want'[p] = want[p]
      /\ crossed' \subseteq crossed /\ crossed \ crossed' \subseteq {r}
      /\ Ends(flag, Len(buf)) = {} => Ends(flag', Len(buf')) = {}
  BY <1>1
<1>. QED
  BY <1>1, <1>2, <1>3, ReaderKeeps

\* A change of the mode crosses everybody who is in a read, and a flush wakes
\* nobody: an empty buffer is what a sleeper waits on.
LEMMA ModeKeeps ==
  ASSUME LineInv, canon' \in BOOLEAN, iflags' \in Iflags, min' \in Mins,
         buf' = buf \/ buf' = <<>>, flag' = flag, mode' = mode, want' = want, overrun' = overrun,
         crossed' = IF canon' = canon THEN crossed ELSE {r \in Readers : mode[r] # "idle"}
  PROVE  LineInv'
<1>1. LineTypeOK'
  <2>1. buf' \in Seq({"x", "NUL"}) /\ Len(buf') <= Size
    <3>1. <<>> \in Seq({"x", "NUL"}) /\ Len(<<>>) = 0 /\ Size \in Nat
      BY TtyAssumption, EmptySeq
    <3>2. CASE buf' = buf
      BY <3>2 DEF LineInv, LineTypeOK
    <3>3. CASE buf' = <<>>
      <4>1. Len(buf') = 0
        BY <3>1, <3>3
      <4>2. buf' \in Seq({"x", "NUL"})
        BY <3>1, <3>3, Zenon
      <4>. QED
        BY <3>1, <4>1, <4>2
    <3>. QED
      BY <3>2, <3>3
  <2>2. crossed' \subseteq Readers
    BY DEF LineInv, LineTypeOK
  <2>. QED
    BY <2>1, <2>2 DEF LineInv, LineTypeOK
<1>2. /\ Len(buf) \in Nat /\ (buf' = <<>> => Len(buf') = 0)
      /\ \A r \in Readers : want[r][2] \in Nat
  <2>1. \A r \in Readers : want[r] \in (1 .. 2) \X Mins
    BY DEF LineInv, LineTypeOK
  <2>2. Len(<<>>) = 0
    BY EmptySeq
  <2>. QED
    BY <2>1, <2>2, TtyAssumption, LenProperties DEF LineInv, LineTypeOK
<1>3. Ends(flag, Len(buf)) = {} => Ends(flag', Len(buf')) = {}
  BY <1>2 DEF Ends
<1>4. ASSUME NEW r \in Readers
      PROVE  /\ mode'[r] = "canon" => Ends(flag', Len(buf')) = {}
             /\ mode'[r] = "raw" /\ r \notin crossed' => Len(buf') < want'[r][2]
             /\ mode'[r] \in {"raw", "rawUp"} /\ r \notin crossed' => ~ canon'
  <2>1. /\ mode[r] = "canon" => Ends(flag, Len(buf)) = {}
        /\ mode[r] = "raw" /\ r \notin crossed => Len(buf) < want[r][2]
        /\ mode[r] \in {"raw", "rawUp"} /\ r \notin crossed => ~ canon
    BY DEF LineInv, NoSleepOnInput
  <2>2. Len(buf) < want[r][2] => Len(buf') < want[r][2]
    BY <1>2
  <2>3. mode[r] # "idle" /\ r \notin crossed' => r \notin crossed /\ canon' = canon
    OBVIOUS
  <2>. QED
    BY <1>3, <2>1, <2>2, <2>3
<1>5. NoSleepOnInput'
  BY <1>4 DEF NoSleepOnInput
<1>. QED
  BY <1>1, <1>4, <1>5 DEF LineInv

LEMMA SameKeeps == ASSUME LineInv, lineVars' = lineVars PROVE LineInv'
BY DEF LineInv, lineVars, LineTypeOK, NoSleepOnInput

LEMMA LineStep == LineInv /\ [LineNext]_lineVars => LineInv'
<1>. SUFFICES ASSUME LineInv, [LineNext]_lineVars PROVE LineInv'
  OBVIOUS
<1>1. ASSUME NEW ch \in Chars, Type(ch) PROVE LineInv'
  BY <1>1, TypeKeeps
<1>2. ASSUME NEW r \in Readers, NEW n \in 1 .. 2, Read(r, n) PROVE LineInv'
  BY <1>2, ReadKeeps
<1>3. ASSUME NEW r \in Readers, Wakes(r) PROVE LineInv'
  BY <1>3, WakesKeeps
<1>4. ASSUME NEW r \in Readers, Interrupted(r) PROVE LineInv'
  BY <1>4, InterruptedKeeps
<1>5. ASSUME NEW c \in BOOLEAN, NEW flush \in BOOLEAN, NEW f \in Iflags, NEW m \in Mins,
             SetTermios(c, f, m, flush)
      PROVE  LineInv'
  <2>1. /\ canon' \in BOOLEAN /\ iflags' \in Iflags /\ min' \in Mins
        /\ buf' = buf \/ buf' = <<>>
        /\ flag' = flag /\ mode' = mode /\ want' = want /\ overrun' = overrun
        /\ crossed' = IF canon' = canon THEN crossed ELSE {r \in Readers : mode[r] # "idle"}
    BY <1>5 DEF SetTermios
  <2>. QED
    BY <2>1, ModeKeeps
<1>6. CASE Flush
  <2>1. /\ canon' \in BOOLEAN /\ iflags' \in Iflags /\ min' \in Mins
        /\ buf' = buf \/ buf' = <<>>
        /\ flag' = flag /\ mode' = mode /\ want' = want /\ overrun' = overrun
        /\ crossed' = IF canon' = canon THEN crossed ELSE {r \in Readers : mode[r] # "idle"}
    BY <1>6 DEF Flush, termios, LineInv, LineTypeOK
  <2>. QED
    BY <2>1, ModeKeeps
<1>7. CASE AfterOverrun
  BY <1>7, SameKeeps DEF AfterOverrun
<1>8. CASE UNCHANGED lineVars
  BY <1>8, SameKeeps
<1>. QED
  BY <1>1, <1>2, <1>3, <1>4, <1>5, <1>6, <1>7, <1>8 DEF LineNext

LEMMA LineStart == LineInit => LineInv
<1>. SUFFICES ASSUME LineInit PROVE LineInv
  OBVIOUS
<1>1. /\ buf = <<>> /\ flag = [i \in 1 .. Size |-> FALSE] /\ overrun = FALSE
      /\ canon = TRUE /\ iflags = {"ICRNL"} /\ min = 1
      /\ mode = [r \in Readers |-> "idle"] /\ want = [r \in Readers |-> <<1, min>>]
      /\ crossed = {}
  BY DEF LineInit
<1>2. <<>> \in Seq({"x", "NUL"}) /\ Len(<<>>) = 0 /\ 0 <= Size /\ <<1, 1>> \in (1 .. 2) \X Mins
  BY TtyAssumption, EmptySeq
<1>3. LineTypeOK
  <2>1. want \in [Readers -> (1 .. 2) \X Mins] /\ mode \in [Readers -> Modes]
    BY <1>1, <1>2 DEF Modes
  <2>2. /\ buf \in Seq({"x", "NUL"}) /\ Len(buf) <= Size
        /\ flag \in [1 .. Size -> BOOLEAN]
    BY <1>1, <1>2
  <2>. QED
    BY <1>1, <2>1, <2>2, TtyAssumption DEF LineTypeOK, Iflags, Modes
<1>4. \A r \in Readers : mode[r] = "idle"
  BY <1>1
<1>. QED
  BY <1>3, <1>4 DEF LineInv, NoSleepOnInput

\* The line discipline of fs/tty.c keeps its types, its sleepers and its modes.
THEOREM TerminalHolds == LineSpec => []LineInv
<1>. QED
  BY LineStart, LineStep, PTL DEF LineSpec

\* fs/tty.c:273-276 and 289-292: no reader sleeps on what it waits for.
THEOREM NobodySleepsOnInput == LineSpec => [](LineTypeOK /\ NoSleepOnInput)
<1>1. LineInv => LineTypeOK /\ NoSleepOnInput
  BY DEF LineInv
<1>. QED
  BY <1>1, TerminalHolds, PTL

\* fs/tty.c:204-206: what is erased or killed lies behind the last end of a line.
THEOREM LinesStay == LineSpec => [][FinishedInputStays]_lineVars
<1>1. LineInv /\ [LineNext]_lineVars => [FinishedInputStays]_lineVars
  <2>. SUFFICES ASSUME LineInv, NEW ch \in Chars, Type(ch) PROVE IsPrefix(Finished, Finished')
    BY DEF FinishedInputStays
  <2>1. InputTypes /\ Grows /\ buf \in Seq(Bytes)
    BY TypeIs DEF LineInv, LineTypeOK, Bytes
  <2>2. PICK k, m : /\ IsLast(flag, Len(buf), k) /\ IsLast(flag', Len(buf'), m) /\ k <= m
                    /\ \A i \in 1 .. k : buf'[i] = buf[i]
    BY <2>1 DEF Grows
  <2>3. IsPrefix(FinishedOf(flag, buf), FinishedOf(flag', buf'))
    <3>. DEFINE g == flag'
                c == buf'
    <3>1. c \in Seq(Bytes) /\ IsLast(g, Len(c), m) /\ \A i \in 1 .. k : c[i] = buf[i]
      BY <2>1, <2>2 DEF InputTypes
    <3>. HIDE DEF g, c
    <3>2. IsPrefix(FinishedOf(flag, buf), FinishedOf(g, c))
      BY <2>1, <2>2, <3>1, FinishedGrows
    <3>. QED
      BY <3>2 DEF g, c
  <2>. QED
    BY <2>3 DEF Finished, FinishedOf
<1>. QED
  BY <1>1, TerminalHolds, PTL DEF LineSpec

\* fs/tty.c:262-287: a read in ICANON leaves the line that is still edited.
THEOREM LinesOnly == LineSpec => [][ReadsLinesOnly]_lineVars
<1>1. LineInv /\ [LineNext]_lineVars => [ReadsLinesOnly]_lineVars
  <2>. SUFFICES ASSUME LineInv, NEW r \in Readers,
                       \/ canon /\ \E n \in 1 .. 2 : Read(r, n)
                       \/ mode[r] = "canonUp" /\ Wakes(r)
                PROVE  Edited' = Edited
    BY DEF ReadsLinesOnly
  <2>1. PICK n \in 1 .. 2 : ReadCanon(r, n)
    <3>1. want[r][1] \in 1 .. 2
      <4>1. want[r] \in (1 .. 2) \X Mins
        BY DEF LineInv, LineTypeOK
      <4>. QED
        BY <4>1
    <3>. QED
      BY <3>1 DEF Read, Wakes
  <2>2. EditedOf(flag', buf') = EditedOf(flag, buf)
    BY <2>1, ReadCanonIs DEF LineInv
  <2>. QED
    BY <2>2 DEF Edited, Finished, EditedOf, FinishedOf
<1>. QED
  BY <1>1, TerminalHolds, PTL DEF LineSpec

\* fs/tty.c:341-347: but for a VMIN above one, what poll calls readable is.
THEOREM PollIsRight == LineSpec => [][PollMeansRead]_lineVars
<1>1. LineInv /\ [LineNext]_lineVars => [PollMeansRead]_lineVars
  <2>. SUFFICES ASSUME LineInv, PollRead, min <= 1, NEW r \in Readers, NEW n \in 1 .. 2, Read(r, n)
                PROVE  mode'[r] = "idle"
    BY DEF PollMeansRead
  <2>1. mode \in [Readers -> Modes] /\ buf \in Seq(Bytes) /\ min \in Nat
    BY TtyAssumption DEF LineInv, LineTypeOK, Modes, Bytes
  <2>2. mode' = [mode EXCEPT ![r] = "idle"]
    <3>1. CASE canon
      BY <3>1 DEF PollRead, Read, ReadCanon
    <3>2. CASE ~ canon
      <4>1. Len(buf) # 0 /\ Len(buf) \in Nat
        BY <2>1, <3>2, EmptySeq, LenProperties DEF PollRead
      <4>2. Len(buf) >= min
        BY <2>1, <4>1
      <4>. QED
        BY <3>2, <4>2 DEF Read, ReadRaw
    <3>. QED
      BY <3>1, <3>2
  <2>. QED
    BY <2>1, <2>2
<1>. QED
  BY <1>1, TerminalHolds, PTL DEF LineSpec

\* fs/tty.c:239-242: only a buffer that lines filled is overrun.
THEOREM OnlyLinesOverrun == LineSpec => [][OverrunNeedsFullLines]_lineVars
<1>1. LineInv /\ [LineNext]_lineVars => [OverrunNeedsFullLines]_lineVars
  <2>. SUFFICES ASSUME LineInv, [LineNext]_lineVars, lineVars' # lineVars, ~ overrun, overrun'
                PROVE  ~ canon /\ Len(buf) = Size
    BY DEF OverrunNeedsFullLines
  <2>1. PICK ch \in Chars : Type(ch)
    BY DEF LineNext, Read, Wakes, Interrupted, input, SetTermios, Flush, AfterOverrun
  <2>. QED
    BY <2>1, TypeIs DEF LineInv
<1>. QED
  BY <1>1, TerminalHolds, PTL DEF LineSpec

-----------------------------------------------------------------------------
(* Reads and writes of a shared open file *)

Vector == [op : {"vector"}, read : BOOLEAN, iov : Seq(IoVec) \ {<<>>}, count : Int, moved : Int,
           failed : BOOLEAN]
Pread == [op : {"pread"}, off : 0 .. MaxPos, n : Nat]
Result == [res : Int, moved : Int, failed : BOOLEAN]

IoTypes ==
  /\ length \in 0 .. MaxPos /\ pos \in 0 .. MaxPos /\ append \in BOOLEAN
  /\ call \in [Tasks -> {Idle} \cup Vector \cup Pread]
  /\ ret \in [Tasks -> Result]

\* A pread has the lock, and nobody else.
PreadLocks ==
  /\ lock \in Tasks \cup {NoTask} /\ disturbed \subseteq Preaders
  /\ \A t \in Tasks : call[t].op = "pread" => lock = t

IoInv == IoTypes /\ PreadLocks /\ PreadReadsThere

\* What is left of a vector still fits behind what was moved.
Counting ==
  /\ VectorsCountBytes
  /\ \A t \in Tasks : call[t].op = "vector" /\ ~ call[t].failed =>
       call[t].count = call[t].moved /\ call[t].moved \in Nat /\ Left(call[t].iov, call[t].moved)

LEMMA UnsignedIs == ASSUME W \in Nat \ {0} PROVE \A n \in Int : /\ Unsigned(n) \in 0 .. W - 1
                                                                /\ n \in 0 .. W - 1 => Unsigned(n) = n
BY DEF Unsigned

\* A read or a write transfers at most what it was asked for, and moves the
\* position under everybody who is in a pread.
LEMMA TransferIs ==
  ASSUME IoAssumption, IoTypes, NEW n \in Nat, NEW isRead \in BOOLEAN, NEW mapped \in BOOLEAN
  PROVE  /\ Readable(n) \in 0 .. n /\ Writable(n) \in 0 .. n
         /\ Transfer(isRead, n, mapped) =>
              /\ length' \in 0 .. MaxPos /\ pos' \in 0 .. MaxPos /\ append' \in BOOLEAN
              /\ disturbed' = disturbed \cup Preaders \/ (disturbed' = disturbed /\ pos' = pos)
<1>0. /\ MaxPos \in Nat /\ length \in 0 .. MaxPos /\ pos \in 0 .. MaxPos /\ append \in BOOLEAN
  BY DEF IoAssumption, IoTypes
<1>1. Readable(n) \in 0 .. n /\ pos + Readable(n) \in 0 .. MaxPos
  BY <1>0 DEF Readable, Fewer
<1>2. WriteAt \in 0 .. MaxPos
  BY <1>0 DEF WriteAt
<1>3. Writable(n) \in 0 .. n /\ WriteAt + Writable(n) \in 0 .. MaxPos
  BY <1>0, <1>2 DEF Writable, Fewer
<1>4. ASSUME HostRead(n)
      PROVE  /\ length' \in 0 .. MaxPos /\ pos' \in 0 .. MaxPos /\ append' \in BOOLEAN
             /\ disturbed' = disturbed \cup Preaders \/ (disturbed' = disturbed /\ pos' = pos)
  <2>1. /\ pos' = pos + Readable(n) /\ length' = length /\ append' = append
        /\ disturbed' = IF Readable(n) > 0 THEN disturbed \cup Preaders ELSE disturbed
    BY <1>4 DEF HostRead
  <2>2. Readable(n) > 0 \/ pos' = pos
    BY <1>0, <1>1, <2>1
  <2>. QED
    BY <1>0, <1>1, <2>1, <2>2
<1>5. ASSUME HostWrite(n)
      PROVE  /\ length' \in 0 .. MaxPos /\ pos' \in 0 .. MaxPos /\ append' \in BOOLEAN
             /\ disturbed' = disturbed \cup Preaders \/ (disturbed' = disturbed /\ pos' = pos)
  <2>1. /\ pos' = IF Writable(n) > 0 THEN WriteAt + Writable(n) ELSE pos
        /\ length' = IF Writable(n) > 0 /\ WriteAt + Writable(n) > length
                     THEN WriteAt + Writable(n) ELSE length
        /\ disturbed' = IF pos' # pos THEN disturbed \cup Preaders ELSE disturbed
        /\ append' = append
    BY <1>5 DEF HostWrite
  <2>. QED
    BY <1>0, <1>3, <2>1
<1>. QED
  BY <1>0, <1>1, <1>3, <1>4, <1>5 DEF Transfer

\* The calls that hold no lock: what they do to a pread.
LEMMA OtherKeeps ==
  ASSUME IoAssumption, IoInv, NEW t \in Tasks, call[t].op # "pread",
         NEW c \in {Idle} \cup Vector, call' = [call EXCEPT ![t] = c],
         NEW x \in Result, ret' = [ret EXCEPT ![t] = x],
         length' \in 0 .. MaxPos, pos' \in 0 .. MaxPos, append' \in BOOLEAN, lock' = lock,
         \/ disturbed' = disturbed \cup Preaders
         \/ disturbed' = disturbed /\ (pos' = pos \/ lock = NoTask)
  PROVE  IoInv'
<1>1. IoTypes'
  BY DEF IoInv, IoTypes
<1>2. c.op # "pread"
  BY DEF Idle, Vector
<1>3. \A p \in Tasks : /\ call'[p].op = "pread" <=> call[p].op = "pread"
                       /\ call[p].op = "pread" => call'[p] = call[p]
  BY <1>2 DEF IoInv, IoTypes
<1>4. Preaders' = Preaders
  BY <1>3 DEF Preaders
<1>5. PreadLocks'
  BY <1>3, <1>4 DEF IoInv, PreadLocks
<1>6. \A p \in Tasks : call[p].op = "pread" => p \in Preaders /\ lock = p /\ lock # NoTask
  BY DEF IoInv, PreadLocks, Preaders, IoAssumption
<1>7. PreadReadsThere'
  BY <1>3, <1>6 DEF IoInv, PreadReadsThere
<1>. QED
  BY <1>1, <1>5, <1>7 DEF IoInv

LEMMA NoResult == Nothing \in Result
BY DEF Nothing, Result

\* A round of a vector, in the words of its parts.
Got(t, v) == IF call[t].read THEN Readable(v.len) ELSE Writable(v.len)
Res(t, v) == IF ~ v.mapped THEN EFAULT ELSE IF ~ call[t].read /\ Got(t, v) = 0 /\ v.len > 0 THEN ENOSPC
             ELSE Got(t, v)
MovedBy(t, v) == call[t].moved + IF call[t].read \/ v.mapped THEN Got(t, v) ELSE 0
FailedBy(t, v) == call[t].failed \/ Res(t, v) < 0
Refused(t, v) == ~ call[t].read /\ Res(t, v) < 0
ShortBy(t, v) == IF call[t].read THEN Unsigned(Res(t, v)) < v.len ELSE Res(t, v) < v.len

LEMMA RoundIs ==
  ASSUME IoAssumption, IoTypes, NEW t \in Tasks, VectorStep(t)
  PROVE  LET v == Head(call[t].iov)
             count == Unsigned(call[t].count + Res(t, v)) IN
         /\ call[t] \in Vector /\ v \in IoVec /\ Transfer(call[t].read, v.len, v.mapped)
         /\ Got(t, v) \in 0 .. v.len /\ Res(t, v) \in Int /\ MovedBy(t, v) \in Int
         /\ lock' = lock
         /\ \/ /\ Refused(t, v) \/ ShortBy(t, v) \/ Len(call[t].iov) = 1
               /\ call' = [call EXCEPT ![t] = Idle]
               /\ ret' = [ret EXCEPT ![t] = [res |-> IF Refused(t, v) THEN Res(t, v) ELSE count,
                                             moved |-> MovedBy(t, v), failed |-> FailedBy(t, v)]]
            \/ /\ ~ (Refused(t, v) \/ ShortBy(t, v) \/ Len(call[t].iov) = 1)
               /\ call' = [call EXCEPT ![t] =
                    [call[t] EXCEPT !.iov = Tail(call[t].iov), !.count = count,
                                    !.moved = MovedBy(t, v), !.failed = FailedBy(t, v)]]
               /\ ret' = ret
<1>. DEFINE v == Head(call[t].iov)
<1>1. call[t] \in Vector
  BY DEF VectorStep, IoTypes, Idle, Pread
<1>2. v \in IoVec
  <2>1. call[t].iov \in Seq(IoVec) /\ call[t].iov # <<>>
    BY <1>1 DEF Vector
  <2>. QED
    BY <2>1, HeadTailProperties
<1>3. Transfer(call[t].read, v.len, v.mapped) /\ lock' = lock
  BY DEF VectorStep
<1>4. Got(t, v) \in 0 .. v.len
  <2>1. v.len \in Nat /\ v.mapped \in BOOLEAN /\ call[t].read \in BOOLEAN
    BY <1>1, <1>2 DEF Vector, IoVec
  <2>. HIDE DEF v
  <2>. QED
    BY <2>1, TransferIs DEF Got
<1>5. Res(t, v) \in Int /\ MovedBy(t, v) \in Int
  <2>1. v.len \in Nat /\ call[t].moved \in Int
    BY <1>1, <1>2 DEF Vector, IoVec
  <2>. HIDE DEF v
  <2>. QED
    BY <1>4, <2>1 DEF Res, MovedBy, EFAULT, ENOSPC
<1>6. \/ /\ Refused(t, v) \/ ShortBy(t, v) \/ Len(call[t].iov) = 1
         /\ call' = [call EXCEPT ![t] = Idle]
         /\ ret' = [ret EXCEPT ![t] =
              [res |-> IF Refused(t, v) THEN Res(t, v) ELSE Unsigned(call[t].count + Res(t, v)),
               moved |-> MovedBy(t, v), failed |-> FailedBy(t, v)]]
      \/ /\ ~ (Refused(t, v) \/ ShortBy(t, v) \/ Len(call[t].iov) = 1)
         /\ call' = [call EXCEPT ![t] =
              [call[t] EXCEPT !.iov = Tail(call[t].iov), !.count = Unsigned(call[t].count + Res(t, v)),
                              !.moved = MovedBy(t, v), !.failed = FailedBy(t, v)]]
         /\ ret' = ret
  BY Zenon DEF VectorStep, Got, Res, MovedBy, FailedBy, Refused, ShortBy
<1>. QED
  BY <1>1, <1>2, <1>3, <1>4, <1>5, <1>6, Zenon

\* What is left after a round.
LEMMA RoundGoesOn ==
  ASSUME IoAssumption, NEW c \in Vector, Len(c.iov) # 1,
         NEW n \in Int, NEW m \in Int, NEW f \in BOOLEAN
  PROVE  /\ [c EXCEPT !.iov = Tail(c.iov), !.count = n, !.moved = m, !.failed = f] \in Vector
         /\ Tail(c.iov) \in Seq(IoVec) /\ Len(Tail(c.iov)) = Len(c.iov) - 1 /\ Len(c.iov) \in Nat
         /\ Head(c.iov) = c.iov[1] /\ \A i \in 1 .. Len(Tail(c.iov)) : Tail(c.iov)[i] = c.iov[i + 1]
<1>1. c.iov \in Seq(IoVec) /\ c.iov # <<>>
  BY DEF Vector
<1>2. /\ Tail(c.iov) \in Seq(IoVec) /\ Len(Tail(c.iov)) = Len(c.iov) - 1 /\ Len(c.iov) \in Nat
      /\ Len(c.iov) # 0
      /\ Head(c.iov) = c.iov[1] /\ \A i \in 1 .. Len(Tail(c.iov)) : Tail(c.iov)[i] = c.iov[i + 1]
  BY <1>1, HeadTailProperties, LenProperties, EmptySeq
<1>3. Tail(c.iov) # <<>>
  <2>1. Len(Tail(c.iov)) # 0
    BY <1>2
  <2>. QED
    BY <2>1, EmptySeq
<1>4. [c EXCEPT !.iov = Tail(c.iov), !.count = n, !.moved = m, !.failed = f] \in Vector
  <2>. DEFINE w == Tail(c.iov)
  <2>1. w \in Seq(IoVec) \ {<<>>}
    BY <1>2, <1>3
  <2>. HIDE DEF w
  <2>2. [c EXCEPT !.iov = w, !.count = n, !.moved = m, !.failed = f] \in Vector
    BY <2>1 DEF Vector
  <2>. QED
    BY <2>2 DEF w
<1>. QED
  BY <1>2, <1>4

LEMMA VectorStepKeeps ==
  ASSUME IoAssumption, IoInv, NEW t \in Tasks, VectorStep(t) PROVE IoInv'
<1>. DEFINE v == Head(call[t].iov)
            count == Unsigned(call[t].count + Res(t, v))
            x == [res |-> IF Refused(t, v) THEN Res(t, v) ELSE count,
                  moved |-> MovedBy(t, v), failed |-> FailedBy(t, v)]
            c == [call[t] EXCEPT !.iov = Tail(call[t].iov), !.count = count,
                                 !.moved = MovedBy(t, v), !.failed = FailedBy(t, v)]
<1>1. /\ call[t] \in Vector /\ v \in IoVec /\ Transfer(call[t].read, v.len, v.mapped)
      /\ Res(t, v) \in Int /\ MovedBy(t, v) \in Int /\ lock' = lock
      /\ \/ /\ call' = [call EXCEPT ![t] = Idle]
            /\ ret' = [ret EXCEPT ![t] = x]
         \/ /\ Len(call[t].iov) # 1
            /\ call' = [call EXCEPT ![t] = c]
            /\ ret' = ret
  BY RoundIs DEF IoInv
<1>2. call[t].op # "pread" /\ call[t].count \in Int /\ call[t].failed \in BOOLEAN /\ call[t].read \in BOOLEAN
  BY <1>1 DEF Vector
<1>3. count \in Int
  <2>1. call[t].count + Res(t, v) \in Int
    BY <1>1, <1>2
  <2>. QED
    BY <2>1, UnsignedIs DEF IoAssumption
<1>4. FailedBy(t, v) \in BOOLEAN
  BY DEF FailedBy
<1>5. x \in Result
  BY <1>1, <1>3, <1>4 DEF Result
<1>6. /\ length' \in 0 .. MaxPos /\ pos' \in 0 .. MaxPos /\ append' \in BOOLEAN
      /\ disturbed' = disturbed \cup Preaders \/ (disturbed' = disturbed /\ pos' = pos)
  <2>1. v.len \in Nat /\ v.mapped \in BOOLEAN
    BY <1>1 DEF IoVec
  <2>. HIDE DEF v
  <2>. QED
    BY <1>1, <1>2, <2>1, TransferIs DEF IoInv
<1>7. ASSUME Len(call[t].iov) # 1 PROVE c \in Vector
  <2>. HIDE DEF count, v
  <2>. QED
    BY <1>1, <1>3, <1>4, <1>7, RoundGoesOn
<1>8. ret[t] \in Result /\ ret = [ret EXCEPT ![t] = ret[t]]
  BY DEF IoInv, IoTypes
<1>. HIDE DEF x, c, v, count
<1>9. CASE call' = [call EXCEPT ![t] = Idle] /\ ret' = [ret EXCEPT ![t] = x]
  BY <1>1, <1>2, <1>5, <1>6, <1>9, OtherKeeps
<1>10. CASE Len(call[t].iov) # 1 /\ call' = [call EXCEPT ![t] = c] /\ ret' = ret
  <2>1. ret' = [ret EXCEPT ![t] = ret[t]]
    BY <1>8, <1>10
  <2>. QED
    BY <1>1, <1>2, <1>6, <1>7, <1>8, <1>10, <2>1, OtherKeeps
<1>. QED
  BY <1>1, <1>9, <1>10

LEMMA PreadSeeksKeeps ==
  ASSUME IoAssumption, IoInv, NEW t \in Tasks, NEW off \in 0 .. MaxPos, NEW n \in 1 .. MaxLen,
         PreadSeeks(t, off, n)
  PROVE  IoInv'
<1>0. /\ call[t] = Idle /\ call[t].op # "pread" /\ lock = NoTask /\ pos' = off
      /\ ret' = [ret EXCEPT ![t] = Nothing] /\ length' = length /\ append' = append
      /\ disturbed' = disturbed
  BY DEF PreadSeeks, Idle, Forget
<1>1. length' \in 0 .. MaxPos /\ pos' \in 0 .. MaxPos /\ append' \in BOOLEAN
  BY <1>0 DEF IoInv, IoTypes
<1>2. CASE Unsigned(off) >= W \div 2
  <2>1. lock' = lock /\ call' = call
    BY <1>2 DEF PreadSeeks
  <2>2. call' = [call EXCEPT ![t] = Idle]
    BY <1>0, <2>1 DEF IoInv, IoTypes
  <2>. QED
    BY <1>0, <1>1, <2>1, <2>2, NoResult, OtherKeeps
<1>3. CASE ~ (Unsigned(off) >= W \div 2)
  <2>. DEFINE c == [op |-> "pread", off |-> off, n |-> n]
  <2>1. lock' = t /\ call' = [call EXCEPT ![t] = c]
    BY <1>3 DEF PreadSeeks
  <2>2. c \in Pread /\ c.off = off
    BY DEF Pread
  <2>3. \A p \in Tasks : call[p].op # "pread"
    BY <1>0 DEF IoInv, PreadLocks, IoAssumption
  <2>. HIDE DEF c
  <2>4. IoTypes'
    BY <1>0, <1>1, <2>1, <2>2, NoResult DEF IoInv, IoTypes
  <2>5. call'[t] = c /\ \A p \in Tasks \ {t} : call'[p] = call[p]
    BY <2>1 DEF IoInv, IoTypes
  <2>6. PreadLocks'
    <3>1. disturbed' \subseteq Preaders'
      BY <1>0, <2>3 DEF IoInv, PreadLocks, Preaders
    <3>. QED
      BY <2>1, <2>3, <2>5, <3>1 DEF PreadLocks
  <2>7. PreadReadsThere'
    BY <1>0, <2>2, <2>3, <2>5 DEF PreadReadsThere
  <2>. QED
    BY <2>4, <2>6, <2>7 DEF IoInv
<1>. QED
  BY <1>2, <1>3

LEMMA PreadReadsKeeps ==
  ASSUME IoAssumption, IoInv, NEW t \in Tasks, PreadReads(t) PROVE IoInv'
<1>0. /\ call[t].op = "pread" /\ lock = t /\ pos' = pos + Readable(call[t].n)
      /\ call' = [call EXCEPT ![t] = Idle] /\ lock' = NoTask /\ disturbed' = disturbed \ {t}
      /\ length' = length /\ append' = append /\ ret' = ret
  BY DEF PreadReads, IoInv, PreadLocks
<1>1. call[t] \in Pread
  BY <1>0 DEF IoInv, IoTypes, Idle, Vector
<1>2. pos' \in 0 .. MaxPos
  <2>1. call[t].n \in Nat /\ pos \in 0 .. MaxPos /\ length \in 0 .. MaxPos /\ MaxPos \in Nat
    BY <1>1 DEF Pread, IoInv, IoTypes, IoAssumption
  <2>. QED
    BY <1>0, <2>1 DEF Readable, Fewer
<1>3. IoTypes'
  BY <1>0, <1>2 DEF IoInv, IoTypes
<1>4. \A p \in Tasks : call'[p].op # "pread" /\ (p # t => call[p].op # "pread")
  <2>1. \A p \in Tasks : p # t => call[p].op # "pread"
    BY <1>0 DEF IoInv, PreadLocks
  <2>2. call'[t] = Idle /\ Idle.op # "pread" /\ \A p \in Tasks : p # t => call'[p] = call[p]
    BY <1>0 DEF IoInv, IoTypes, Idle
  <2>. QED
    BY <2>1, <2>2
<1>5. disturbed' \subseteq Preaders'
  BY <1>0, <1>4 DEF IoInv, PreadLocks, Preaders
<1>. QED
  BY <1>0, <1>3, <1>4, <1>5 DEF IoInv, PreadLocks, PreadReadsThere

\* The position of a seek.
LEMMA SeekKeeps ==
  ASSUME IoAssumption, IoInv, NEW t \in Tasks, NEW d \in -2 .. 2, NEW whence \in {"set", "cur", "end"},
         Lseek(t, d, whence) \/ Llseek(t, d, whence)
  PROVE  IoInv'
<1>0. /\ call[t] = Idle /\ call[t].op # "pread" /\ lock = NoTask
      /\ ret' = [ret EXCEPT ![t] = Nothing] /\ length' = length /\ append' = append
      /\ disturbed' = disturbed /\ lock' = lock /\ call' = call
  BY DEF Lseek, Llseek, Idle, Forget
<1>1. /\ pos \in 0 .. MaxPos /\ length \in 0 .. MaxPos /\ MaxPos \in Nat /\ W \in Nat \ {0}
  BY DEF IoInv, IoTypes, IoAssumption
<1>2. Base(whence) \in 0 .. MaxPos
  BY <1>1 DEF Base
<1>3. pos' \in 0 .. MaxPos
  <2>1. CASE Lseek(t, d, whence)
    <3>1. Unsigned(d) \in 0 .. W - 1
      BY <1>1, UnsignedIs
    <3>2. pos' = Base(whence) + Unsigned(d) /\ Base(whence) + Unsigned(d) <= MaxPos
      BY <2>1 DEF Lseek
    <3>. QED
      BY <1>1, <1>2, <3>1, <3>2
  <2>2. CASE Llseek(t, d, whence)
    <3>1. /\ pos' = IF Base(whence) + d < 0 THEN pos ELSE Base(whence) + d
          /\ Base(whence) + d <= MaxPos
      BY <2>2 DEF Llseek
    <3>. QED
      BY <1>1, <1>2, <3>1
  <2>. QED
    BY <2>1, <2>2
<1>4. call' = [call EXCEPT ![t] = Idle]
  BY <1>0 DEF IoInv, IoTypes
<1>5. length' \in 0 .. MaxPos /\ append' \in BOOLEAN
  BY <1>0 DEF IoInv, IoTypes
<1>. QED
  BY <1>0, <1>3, <1>4, <1>5, NoResult, OtherKeeps

LEMMA IoStep == IoAssumption /\ IoInv /\ [Next]_vars => IoInv'
<1>. SUFFICES ASSUME IoAssumption, IoInv, [Next]_vars PROVE IoInv'
  OBVIOUS
<1>0. /\ length \in 0 .. MaxPos /\ pos \in 0 .. MaxPos /\ append \in BOOLEAN
      /\ \A t \in Tasks : call = [call EXCEPT ![t] = call[t]] /\ (call[t] = Idle => call[t].op # "pread")
      /\ MaxLen \in Nat /\ MaxLen <= MaxPos /\ MaxPos \in Nat
  BY DEF IoInv, IoTypes, Idle, IoAssumption
<1>1. ASSUME NEW t \in Tasks, NEW b \in BOOLEAN, NEW mapped \in BOOLEAN, NEW n \in 0 .. MaxLen,
             ReadWrite(t, b, n, mapped)
      PROVE  IoInv'
  <2>1. /\ call[t] = Idle /\ call' = call /\ lock' = lock /\ ret' = [ret EXCEPT ![t] = Nothing]
        /\ Transfer(b, n, mapped)
    BY <1>1 DEF ReadWrite, Forget
  <2>2. n \in Nat
    BY <1>0
  <2>3. /\ length' \in 0 .. MaxPos /\ pos' \in 0 .. MaxPos /\ append' \in BOOLEAN
        /\ disturbed' = disturbed \cup Preaders \/ (disturbed' = disturbed /\ pos' = pos)
    BY <2>1, <2>2, TransferIs DEF IoInv
  <2>4. call' = [call EXCEPT ![t] = Idle] /\ call[t].op # "pread"
    BY <1>0, <2>1
  <2>. QED
    BY <2>1, <2>3, <2>4, NoResult, OtherKeeps
<1>2. ASSUME NEW t \in Tasks, NEW b \in BOOLEAN, NEW v \in Vectors, VectorBegins(t, b, v) PROVE IoInv'
  <2>. DEFINE c == [op |-> "vector", read |-> b, iov |-> v, count |-> 0, moved |-> 0, failed |-> FALSE]
  <2>1. /\ call[t] = Idle /\ call' = [call EXCEPT ![t] = c] /\ ret' = [ret EXCEPT ![t] = Nothing]
        /\ lock' = lock /\ disturbed' = disturbed /\ pos' = pos /\ length' = length /\ append' = append
    BY <1>2 DEF VectorBegins, Forget
  <2>2. c \in Vector
    <3>1. v \in Seq(IoVec) \ {<<>>}
      BY DEF IoAssumption
    <3>. QED
      BY <3>1 DEF Vector
  <2>. HIDE DEF c
  <2>3. /\ length' \in 0 .. MaxPos /\ pos' \in 0 .. MaxPos /\ append' \in BOOLEAN
        /\ call[t].op # "pread"
    BY <1>0, <2>1
  <2>. QED
    BY <2>1, <2>2, <2>3, NoResult, OtherKeeps
<1>3. ASSUME NEW t \in Tasks, VectorStep(t) PROVE IoInv'
  BY <1>3, VectorStepKeeps
<1>4. ASSUME NEW t \in Tasks, PreadReads(t) PROVE IoInv'
  BY <1>4, PreadReadsKeeps
<1>5. ASSUME NEW t \in Tasks, SetFlags(t) PROVE IoInv'
  <2>1. /\ call[t] = Idle /\ call' = call /\ ret' = [ret EXCEPT ![t] = Nothing] /\ append' = ~ append
        /\ lock' = lock /\ disturbed' = disturbed /\ pos' = pos /\ length' = length
    BY <1>5 DEF SetFlags, Forget
  <2>2. /\ length' \in 0 .. MaxPos /\ pos' \in 0 .. MaxPos /\ append' \in BOOLEAN
        /\ call' = [call EXCEPT ![t] = Idle] /\ call[t].op # "pread"
    BY <1>0, <2>1
  <2>. QED
    BY <2>1, <2>2, NoResult, OtherKeeps
<1>6. ASSUME NEW t \in Tasks, NEW d \in -2 .. 2, NEW whence \in {"set", "cur", "end"},
             Lseek(t, d, whence) \/ Llseek(t, d, whence)
      PROVE  IoInv'
  BY <1>6, SeekKeeps
<1>7. ASSUME NEW t \in Tasks, NEW off \in 0 .. MaxPos, NEW n \in 1 .. MaxLen, PreadSeeks(t, off, n)
      PROVE  IoInv'
  BY <1>7, PreadSeeksKeeps
<1>8. ASSUME NEW t \in Tasks, NEW n \in 0 .. MaxLen, Truncate(t, n) PROVE IoInv'
  <2>1. /\ call[t] = Idle /\ call' = call /\ ret' = [ret EXCEPT ![t] = Nothing] /\ length' = n
        /\ lock' = lock /\ disturbed' = disturbed /\ pos' = pos /\ append' = append
    BY <1>8 DEF Truncate, Forget
  <2>2. /\ length' \in 0 .. MaxPos /\ pos' \in 0 .. MaxPos /\ append' \in BOOLEAN
        /\ call' = [call EXCEPT ![t] = Idle] /\ call[t].op # "pread"
    BY <1>0, <2>1
  <2>. QED
    BY <2>1, <2>2, NoResult, OtherKeeps
<1>9. CASE UNCHANGED vars
  BY <1>9 DEF vars, IoInv, IoTypes, PreadLocks, Preaders, PreadReadsThere
<1>. QED
  BY <1>1, <1>2, <1>3, <1>4, <1>5, <1>6, <1>7, <1>8, <1>9 DEF Next, Fallocate

LEMMA IoStart == IoAssumption /\ Init => IoInv
<1>. SUFFICES ASSUME IoAssumption, Init PROVE IoInv
  OBVIOUS
<1>1. IoTypes
  <2>1. call \in [Tasks -> {Idle} \cup Vector \cup Pread] /\ ret \in [Tasks -> Result]
    BY NoResult DEF Init
  <2>2. length \in 0 .. MaxPos /\ pos \in 0 .. MaxPos /\ append \in BOOLEAN
    <3>1. length = MaxLen /\ pos = 0 /\ append = FALSE
      BY DEF Init
    <3>2. MaxLen \in Nat /\ MaxPos \in Nat /\ MaxLen <= MaxPos
      BY DEF IoAssumption
    <3>3. append \in BOOLEAN
      BY <3>1
    <3>4. length \in 0 .. MaxPos /\ pos \in 0 .. MaxPos
      BY <3>1, <3>2
    <3>. QED
      BY <3>3, <3>4
  <2>. QED
    BY <2>1, <2>2 DEF IoTypes
<1>2. \A t \in Tasks : call[t] = Idle /\ Idle.op # "pread"
  BY DEF Init, Idle
<1>3. PreadLocks /\ PreadReadsThere
  BY <1>2 DEF Init, PreadLocks, PreadReadsThere
<1>. QED
  BY <1>1, <1>3 DEF IoInv

\* kernel/fs.c:311-315: a pread that nobody disturbs reads where it was asked to.
THEOREM PreadsReadThere == IoAssumption => (Spec => [](TypeOK /\ PreadReadsThere))
<1>. SUFFICES ASSUME IoAssumption PROVE Spec => [](TypeOK /\ PreadReadsThere)
  OBVIOUS
<1>1. Init => IoInv
  BY IoStart
<1>2. IoInv /\ [Next]_vars => IoInv'
  BY IoStep
<1>3. IoInv => TypeOK /\ PreadReadsThere
  <2>. SUFFICES ASSUME IoInv PROVE TypeOK
    BY DEF IoInv
  <2>1. \A t \in Tasks : call[t].op \in {"idle", "vector", "pread"}
    BY DEF IoInv, IoTypes, Idle, Vector, Pread
  <2>. QED
    BY <2>1 DEF IoInv, IoTypes, PreadLocks, TypeOK
<1>. QED
  BY <1>1, <1>2, <1>3, PTL DEF Spec

\* After one buffer less is left.
LEMMA LeftGoes ==
  ASSUME W \in Nat \ {0}, NEW v \in Seq(IoVec), v # <<>>, NEW k \in Nat, Left(v, k)
  PROVE  LET l == Head(v).len IN
         /\ k + l < W /\ l < W
         /\ Left(Tail(v), k + l)
<1>0. /\ Len(v) \in Nat /\ Len(v) # 0 /\ Head(v) = v[1] /\ Tail(v) \in Seq(IoVec)
      /\ Len(Tail(v)) = Len(v) - 1 /\ \A i \in 1 .. Len(Tail(v)) : Tail(v)[i] = v[i + 1]
  BY HeadTailProperties, LenProperties, EmptySeq
<1>1. v[1].len \in Nat
  <2>1. v[1] \in IoVec
    BY <1>0, ElementOfSeq
  <2>. QED
    BY <2>1 DEF IoVec
<1>2. PICK left \in [1 .. Len(v) + 1 -> 0 .. W - 1] :
        /\ left[Len(v) + 1] = 0 /\ k + left[1] < W
        /\ \A i \in 1 .. Len(v) : left[i] = v[i].len + left[i + 1]
  BY DEF Left
<1>3. left[1] = v[1].len + left[2] /\ left[1] \in 0 .. W - 1 /\ left[2] \in 0 .. W - 1
  <2>1. 1 \in 1 .. Len(v) /\ 1 \in 1 .. Len(v) + 1 /\ 2 \in 1 .. Len(v) + 1 /\ 1 + 1 = 2
    BY <1>0
  <2>. QED
    BY <1>2, <2>1
<1>4. k + v[1].len < W /\ v[1].len < W
  BY <1>1, <1>2, <1>3
<1>. DEFINE w == Tail(v)
            j == k + v[1].len
            after == [i \in 1 .. Len(w) + 1 |-> left[i + 1]]
<1>5. after \in [1 .. Len(w) + 1 -> 0 .. W - 1]
  <2>1. \A i \in 1 .. Len(w) + 1 : i + 1 \in 1 .. Len(v) + 1
    BY <1>0
  <2>. QED
    BY <1>2, <2>1
<1>6. after[Len(w) + 1] = 0
  <2>1. Len(w) + 1 \in 1 .. Len(w) + 1 /\ Len(w) + 1 + 1 = Len(v) + 1
    BY <1>0
  <2>. QED
    BY <1>2, <2>1
<1>7. j + after[1] < W
  <2>1. 1 \in 1 .. Len(w) + 1 /\ 1 + 1 = 2
    BY <1>0
  <2>2. after[1] = left[2]
    BY <2>1
  <2>. HIDE DEF after
  <2>. QED
    BY <1>1, <1>2, <1>3, <2>2
<1>8. ASSUME NEW i \in 1 .. Len(w) PROVE after[i] = w[i].len + after[i + 1]
  <2>1. /\ i \in 1 .. Len(w) + 1 /\ i + 1 \in 1 .. Len(w) + 1 /\ i + 1 \in 1 .. Len(v)
    BY <1>0
  <2>2. after[i] = left[i + 1] /\ after[i + 1] = left[i + 1 + 1] /\ w[i] = v[i + 1]
    BY <1>0, <2>1
  <2>3. left[i + 1] = v[i + 1].len + left[i + 1 + 1]
    BY <1>2, <2>1
  <2>. QED
    BY <2>2, <2>3
<1>. HIDE DEF w, j, after
<1>9. Left(w, j)
  BY <1>5, <1>6, <1>7, <1>8 DEF Left
<1>. QED
  BY <1>0, <1>4, <1>9 DEF w, j

\* A round that does not fail and goes on has moved a whole buffer.
LEMMA RoundCounts ==
  ASSUME IoAssumption, IoInv, Counting, NEW t \in Tasks, VectorStep(t) PROVE Counting'
<1>. DEFINE v == Head(call[t].iov)
            count == Unsigned(call[t].count + Res(t, v))
            x == [res |-> IF Refused(t, v) THEN Res(t, v) ELSE count,
                  moved |-> MovedBy(t, v), failed |-> FailedBy(t, v)]
            c == [call[t] EXCEPT !.iov = Tail(call[t].iov), !.count = count,
                                 !.moved = MovedBy(t, v), !.failed = FailedBy(t, v)]
<1>1. /\ call[t] \in Vector /\ v \in IoVec
      /\ Got(t, v) \in 0 .. v.len /\ Res(t, v) \in Int /\ MovedBy(t, v) \in Int
      /\ \/ /\ call' = [call EXCEPT ![t] = Idle]
            /\ ret' = [ret EXCEPT ![t] = x]
         \/ /\ ~ ShortBy(t, v) /\ Len(call[t].iov) # 1
            /\ call' = [call EXCEPT ![t] = c]
            /\ ret' = ret
  BY RoundIs DEF IoInv
<1>2. /\ call[t].op = "vector" /\ call[t].iov \in Seq(IoVec) /\ call[t].iov # <<>>
      /\ call[t].failed \in BOOLEAN /\ v.len \in Nat /\ W \in Nat \ {0}
  BY <1>1 DEF Vector, IoVec, IoAssumption
<1>3. ASSUME ~ FailedBy(t, v)
      PROVE  /\ count = call[t].moved + Got(t, v) /\ MovedBy(t, v) = call[t].moved + Got(t, v)
             /\ Res(t, v) = Got(t, v) /\ ~ Refused(t, v) /\ call[t].moved \in Nat
             /\ call[t].moved + v.len < W /\ v.len < W /\ Left(Tail(call[t].iov), call[t].moved + v.len)
  <2>1. ~ call[t].failed /\ ~ (Res(t, v) < 0)
    BY <1>3 DEF FailedBy
  <2>2. /\ call[t].count = call[t].moved /\ call[t].moved \in Nat
        /\ Left(call[t].iov, call[t].moved)
    BY <1>2, <2>1 DEF Counting
  <2>3. call[t].moved + v.len < W /\ v.len < W /\ Left(Tail(call[t].iov), call[t].moved + v.len)
    BY <1>2, <2>2, LeftGoes
  <2>. HIDE DEF v
  <2>4. v.mapped /\ Res(t, v) = Got(t, v)
    <3>1. v.mapped
      BY <2>1 DEF Res, EFAULT
    <3>2. ~ (~ call[t].read /\ Got(t, v) = 0 /\ v.len > 0)
      BY <2>1, <3>1 DEF Res, ENOSPC
    <3>. QED
      BY <3>1, <3>2 DEF Res
  <2>5. ~ Refused(t, v) /\ MovedBy(t, v) = call[t].moved + Got(t, v)
    BY <2>1, <2>4 DEF Refused, MovedBy
  <2>6. call[t].moved + Got(t, v) \in 0 .. W - 1
    BY <1>1, <1>2, <2>2, <2>3
  <2>7. count = call[t].moved + Got(t, v)
    BY <1>2, <2>2, <2>4, <2>6, UnsignedIs
  <2>. QED
    BY <2>2, <2>3, <2>4, <2>5, <2>7
<1>4. ASSUME ~ FailedBy(t, v), ~ ShortBy(t, v) PROVE Got(t, v) = v.len
  <2>1. Res(t, v) = Got(t, v) /\ v.len < W
    BY <1>3, <1>4
  <2>. HIDE DEF v
  <2>2. Unsigned(Res(t, v)) = Got(t, v)
    <3>1. Got(t, v) \in 0 .. W - 1
      BY <1>1, <1>2, <2>1
    <3>. QED
      BY <1>2, <2>1, <3>1, UnsignedIs
  <2>3. ~ (Got(t, v) < v.len)
    BY <1>4, <2>1, <2>2 DEF ShortBy
  <2>. QED
    BY <1>1, <1>2, <2>3
<1>5. /\ call \in [Tasks -> {Idle} \cup Vector \cup Pread] /\ ret \in [Tasks -> Result]
  BY DEF IoInv, IoTypes
<1>6. CASE call' = [call EXCEPT ![t] = Idle] /\ ret' = [ret EXCEPT ![t] = x]
  <2>1. ~ x.failed => x.res = x.moved
    <3>1. x.failed = FailedBy(t, v) /\ x.moved = MovedBy(t, v)
          /\ x.res = IF Refused(t, v) THEN Res(t, v) ELSE count
      OBVIOUS
    <3>. HIDE DEF x, count
    <3>. QED
      BY <1>3, <3>1
  <2>. HIDE DEF x, v, c, count
  <2>2. /\ call'[t] = Idle /\ Idle.op # "vector" /\ \A p \in Tasks \ {t} : call'[p] = call[p]
        /\ ret'[t] = x /\ \A p \in Tasks \ {t} : ret'[p] = ret[p]
    BY <1>5, <1>6 DEF Idle
  <2>. QED
    BY <2>1, <2>2 DEF Counting, VectorsCountBytes
<1>7. CASE /\ ~ ShortBy(t, v) /\ Len(call[t].iov) # 1
           /\ call' = [call EXCEPT ![t] = c]
           /\ ret' = ret
  <2>1. c.failed = FailedBy(t, v) /\ c.count = count /\ c.moved = MovedBy(t, v) /\ c.iov = Tail(call[t].iov)
    BY <1>1 DEF Vector
  <2>. HIDE DEF c, count
  <2>2. ~ c.failed => c.count = c.moved /\ c.moved \in Nat /\ Left(c.iov, c.moved)
    <3>. SUFFICES ASSUME ~ FailedBy(t, v)
                  PROVE  count = MovedBy(t, v) /\ MovedBy(t, v) \in Nat /\ Left(Tail(call[t].iov), MovedBy(t, v))
      BY <2>1
    <3>1. MovedBy(t, v) = call[t].moved + v.len /\ count = MovedBy(t, v)
      BY <1>3, <1>4, <1>7
    <3>. HIDE DEF v
    <3>2. MovedBy(t, v) \in Nat
      BY <1>2, <1>3, <3>1
    <3>. QED
      BY <1>3, <3>1, <3>2
  <2>. HIDE DEF v
  <2>3. call'[t] = c /\ \A p \in Tasks \ {t} : call'[p] = call[p]
    BY <1>5, <1>7
  <2>. QED
    BY <1>7, <2>2, <2>3 DEF Counting, VectorsCountBytes
<1>. QED
  BY <1>1, <1>6, <1>7

LEMMA CountStep == IoAssumption /\ VectorsFit /\ IoInv /\ Counting /\ [Next]_vars => Counting'
<1>. SUFFICES ASSUME IoAssumption, VectorsFit, IoInv, Counting, [Next]_vars PROVE Counting'
  OBVIOUS
<1>0. call \in [Tasks -> {Idle} \cup Vector \cup Pread] /\ ret \in [Tasks -> Result]
  BY DEF IoInv, IoTypes
<1>1. ASSUME NEW t \in Tasks, NEW c, call' = [call EXCEPT ![t] = c],
             c.op = "vector" => ~ c.failed /\ c.count = 0 /\ c.moved = 0 /\ Left(c.iov, 0),
             Forget(t) \/ ret' = ret
      PROVE  Counting'
  <2>1. call'[t] = c /\ \A p \in Tasks \ {t} : call'[p] = call[p]
    BY <1>0, <1>1
  <2>2. \A p \in Tasks : ret'[p] = ret[p] \/ ret'[p] = Nothing
    BY <1>0, <1>1 DEF Forget
  <2>3. Nothing.res = Nothing.moved
    BY DEF Nothing
  <2>. QED
    BY <1>1, <2>1, <2>2, <2>3 DEF Counting, VectorsCountBytes
<1>2. ASSUME NEW t \in Tasks, call[t] = Idle, call' = call, Forget(t) PROVE Counting'
  <2>1. call' = [call EXCEPT ![t] = Idle] /\ Idle.op # "vector"
    BY <1>0, <1>2 DEF Idle
  <2>. QED
    BY <1>1, <1>2, <2>1
<1>3. ASSUME NEW t \in Tasks, NEW b \in BOOLEAN, NEW v \in Vectors, VectorBegins(t, b, v) PROVE Counting'
  <2>. DEFINE c == [op |-> "vector", read |-> b, iov |-> v, count |-> 0, moved |-> 0, failed |-> FALSE]
  <2>1. call' = [call EXCEPT ![t] = c] /\ Forget(t)
    BY <1>3 DEF VectorBegins
  <2>2. ~ c.failed /\ c.count = 0 /\ c.moved = 0 /\ Left(c.iov, 0)
    BY DEF VectorsFit
  <2>. HIDE DEF c
  <2>. QED
    BY <1>1, <2>1, <2>2
<1>4. ASSUME NEW t \in Tasks, VectorStep(t) PROVE Counting'
  BY <1>4, RoundCounts
<1>5. ASSUME NEW t \in Tasks, PreadReads(t) PROVE Counting'
  <2>1. call' = [call EXCEPT ![t] = Idle] /\ ret' = ret /\ Idle.op # "vector"
    BY <1>5 DEF PreadReads, Idle
  <2>. QED
    BY <1>1, <2>1
<1>6. ASSUME NEW t \in Tasks, NEW off \in 0 .. MaxPos, NEW n \in 1 .. MaxLen, PreadSeeks(t, off, n)
      PROVE  Counting'
  <2>. DEFINE c == [op |-> "pread", off |-> off, n |-> n]
  <2>1. call[t] = Idle /\ Forget(t) /\ (call' = call \/ call' = [call EXCEPT ![t] = c])
    BY <1>6 DEF PreadSeeks
  <2>2. c.op # "vector"
    OBVIOUS
  <2>. HIDE DEF c
  <2>. QED
    BY <1>1, <1>2, <2>1, <2>2
<1>7. CASE UNCHANGED vars
  BY <1>7 DEF vars, Counting, VectorsCountBytes
<1>8. ASSUME NEW t \in Tasks,
             \/ \E b, mapped \in BOOLEAN, n \in 0 .. MaxLen : ReadWrite(t, b, n, mapped)
             \/ SetFlags(t) \/ \E n \in 0 .. MaxLen : Truncate(t, n)
             \/ \E d \in -2 .. 2, whence \in {"set", "cur", "end"} : Lseek(t, d, whence) \/ Llseek(t, d, whence)
      PROVE  Counting'
  <2>1. call[t] = Idle /\ call' = call /\ Forget(t)
    BY <1>8 DEF ReadWrite, SetFlags, Truncate, Lseek, Llseek
  <2>. QED
    BY <1>2, <2>1
<1>. QED
  BY <1>3, <1>4, <1>5, <1>6, <1>7, <1>8 DEF Next, Fallocate

\* kernel/fs.c:198-223 and 247-272: readv and writev count what they moved, as
\* long as all the lengths together are a dword.
THEOREM VectorsCount == IoAssumption /\ VectorsFit => (Spec => []VectorsCountBytes)
<1>. SUFFICES ASSUME IoAssumption, VectorsFit PROVE Spec => []VectorsCountBytes
  OBVIOUS
<1>1. Init => IoInv /\ Counting
  <2>. SUFFICES ASSUME Init PROVE Counting
    BY IoStart
  <2>1. \A t \in Tasks : /\ call[t].op # "vector"
                         /\ ret[t].res = ret[t].moved
    BY DEF Init, Idle, Nothing
  <2>. QED
    BY <2>1 DEF Counting, VectorsCountBytes
<1>2. IoInv /\ Counting /\ [Next]_vars => (IoInv /\ Counting)'
  BY IoStep, CountStep
<1>3. Counting => VectorsCountBytes
  BY DEF Counting
<1>. QED
  BY <1>1, <1>2, <1>3, PTL DEF Spec
-----------------------------------------------------------------------------
(* poll and select.  What sys_poll's loop has done when it is at an entry: *)
(* every open entry before that is marked, and a file is registered, once  *)
(* and with what all its entries ask, exactly when its entries are marked. *)

Array == UNION {[1 .. n -> [fd : Fds, events : Entries]] : n \in 1 .. MaxEntries}
Pair == [file : Opened, events : SUBSET ((UNION Entries) \cup Always)]

\* Nobody is registered twice; who is registered has all its entries marked,
\* and asks for what they ask.
RegistrationsExact ==
  /\ \A k, l \in 1 .. Len(added) : added[k].file = added[l].file => k = l
  /\ \A k \in 1 .. Len(added) :
       /\ added[k].file \in Listed /\ added[k].events = Asked(added[k].file)
       /\ \A j \in DOMAIN polls : added[k].file \in FGet(polls[j].fd) => j \in marked

\* What the loop has done before entry `next'.
LoopSound ==
  /\ polls \in Array /\ next \in Nat \ {0} /\ marked \subseteq DOMAIN polls /\ added \in Seq(Pair)
  /\ RegistrationsExact
  /\ \A j \in marked : FGet(polls[j].fd) # {} =>
       \E k \in 1 .. Len(added) : added[k].file \in FGet(polls[j].fd)
  /\ \A j \in DOMAIN polls : j < next /\ FGet(polls[j].fd) # {} => j \in marked

\* poll and select, when they have answered.
CallsInv ==
  /\ pollCall \in {"none", "adding", "poll", "select"}
  /\ pollCall = "adding" => LoopSound
  /\ RegisteredOnce /\ PollAnswers /\ SelectAnswers

LEMMA ArrayIs ==
  ASSUME PollCallsAssumption, polls \in Array
  PROVE  \E n \in Nat : /\ DOMAIN polls = 1 .. n
                        /\ \A i \in 1 .. n : polls[i].fd \in Fds /\ polls[i].events \in Entries
<1>1. PICK n \in 1 .. MaxEntries : polls \in [1 .. n -> [fd : Fds, events : Entries]]
  BY DEF Array
<1>2. n \in Nat
  BY DEF PollCallsAssumption
<1>. QED
  BY <1>1, <1>2

\* A descriptor has one file or none.
LEMMA FGetIs ==
  \A fd, f : f \in FGet(fd) <=> fd \in DOMAIN Table /\ f = Table[fd]
BY DEF FGet

LEMMA FGetOne == \A fd, f : f \in FGet(fd) => FGet(fd) = {f} /\ f \in Opened
BY DEF FGet, Opened

\* A file that is not registered yet is registered with all its entries.
LEMMA AddsExact ==
  ASSUME PollCallsAssumption, LoopSound, next \in DOMAIN polls, next \notin marked,
         NEW f \in FGet(polls[next].fd), NEW same,
         same = {j \in DOMAIN polls \ marked : FGet(polls[j].fd) = FGet(polls[next].fd)}
  PROVE  /\ \A k \in 1 .. Len(added) : added[k].file # f
         /\ \A j \in DOMAIN polls : f \in FGet(polls[j].fd) <=> j \in same
         /\ (UNION {polls[j].events : j \in same}) \cup Always = Asked(f)
         /\ f \in Listed /\ next \in same /\ f \in Opened /\ Asked(f) \in SUBSET ((UNION Entries) \cup Always)
<1>1. FGet(polls[next].fd) = {f} /\ f \in Opened
  BY FGetOne
<1>2. ASSUME NEW k \in 1 .. Len(added), added[k].file = f PROVE FALSE
  BY <1>2 DEF LoopSound, RegistrationsExact
<1>3. ASSUME NEW j \in DOMAIN polls, f \in FGet(polls[j].fd) PROVE j \in same
  <2>1. FGet(polls[j].fd) = {f}
    BY <1>3, FGetOne
  <2>2. j \notin marked
    <3>. SUFFICES ASSUME j \in marked PROVE FALSE
      OBVIOUS
    <3>1. PICK k \in 1 .. Len(added) : added[k].file \in FGet(polls[j].fd)
      BY <2>1 DEF LoopSound
    <3>. QED
      BY <1>2, <2>1, <3>1
  <2>. QED
    BY <1>1, <2>1, <2>2
<1>4. \A j \in same : j \in DOMAIN polls /\ f \in FGet(polls[j].fd)
  BY <1>1
<1>5. same = {j \in DOMAIN polls : f \in FGet(polls[j].fd)}
  BY <1>3, <1>4
<1>6. (UNION {polls[j].events : j \in same}) \cup Always = Asked(f)
  BY <1>5 DEF Asked
<1>7. f \in Listed
  BY DEF Listed
<1>8. Asked(f) \in SUBSET ((UNION Entries) \cup Always)
  <2>1. \A j \in DOMAIN polls : polls[j].events \in Entries
    BY ArrayIs DEF LoopSound
  <2>2. \A j \in DOMAIN polls : polls[j].events \subseteq UNION Entries
    BY <2>1
  <2>. QED
    BY <2>2 DEF Asked
<1>. QED
  BY <1>1, <1>2, <1>3, <1>4, <1>6, <1>7, <1>8

LEMMA AddEntryKeeps ==
  ASSUME PollCallsAssumption, CallsInv, AddEntry PROVE CallsInv'
<1>0. /\ pollCall = "adding" /\ pollCall' = "adding" /\ next \in DOMAIN polls /\ next' = next + 1
      /\ polls' = polls /\ LoopSound
  BY DEF AddEntry, CallsInv
<1>1. SUFFICES LoopSound'
  BY <1>0 DEF CallsInv, RegisteredOnce, PollAnswers, SelectAnswers
<1>2. PICK n \in Nat : DOMAIN polls = 1 .. n
  BY <1>0, ArrayIs DEF LoopSound
<1>3. /\ next \in Nat \ {0} /\ next' \in Nat \ {0} /\ marked \subseteq DOMAIN polls /\ added \in Seq(Pair)
      /\ \A j \in DOMAIN polls : j < next' => j < next \/ j = next
  BY <1>0, <1>2 DEF LoopSound
<1>4. CASE marked' = marked /\ added' = added /\ (FGet(polls[next].fd) # {} => next \in marked)
  <2>1. RegistrationsExact'
    BY <1>0, <1>4 DEF LoopSound, RegistrationsExact, Listed, Asked
  <2>2. \A j \in DOMAIN polls : j < next' /\ FGet(polls[j].fd) # {} => j \in marked
    BY <1>0, <1>3, <1>4 DEF LoopSound
  <2>. QED
    BY <1>0, <1>3, <1>4, <2>1, <2>2 DEF LoopSound
<1>5. CASE FGet(polls[next].fd) = {} /\ marked' = marked \cup {next} /\ added' = added
  <2>1. RegistrationsExact'
    BY <1>0, <1>5 DEF LoopSound, RegistrationsExact, Listed, Asked
  <2>2. \A j \in DOMAIN polls : j < next' /\ FGet(polls[j].fd) # {} => j \in marked'
    BY <1>0, <1>3, <1>5 DEF LoopSound
  <2>3. \A j \in marked' : FGet(polls[j].fd) # {} =>
          \E k \in 1 .. Len(added) : added[k].file \in FGet(polls[j].fd)
    BY <1>0, <1>5 DEF LoopSound
  <2>4. marked' \subseteq DOMAIN polls
    BY <1>0, <1>3, <1>5
  <2>. QED
    BY <1>0, <1>3, <1>5, <2>1, <2>2, <2>3, <2>4 DEF LoopSound
<1>. DEFINE same == {j \in DOMAIN polls \ marked : FGet(polls[j].fd) = FGet(polls[next].fd)}
<1>6. ASSUME next \notin marked, marked' = marked \cup same, NEW f \in FGet(polls[next].fd),
             Adds(f, UNION {polls[j].events : j \in same})
      PROVE  LoopSound'
  <2>. DEFINE r == [file |-> f, events |-> Asked(f)]
              m == Len(added)
  <2>1. /\ \A k \in 1 .. m : added[k].file # f
        /\ \A j \in DOMAIN polls : f \in FGet(polls[j].fd) <=> j \in same
        /\ (UNION {polls[j].events : j \in same}) \cup Always = Asked(f)
        /\ f \in Listed /\ next \in same /\ f \in Opened /\ Asked(f) \in SUBSET ((UNION Entries) \cup Always)
    BY <1>0, <1>6, AddsExact
  <2>2. added' = Append(added, r) /\ r \in Pair /\ r.file = f /\ r.events = Asked(f)
    <3>. DEFINE e == UNION {polls[j].events : j \in same}
    <3>. HIDE DEF same
    <3>1. Adds(f, e)
      BY <1>6, Zenon
    <3>2. e \cup Always = Asked(f)
      BY <2>1
    <3>. HIDE DEF e
    <3>3. added' = Append(added, r)
      BY <3>1, <3>2 DEF Adds
    <3>4. r \in Pair
      BY <2>1 DEF Pair
    <3>. QED
      BY <3>3, <3>4
  <2>. HIDE DEF r, same
  <2>3. /\ added' \in Seq(Pair) /\ Len(added') = m + 1 /\ m \in Nat /\ added'[m + 1] = r
        /\ \A k \in 1 .. m : added'[k] = added[k]
    BY <1>3, <2>2, AppendProperties, LenProperties
  <2>. HIDE DEF m
  <2>4. \A k \in 1 .. Len(added') : (k \in 1 .. m /\ added'[k] = added[k]) \/ (k = m + 1 /\ added'[k] = r)
    BY <2>3
  <2>5. RegistrationsExact'
    <3>1. /\ \A k, l \in 1 .. m : added[k].file = added[l].file => k = l
          /\ \A k \in 1 .. m :
               /\ added[k].file \in Listed /\ added[k].events = Asked(added[k].file)
               /\ \A j \in DOMAIN polls : added[k].file \in FGet(polls[j].fd) => j \in marked
      BY <1>0 DEF LoopSound, RegistrationsExact, m
    <3>2. \A k, l \in 1 .. Len(added') : added'[k].file = added'[l].file => k = l
      BY <2>1, <2>2, <2>4, <3>1 DEF m
    <3>3. ASSUME NEW k \in 1 .. Len(added')
          PROVE  /\ added'[k].file \in Listed /\ added'[k].events = Asked(added'[k].file)
                 /\ \A j \in DOMAIN polls : added'[k].file \in FGet(polls[j].fd) => j \in marked'
      <4>1. CASE k \in 1 .. m /\ added'[k] = added[k]
        BY <1>6, <3>1, <4>1
      <4>2. CASE added'[k] = r
        BY <1>6, <2>1, <2>2, <4>2
      <4>. QED
        BY <2>4, <4>1, <4>2
    <3>4. Listed' = Listed /\ \A g : Asked(g)' = Asked(g)
      BY <1>0 DEF Listed, Asked
    <3>. QED
      BY <1>0, <3>2, <3>3, <3>4 DEF RegistrationsExact, Listed, Asked
  <2>6. \A j \in DOMAIN polls : j < next' /\ FGet(polls[j].fd) # {} => j \in marked'
    BY <1>0, <1>3, <1>6, <2>1 DEF LoopSound
  <2>7. ASSUME NEW j \in marked', FGet(polls[j].fd) # {}
        PROVE  \E k \in 1 .. Len(added') : added'[k].file \in FGet(polls[j].fd)
    <3>1. CASE j \in marked
      <4>1. PICK k \in 1 .. m : added[k].file \in FGet(polls[j].fd)
        BY <1>0, <2>7, <3>1 DEF LoopSound, m
      <4>2. k \in 1 .. Len(added')
        BY <2>3
      <4>. QED
        BY <2>3, <4>1, <4>2
    <3>2. CASE j \in same
      <4>1. m + 1 \in 1 .. Len(added') /\ j \in DOMAIN polls
        BY <2>3, <3>2 DEF same
      <4>. QED
        BY <2>1, <2>2, <2>3, <3>2, <4>1
    <3>. QED
      BY <1>6, <2>7, <3>1, <3>2
  <2>8. marked' \subseteq DOMAIN polls
    BY <1>3, <1>6 DEF same
  <2>. QED
    BY <1>0, <1>3, <2>3, <2>5, <2>6, <2>7, <2>8 DEF LoopSound
<1>7. polls[next].fd \in NegativeFds => FGet(polls[next].fd) = {}
  BY DEF FGet, PollCallsAssumption
<1>. HIDE DEF same
<1>8. \/ (polls[next].fd \in NegativeFds \/ next \in marked) /\ marked' = marked /\ added' = added
      \/ FGet(polls[next].fd) = {} /\ marked' = marked \cup {next} /\ added' = added
      \/ /\ next \notin marked /\ marked' = marked \cup same
         /\ \E f \in FGet(polls[next].fd) : Adds(f, UNION {polls[j].events : j \in same})
  BY DEF AddEntry, same
<1>. QED
  BY <1>4, <1>5, <1>6, <1>7, <1>8 DEF same

LEMMA SysPollKeeps ==
  ASSUME PollCallsAssumption, CallsInv, SysPoll PROVE CallsInv'
<1>1. PICK n \in 1 .. MaxEntries : polls' \in [1 .. n -> [fd : Fds, events : Entries]]
  BY DEF SysPoll
<1>2. polls' \in Array /\ DOMAIN polls' = 1 .. n
  BY <1>1 DEF Array
<1>3. pollCall' = "adding" /\ next' = 1 /\ marked' = {} /\ added' = <<>>
  BY DEF SysPoll
<1>4. added' \in Seq(Pair) /\ Len(added') = 0
  BY <1>3, EmptySeq
<1>5. RegistrationsExact'
  BY <1>4 DEF RegistrationsExact
<1>6. \A j \in DOMAIN polls' : ~ j < next'
  BY <1>2, <1>3 DEF PollCallsAssumption
<1>7. LoopSound'
  BY <1>2, <1>3, <1>4, <1>5, <1>6 DEF LoopSound
<1>. QED
  BY <1>3, <1>7 DEF CallsInv, RegisteredOnce, PollAnswers, SelectAnswers

LEMMA PollReturnsKeeps ==
  ASSUME PollCallsAssumption, CallsInv, PollReturns PROVE CallsInv'
<1>. DEFINE rep == Reported(added, ready')
<1>0. /\ LoopSound /\ RegistrationsExact /\ pollCall' = "poll" /\ next \notin DOMAIN polls
      /\ polls' = polls /\ added' = added
      /\ revents' = [i \in DOMAIN polls |-> Revents(polls[i], ready', rep)]
      /\ returned' = Cardinality(rep)
  BY DEF CallsInv, PollReturns, LoopSound, loopVars
<1>1. PICK n \in Nat : DOMAIN polls = 1 .. n
  BY <1>0, ArrayIs DEF LoopSound
<1>2. DOMAIN added = 1 .. Len(added) /\ \A k \in DOMAIN added : added[k] \in Pair
  BY <1>0, LenProperties, ElementOfSeq DEF LoopSound
<1>3. \A r \in Range(added) : r \in Pair /\ r.file \in Listed /\ r.events = Asked(r.file)
  BY <1>0, <1>2 DEF Range, RegistrationsExact
<1>4. ASSUME NEW f \in Listed PROVE \E r \in Range(added) : r.file = f
  <2>1. PICK j \in DOMAIN polls : f \in FGet(polls[j].fd)
    BY <1>4 DEF Listed
  <2>2. FGet(polls[j].fd) = {f} /\ j < next
    BY <1>0, <1>1, <2>1, FGetOne DEF LoopSound
  <2>3. PICK k \in 1 .. Len(added) : added[k].file \in FGet(polls[j].fd)
    BY <1>0, <2>2 DEF LoopSound
  <2>. QED
    BY <1>2, <2>2, <2>3 DEF Range
<1>5. \A f : f \in rep <=> f \in Listed /\ ready'[f] \cap Asked(f) # {}
  <2>1. \A f : f \in rep <=> \E r \in Range(added) : r.file = f /\ ready'[f] \cap r.events # {}
    BY DEF Reported
  <2>. QED
    BY <1>3, <1>4, <2>1
<1>. HIDE DEF rep
<1>6. ASSUME NEW i \in DOMAIN polls, NEW f \in FGet(polls[i].fd)
      PROVE  revents'[i] = ready'[f] \cap (polls[i].events \cup Always)
  <2>1. FGet(polls[i].fd) = {f} /\ f \in Listed
    BY FGetOne DEF Listed
  <2>2. polls[i].events \cup Always \subseteq Asked(f)
    BY DEF Asked
  <2>3. revents'[i] = Revents(polls[i], ready', rep)
    BY <1>0
  <2>4. UNION {ready'[g] : g \in FGet(polls[i].fd)} = ready'[f]
    BY <2>1
  <2>5. CASE f \in rep
    BY <2>1, <2>3, <2>4, <2>5 DEF Revents
  <2>6. CASE f \notin rep
    <3>1. revents'[i] = {}
      BY <2>1, <2>3, <2>6 DEF Revents
    <3>2. ready'[f] \cap Asked(f) = {}
      BY <1>5, <2>1, <2>6
    <3>. QED
      BY <2>2, <3>1, <3>2
  <2>. QED
    BY <2>5, <2>6
<1>7. rep = {} <=> \A i \in DOMAIN polls : FGet(polls[i].fd) = {} \/ revents'[i] = {}
  <2>1. ASSUME rep = {}, NEW i \in DOMAIN polls, NEW f \in FGet(polls[i].fd) PROVE revents'[i] = {}
    <3>1. f \in Listed /\ ready'[f] \cap Asked(f) = {}
      BY <1>5, <2>1 DEF Listed
    <3>2. polls[i].events \cup Always \subseteq Asked(f)
      BY <2>1 DEF Asked
    <3>. QED
      BY <1>6, <2>1, <3>1, <3>2
  <2>2. ASSUME NEW f \in rep
        PROVE  \E i \in DOMAIN polls : FGet(polls[i].fd) # {} /\ revents'[i] # {}
    <3>1. PICK t \in ready'[f] : t \in Asked(f)
      BY <1>5, <2>2
    <3>2. f \in Listed
      BY <1>5, <2>2
    <3>3. PICK i \in DOMAIN polls : f \in FGet(polls[i].fd) /\ t \in polls[i].events \cup Always
      BY <3>1, <3>2 DEF Asked, Listed
    <3>. QED
      BY <1>6, <3>1, <3>3
  <2>. QED
    BY <2>1, <2>2
<1>8. IsFiniteSet(rep)
  <2>1. Opened = {Table[fd] : fd \in DOMAIN Table} /\ IsFiniteSet(DOMAIN Table)
    BY DEF Opened, PollCallsAssumption
  <2>2. [fd \in DOMAIN Table |-> Table[fd]] \in Surjection(DOMAIN Table, Opened)
    BY <2>1 DEF Surjection
  <2>3. IsFiniteSet(Opened)
    BY <2>1, <2>2, FS_Surjection
  <2>4. rep \subseteq Opened
    BY <1>5, FGetOne DEF Listed
  <2>. QED
    BY <2>3, <2>4, FS_Subset
<1>9. returned' = 0 <=> rep = {}
  BY <1>0, <1>8, FS_EmptySet
<1>10. Listed' = Listed /\ \A f : Asked(f)' = Asked(f)
  BY <1>0 DEF Listed, Asked
<1>11. RegisteredOnce'
  <2>1. \A i, j \in DOMAIN added : added[i].file = added[j].file => i = j
    BY <1>0, <1>2 DEF RegistrationsExact
  <2>2. {<<r.file, r.events>> : r \in Range(added)} = {<<f, Asked(f)>> : f \in Listed}
    BY <1>3, <1>4
  <2>. QED
    BY <1>0, <2>1, <2>2 DEF RegisteredOnce, Listed, Asked
<1>12. PollAnswers'
  BY <1>0, <1>6, <1>7, <1>9 DEF PollAnswers
<1>. QED
  BY <1>0, <1>11, <1>12 DEF CallsInv, SelectAnswers

\* Only an error is in the masks of two kinds of set.
LEMMA MasksMeet ==
  ASSUME NEW k \in Kinds, NEW l \in Kinds, k # l, NEW w \in SelectMask(k), w \in SelectMask(l)
  PROVE  w = "err" /\ l \in {"read", "write"}
BY DEF Kinds, SelectMask

\* What the host tells unasked belongs to some set.
LEMMA AlwaysMasked == \A w \in {"err", "hup"} : w \in SelectMask("read") /\ "read" \in Kinds
BY DEF Kinds, SelectMask

LEMMA SysSelectKeeps ==
  ASSUME CallsInv, SysSelect PROVE CallsInv'
<1>0. PICK sets \in [Kinds -> SUBSET DOMAIN Table], rd \in [Opened -> ReadySets] :
        /\ polls' = sets /\ ready' = rd
        /\ revents' = [k \in Kinds |-> {fd \in DOMAIN Table :
                         [x \in DOMAIN Table |-> Types(sets, rd, x)][fd] \cap SelectMask(k) # {}}]
        /\ returned' = Cardinality({fd \in DOMAIN Table :
                         [x \in DOMAIN Table |-> Types(sets, rd, x)][fd] # {}})
  BY DEF SysSelect
<1>1. /\ polls' = sets /\ ready' = rd /\ pollCall' = "select"
      /\ \A k \in Kinds : \A fd :
           fd \in revents'[k] <=> fd \in DOMAIN Table /\ Types(sets, rd, fd) \cap SelectMask(k) # {}
      /\ returned' = Cardinality({fd \in DOMAIN Table : Types(sets, rd, fd) # {}})
  <2>1. {fd \in DOMAIN Table : [x \in DOMAIN Table |-> Types(sets, rd, x)][fd] # {}}
          = {fd \in DOMAIN Table : Types(sets, rd, fd) # {}}
    OBVIOUS
  <2>2. \A k \in Kinds : revents'[k] = {fd \in DOMAIN Table :
                         [x \in DOMAIN Table |-> Types(sets, rd, x)][fd] \cap SelectMask(k) # {}}
    BY <1>0
  <2>3. pollCall' = "select"
    BY DEF SysSelect
  <2>. QED
    BY <1>0, <2>1, <2>2, <2>3
<1>. DEFINE Told(fd) == IF Table[fd] \in RealFiles THEN {"err", "hup"} ELSE {}
<1>2. \A fd \in DOMAIN Table : \A w :
        w \in Types(sets, rd, fd) <=>
          /\ Wanted(sets, fd) # {} /\ w \in rd[Table[fd]]
          /\ w \in Wanted(sets, fd) \/ w \in Told(fd)
  BY DEF Types, FGet, PollTypes
<1>3. \A fd, w : w \in Wanted(sets, fd) <=> \E k \in Kinds : fd \in sets[k] /\ w \in SelectMask(k)
  BY DEF Wanted
<1>4. \A k \in Kinds : \A fd \in sets[k] : fd \in DOMAIN Table
  OBVIOUS
<1>a. \A k \in Kinds : SelectMask(k) # {}
  BY DEF Kinds, SelectMask
<1>5. ASSUME NEW k \in Kinds, NEW fd \in sets[k]
      PROVE  fd \in revents'[k] <=> rd[Table[fd]] \cap SelectMask(k) # {}
  <2>1. fd \in DOMAIN Table /\ SelectMask(k) \subseteq Wanted(sets, fd) /\ Wanted(sets, fd) # {}
    BY <1>3, <1>4, <1>a
  <2>. QED
    BY <1>1, <1>2, <2>1
<1>6. ASSUME NEW k \in Kinds, NEW fd \in revents'[k] \ sets[k]
      PROVE  \/ "err" \in rd[Table[fd]] /\ fd \in sets["read"] \cup sets["write"]
             \/ /\ Table[fd] \in RealFiles /\ fd \in UNION {sets[j] : j \in Kinds}
                /\ rd[Table[fd]] \cap {"err", "hup"} \cap SelectMask(k) # {}
  <2>1. PICK w \in rd[Table[fd]] : /\ w \in Wanted(sets, fd) \/ w \in Told(fd)
                                   /\ w \in SelectMask(k) /\ Wanted(sets, fd) # {}
    BY <1>1, <1>2
  <2>2. PICK j \in Kinds : fd \in sets[j]
    BY <1>3, <2>1
  <2>3. CASE w \in Wanted(sets, fd)
    <3>1. PICK l \in Kinds : fd \in sets[l] /\ w \in SelectMask(l)
      BY <1>3, <2>3
    <3>. QED
      BY <2>1, <3>1, MasksMeet
  <2>4. CASE w \in Told(fd)
    BY <2>1, <2>2, <2>4
  <2>. QED
    BY <2>1, <2>3, <2>4
<1>7. {fd \in DOMAIN Table : Types(sets, rd, fd) # {}} = UNION {revents'[k] : k \in Kinds}
  <2>1. ASSUME NEW fd \in DOMAIN Table, Types(sets, rd, fd) # {} PROVE \E k \in Kinds : fd \in revents'[k]
    <3>1. PICK w \in Types(sets, rd, fd) : w \in Wanted(sets, fd) \/ w \in {"err", "hup"}
      BY <1>2, <2>1
    <3>2. PICK k \in Kinds : w \in SelectMask(k)
      BY <1>3, <3>1, AlwaysMasked
    <3>. QED
      BY <1>1, <3>1, <3>2
  <2>2. \A k \in Kinds : \A fd \in revents'[k] : fd \in DOMAIN Table /\ Types(sets, rd, fd) # {}
    BY <1>1
  <2>. QED
    BY <2>1, <2>2
<1>. HIDE DEF Told
<1>8. SelectAnswers'
  <2>1. \A k \in Kinds : \A fd \in polls'[k] :
           fd \in revents'[k] <=> ready'[Table[fd]] \cap SelectMask(k) # {}
    BY <1>1, <1>5
  <2>2. \A k \in Kinds : \A fd \in revents'[k] \ polls'[k] :
          \/ "err" \in ready'[Table[fd]] /\ fd \in polls'["read"] \cup polls'["write"]
          \/ /\ Table[fd] \in RealFiles /\ fd \in UNION {polls'[j] : j \in Kinds}
             /\ ready'[Table[fd]] \cap {"err", "hup"} \cap SelectMask(k) # {}
    BY <1>1, <1>6, Zenon
  <2>3. returned' = Cardinality(UNION {revents'[k] : k \in Kinds})
    BY <1>1, <1>7
  <2>. QED
    BY <2>1, <2>2, <2>3 DEF SelectAnswers
<1>. QED
  BY <1>1, <1>8 DEF CallsInv, RegisteredOnce, PollAnswers

\* poll registers a file once however often it is listed, and both calls tell
\* of every descriptor what was asked about it and is so, and select of nothing
\* else but an error, or a hangup of a file of the host.
THEOREM PollsAnswer ==
  PollCallsAssumption => (PollSpec => [](RegisteredOnce /\ PollAnswers /\ SelectAnswers))
<1>. SUFFICES ASSUME PollCallsAssumption PROVE PollSpec => [](RegisteredOnce /\ PollAnswers /\ SelectAnswers)
  OBVIOUS
<1>1. PollInit => CallsInv
  BY DEF PollInit, CallsInv, RegisteredOnce, PollAnswers, SelectAnswers
<1>2. CallsInv /\ [PollNext]_pollVars => CallsInv'
  <2>. SUFFICES ASSUME CallsInv, [PollNext]_pollVars PROVE CallsInv'
    OBVIOUS
  <2>1. CASE SysPoll
    BY <2>1, SysPollKeeps
  <2>2. CASE AddEntry
    BY <2>2, AddEntryKeeps
  <2>3. CASE PollReturns
    BY <2>3, PollReturnsKeeps
  <2>4. CASE SysSelect
    BY <2>4, SysSelectKeeps
  <2>5. CASE CallDone
    BY <2>5 DEF CallDone, CallsInv, RegisteredOnce, PollAnswers, SelectAnswers
  <2>6. CASE UNCHANGED pollVars
    <3>1. /\ pollCall' = pollCall /\ polls' = polls /\ next' = next /\ marked' = marked /\ added' = added
          /\ ready' = ready /\ revents' = revents /\ returned' = returned
      BY <2>6 DEF pollVars, loopVars
    <3>2. RegistrationsExact => RegistrationsExact'
      BY <3>1 DEF RegistrationsExact, Listed, Asked
    <3>3. LoopSound => LoopSound'
      BY <3>1, <3>2 DEF LoopSound
    <3>4. RegisteredOnce => RegisteredOnce'
      BY <3>1 DEF RegisteredOnce, Listed, Asked
    <3>5. PollAnswers => PollAnswers'
      BY <3>1 DEF PollAnswers
    <3>6. SelectAnswers => SelectAnswers'
      BY <3>1 DEF SelectAnswers
    <3>. QED
      BY <3>1, <3>3, <3>4, <3>5, <3>6 DEF CallsInv
  <2>. QED
    BY <2>1, <2>2, <2>3, <2>4, <2>5, <2>6 DEF PollNext
<1>3. CallsInv => RegisteredOnce /\ PollAnswers /\ SelectAnswers
  BY DEF CallsInv
<1>. QED
  BY <1>1, <1>2, <1>3, PTL DEF PollSpec
-----------------------------------------------------------------------------
(* getdents64 and the files of proc.  A listing has nothing at or after    *)
(* the position it goes on from, and everything before it that stayed;     *)
(* between finding an entry and writing it, that is the position found,    *)
(* and an entry that does not fit is taken back to the one before.         *)

\* Entries that were there the whole time.
Stayed == {0} \cup throughout
Behind(p) == \A q \in ToSet(listed) : q < p
Passed(p) == \A q \in Stayed : q < p => q \in ToSet(listed)

DirTypes ==
  /\ ProcTypeOK
  /\ ptr \in 0 .. MaxPid + 1 /\ found \in 0 .. MaxPid /\ asked \in Nat
  /\ shown \in Nat /\ copied \in Nat

\* Where a listing is, from opening the directory to its end.
Listing ==
  /\ IsInjective(listed)
  /\ step = "closed" => listed = << >> /\ index = 0 /\ offset = 0
  /\ step \in {"loop", "assert", "put", "seek"} => asked \in Buffers
  /\ step \in {"dir", "loop"} => Behind(index) /\ Passed(index)
  /\ step \in {"assert", "put"} =>
       Behind(ptr) /\ ptr <= found /\ Passed(found) /\ index = found + 1
  /\ step = "seek" => Behind(ptr) /\ Passed(ptr) /\ (room = asked => Stayed \subseteq ToSet(listed))
  /\ step = "listed" => Stayed \subseteq ToSet(listed)

ProcInv == DirTypes /\ Listing /\ ReadStaysInside

\* Every set of positions has a least one, as its members before another are
\* strictly included in one another.
LEMMA LeastPosition ==
  ASSUME ProcAssumption, NEW S \in SUBSET (0 .. MaxPid), S # {}
  PROVE  Min(S) \in S /\ \A p \in S : Min(S) <= p
<1>. DEFINE F == 0 .. MaxPid
            Earlier(f) == {g \in S : g < f}
            All == {Earlier(f) : f \in S}
<1>0. IsFiniteSet(F) /\ MaxPid \in Nat
  BY FS_Interval DEF ProcAssumption
<1>1. IsWellFoundedOn(StrictSubsetOrdering(F), FiniteSubsetsOf(F))
  BY FS_StrictSubsetOrderingWellFounded
<1>2. All \subseteq FiniteSubsetsOf(F)
  <2>1. \A f \in S : Earlier(f) \in SUBSET F
    OBVIOUS
  <2>2. FiniteSubsetsOf(F) = SUBSET F
    BY <1>0, FS_FiniteSubsetsOfFinite
  <2>. QED
    BY <2>1, <2>2
<1>3. All # {}
  OBVIOUS
<1>4. \E A \in All : \A B \in All : ~(<<B, A>> \in StrictSubsetOrdering(F))
  BY <1>1, <1>2, <1>3, WFMin
<1>5. PICK f \in S : \A g \in S : ~(<<Earlier(g), Earlier(f)>> \in StrictSubsetOrdering(F))
  BY <1>4
<1>6. \A g \in S : f <= g
  <2>. SUFFICES ASSUME NEW g \in S, g < f PROVE FALSE
    BY <1>0
  <2>1. Earlier(g) \subseteq Earlier(f) /\ g \in Earlier(f) /\ g \notin Earlier(g)
    <3>1. f \in Nat /\ g \in Nat /\ ~(g < g) /\ \A h \in S : h \in Nat
      OBVIOUS
    <3>2. ASSUME NEW h \in Earlier(g) PROVE h \in Earlier(f)
      BY <3>1, <3>2
    <3>. QED
      BY <3>1, <3>2
  <2>2. <<Earlier(g), Earlier(f)>> \in (SUBSET F) \X (SUBSET F)
    OBVIOUS
  <2>. QED
    BY <1>5, <2>1, <2>2 DEF StrictSubsetOrdering
<1>. QED
  BY <1>6 DEF Min

LEMMA DirOpens == ASSUME ProcAssumption, ProcInv, OpenDir PROVE ProcInv'
<1>1. /\ step' = "dir" /\ throughout' = alive /\ listed' = << >> /\ index' = 0
      /\ alive' = alive /\ ptr' = ptr /\ found' = found /\ asked' = asked /\ room' = room
      /\ offset' = offset /\ shown' = shown /\ copied' = copied /\ alive \subseteq Pids /\ listed = << >>
  BY DEF OpenDir, Goto, fileVars, ProcInv, Listing, DirTypes, ProcTypeOK
<1>2. ToSet(listed') = {} /\ \A q \in Stayed' : q \in Nat
  BY <1>1 DEF ToSet, Stayed, Pids
<1>3. DirTypes'
  BY <1>1, EmptySeq DEF ProcInv, DirTypes, ProcTypeOK, ProcAssumption
<1>4. Behind(index)' /\ Passed(index)'
  BY <1>1, <1>2 DEF Behind, Passed
<1>. QED
  BY <1>1, <1>3, <1>4 DEF ProcInv, Listing, ReadStaysInside

LEMMA GetdentsKeeps == ASSUME ProcAssumption, ProcInv, Getdents PROVE ProcInv'
<1>1. /\ step = "dir" /\ step' = "loop" /\ asked' \in Buffers /\ room' = asked'
      /\ alive' = alive /\ ptr' = ptr /\ found' = found /\ index' = index /\ listed' = listed
      /\ throughout' = throughout /\ offset' = offset /\ shown' = shown /\ copied' = copied
  BY DEF Getdents, Goto, fileVars
<1>2. DirTypes'
  BY <1>1 DEF ProcInv, DirTypes, ProcTypeOK, ProcAssumption
<1>3. Listing'
  BY <1>1 DEF ProcInv, Listing, Behind, Passed, Stayed
<1>. QED
  BY <1>1, <1>2, <1>3 DEF ProcInv, ReadStaysInside

LEMMA ReadDirKeeps == ASSUME ProcAssumption, ProcInv, ReadDir PROVE ProcInv'
<1>. DEFINE left == {p \in {0} \cup alive : p >= index}
<1>1. /\ step = "loop" /\ ptr' = index
      /\ IF left = {} THEN step' = "seek" /\ index' = index /\ found' = found
         ELSE /\ found' = Min(left) /\ index' = Min(left) + 1 /\ step' \in {"put", "assert"}
      /\ alive' = alive /\ asked' = asked /\ room' = room /\ listed' = listed
      /\ throughout' = throughout /\ offset' = offset /\ shown' = shown /\ copied' = copied
  BY DEF ReadDir, Goto, fileVars
<1>2. /\ DirTypes /\ ProcTypeOK /\ IsInjective(listed) /\ asked \in Buffers /\ Behind(index) /\ Passed(index)
      /\ Stayed \subseteq {0} \cup alive /\ {0} \cup alive \subseteq 0 .. MaxPid
  BY <1>1 DEF ProcInv, Listing, DirTypes, ProcTypeOK, Stayed, Pids, ProcAssumption
<1>3. ToSet(listed') = ToSet(listed) /\ Stayed' = Stayed
  BY <1>1 DEF Stayed
<1>4. left \subseteq 0 .. MaxPid /\ index \in Nat /\ MaxPid \in Nat
  BY <1>2 DEF ProcTypeOK, ProcAssumption
<1>5. CASE left = {}
  <2>1. \A q \in Stayed : q < index
    BY <1>2, <1>4, <1>5
  <2>2. Stayed \subseteq ToSet(listed)
    BY <1>2, <2>1 DEF Passed
  <2>3. DirTypes'
    BY <1>1, <1>2, <1>5 DEF DirTypes, ProcTypeOK
  <2>4. Behind(ptr)' /\ Passed(ptr)'
    BY <1>1, <1>2, <1>3 DEF Behind, Passed
  <2>5. Listing'
    BY <1>1, <1>2, <1>3, <1>5, <2>2, <2>4 DEF Listing
  <2>. QED
    BY <1>1, <2>3, <2>5 DEF ProcInv, ReadStaysInside
<1>6. CASE left # {}
  <2>1. Min(left) \in left /\ \A p \in left : Min(left) <= p
    BY <1>4, <1>6, LeastPosition
  <2>. HIDE DEF left
  <2>2. PICK m \in 0 .. MaxPid : /\ m = Min(left) /\ found' = m /\ index' = m + 1 /\ index <= m
                                 /\ step' \in {"put", "assert"}
    BY <1>1, <1>4, <1>6, <2>1 DEF left
  <2>3. \A q \in Stayed : q < m => q < index
    BY <1>2, <1>4, <2>1, <2>2 DEF left
  <2>4. Passed(found)'
    BY <1>2, <1>3, <2>2, <2>3 DEF Passed
  <2>5. Behind(ptr)'
    BY <1>1, <1>2, <1>3 DEF Behind
  <2>6. DirTypes'
    BY <1>1, <1>2, <1>4, <2>2 DEF DirTypes, ProcTypeOK
  <2>7. Listing'
    BY <1>1, <1>2, <1>4, <2>2, <2>4, <2>5 DEF Listing
  <2>. QED
    BY <1>1, <2>6, <2>7 DEF ProcInv, ReadStaysInside
<1>. QED
  BY <1>5, <1>6

LEMMA PutEntryKeeps == ASSUME ProcAssumption, ProcInv, PutEntry PROVE ProcInv'
<1>1. /\ step = "put" /\ alive' = alive /\ index' = index /\ ptr' = ptr /\ found' = found /\ asked' = asked
      /\ throughout' = throughout /\ offset' = offset /\ shown' = shown /\ copied' = copied
      /\ \/ Reclen(found) > room /\ step' = "seek" /\ listed' = listed /\ room' = room
         \/ Reclen(found) <= room /\ step' = "loop" /\ listed' = Append(listed, found)
              /\ room' = room - Reclen(found)
         \/ step' = "failed" /\ listed' = listed /\ room' = room
  BY DEF PutEntry, Goto, fileVars
<1>2. /\ DirTypes /\ ProcTypeOK /\ IsInjective(listed) /\ asked \in Buffers
      /\ Behind(ptr) /\ ptr <= found /\ Passed(found) /\ index = found + 1
  BY <1>1 DEF ProcInv, Listing, DirTypes
<1>3. /\ MaxPid \in Nat /\ ptr \in Nat /\ found \in 0 .. MaxPid /\ room \in Nat /\ room <= asked /\ asked \in Nat
      /\ listed \in Seq(0 .. MaxPid) /\ Reclen(found) \in Nat /\ Reclen(found) <= asked
      /\ \A q \in Stayed : q \in Nat
  <2>1. Len(NameOf[found]) \in Nat /\ Reclen(found) <= asked
    BY <1>2 DEF ProcAssumption, DirTypes
  <2>. QED
    BY <1>2, <2>1 DEF ProcAssumption, DirTypes, ProcTypeOK, Reclen, Stayed, Pids
<1>4. CASE Reclen(found) > room /\ step' = "seek" /\ listed' = listed /\ room' = room
  <2>1. room # asked
    BY <1>3, <1>4
  <2>2. Behind(ptr)' /\ Passed(ptr)'
    BY <1>1, <1>2, <1>3, <1>4 DEF Behind, Passed, Stayed
  <2>3. DirTypes'
    BY <1>1, <1>2, <1>4 DEF DirTypes, ProcTypeOK
  <2>4. Listing'
    BY <1>1, <1>2, <1>4, <2>1, <2>2 DEF Listing
  <2>. QED
    BY <1>1, <2>3, <2>4 DEF ProcInv, ReadStaysInside
<1>5. CASE /\ Reclen(found) <= room /\ step' = "loop" /\ listed' = Append(listed, found)
           /\ room' = room - Reclen(found)
  <2>. DEFINE n == Len(listed)
  <2>1. /\ listed' \in Seq(0 .. MaxPid) /\ n \in Nat /\ DOMAIN listed = 1 .. n /\ DOMAIN listed' = 1 .. n + 1
        /\ listed'[n + 1] = found /\ \A k \in 1 .. n : listed'[k] = listed[k]
    BY <1>3, <1>5, AppendProperties, LenProperties
  <2>. HIDE DEF n
  <2>2. \A q : q \in ToSet(listed') <=> q \in ToSet(listed) \/ q = found
    <3>1. \A k \in 1 .. n + 1 : k \in 1 .. n \/ k = n + 1
      BY <2>1
    <3>. QED
      BY <2>1, <3>1 DEF ToSet
  <2>3. found \notin ToSet(listed)
    BY <1>2, <1>3 DEF Behind
  <2>4. \A k \in 1 .. n : listed[k] \in ToSet(listed)
    BY <2>1 DEF ToSet
  <2>5. IsInjective(listed')
    <3>. SUFFICES ASSUME NEW k \in 1 .. n + 1, NEW l \in 1 .. n + 1, listed'[k] = listed'[l] PROVE k = l
      BY <2>1 DEF IsInjective
    <3>1. CASE k \in 1 .. n /\ l \in 1 .. n
      BY <1>2, <2>1, <3>1 DEF IsInjective
    <3>2. CASE k = n + 1 /\ l \in 1 .. n
      BY <2>1, <2>3, <2>4, <3>2
    <3>3. CASE l = n + 1 /\ k \in 1 .. n
      BY <2>1, <2>3, <2>4, <3>3
    <3>. QED
      BY <2>1, <3>1, <3>2, <3>3
  <2>6. \A q \in ToSet(listed) : q < index
    <3>1. ToSet(listed) \subseteq 0 .. MaxPid
      BY <1>3, <2>1, ElementOfSeq DEF ToSet
    <3>. QED
      BY <1>2, <1>3, <3>1 DEF Behind
  <2>7. Behind(index)'
    BY <1>1, <1>2, <1>3, <2>2, <2>6 DEF Behind
  <2>8. Passed(index)'
    BY <1>1, <1>2, <1>3, <2>2 DEF Passed, Stayed
  <2>9. DirTypes'
    BY <1>1, <1>2, <1>3, <1>5, <2>1 DEF DirTypes, ProcTypeOK
  <2>10. Listing'
    BY <1>1, <1>2, <1>5, <2>5, <2>7, <2>8 DEF Listing
  <2>. QED
    BY <1>1, <2>9, <2>10 DEF ProcInv, ReadStaysInside
<1>6. CASE step' = "failed" /\ listed' = listed /\ room' = room
  <2>1. DirTypes'
    BY <1>1, <1>2, <1>6 DEF DirTypes, ProcTypeOK
  <2>2. Listing'
    BY <1>1, <1>2, <1>6 DEF Listing
  <2>. QED
    BY <1>1, <2>1, <2>2 DEF ProcInv, ReadStaysInside
<1>. QED
  BY <1>1, <1>4, <1>5, <1>6

LEMMA SeekDirKeeps == ASSUME ProcAssumption, ProcInv, SeekDir PROVE ProcInv'
<1>1. /\ step = "seek" /\ step' = IF room = asked THEN "listed" ELSE "dir"
      /\ index' = ptr /\ alive' = alive /\ ptr' = ptr /\ found' = found /\ asked' = asked /\ room' = room
      /\ listed' = listed /\ throughout' = throughout
      /\ offset' = offset /\ shown' = shown /\ copied' = copied
  BY DEF SeekDir, Goto, fileVars
<1>2. DirTypes'
  BY <1>1 DEF ProcInv, DirTypes, ProcTypeOK
<1>3. Listing'
  BY <1>1 DEF ProcInv, Listing, Behind, Passed, Stayed
<1>. QED
  BY <1>1, <1>2, <1>3 DEF ProcInv, ReadStaysInside

\* Who dies is not one that was there the whole time.
LEMMA LivesKeep == ASSUME ProcAssumption, ProcInv, Birth \/ Death PROVE ProcInv'
<1>1. /\ step' = step /\ index' = index /\ ptr' = ptr /\ found' = found /\ asked' = asked /\ room' = room
      /\ listed' = listed /\ offset' = offset /\ shown' = shown /\ copied' = copied
      /\ throughout' \subseteq throughout /\ throughout' \subseteq alive' /\ alive' \subseteq Pids
  BY DEF Birth, Death, fileVars, dirVars, ProcInv, DirTypes, ProcTypeOK
<1>2. DirTypes'
  BY <1>1 DEF ProcInv, DirTypes, ProcTypeOK
<1>3. Stayed' \subseteq Stayed
  BY <1>1 DEF Stayed
<1>4. Listing'
  BY <1>1, <1>3 DEF ProcInv, Listing, Behind, Passed
<1>. QED
  BY <1>1, <1>2, <1>4 DEF ProcInv, ReadStaysInside

\* What is left of the text is what is behind the offset, and no more.
LEMMA RemainingIs ==
  ASSUME ProcAssumption, ProcTypeOK, NEW size \in 0 .. MaxOffset
  PROVE  /\ Remaining(size) \in Nat /\ Remaining(size) <= size
         /\ offset <= size => offset + Remaining(size) <= size
         /\ offset > size => Remaining(size) = 0
<1>. DEFINE m == 2 ^ Bits
<1>1. m \in Nat \ {0} /\ offset \in Nat /\ size \in Nat
  BY DEF ProcAssumption, ProcTypeOK
<1>. HIDE DEF m
<1>2. \A a \in Nat : a % m \in Nat /\ a % m <= a
  BY <1>1
<1>3. Remaining(size) = IF offset > size THEN 0 ELSE (size - offset) % m
  BY DEF Remaining, m
<1>. QED
  BY <1>1, <1>2, <1>3

LEMMA ProcReadKeeps == ASSUME ProcAssumption, ProcInv, ProcRead PROVE ProcInv'
<1>1. PICK bufsize \in Reads :
        /\ copied' = Min({bufsize, Remaining(shown')}) /\ offset' = offset + Min({bufsize, Remaining(shown')})
        /\ shown' \in 0 .. MaxOffset
  BY DEF ProcRead, Refresh, Show, ProcAssumption
<1>2. /\ step = "file" /\ alive' = alive /\ step' = step /\ listed' = listed /\ index' = index /\ ptr' = ptr
      /\ found' = found /\ asked' = asked /\ room' = room /\ throughout' = throughout
  BY DEF ProcRead, dirVars
<1>3. ProcTypeOK /\ bufsize \in Nat /\ offset \in 0 .. MaxOffset /\ MaxOffset \in Nat
  BY DEF ProcInv, DirTypes, ProcTypeOK, ProcAssumption
<1>4. /\ Remaining(shown') \in Nat /\ Remaining(shown') <= shown'
      /\ offset <= shown' => offset + Remaining(shown') <= shown'
      /\ offset > shown' => Remaining(shown') = 0
  BY <1>1, <1>3, RemainingIs
<1>5. PICK n \in Nat : n = Min({bufsize, Remaining(shown')}) /\ n <= Remaining(shown')
  BY <1>3, <1>4 DEF Min
<1>6. copied' \in Nat /\ copied' <= shown' /\ shown' \in Nat /\ offset' \in 0 .. MaxOffset
  BY <1>1, <1>3, <1>4, <1>5
<1>7. DirTypes'
  BY <1>2, <1>6 DEF ProcInv, DirTypes, ProcTypeOK
<1>8. Listing'
  BY <1>2 DEF ProcInv, Listing
<1>. QED
  BY <1>6, <1>7, <1>8 DEF ProcInv, ReadStaysInside

LEMMA ProcSeekKeeps == ASSUME ProcAssumption, ProcInv, ProcSeek PROVE ProcInv'
<1>1. /\ step = "file" /\ alive' = alive /\ step' = step /\ listed' = listed /\ index' = index /\ ptr' = ptr
      /\ found' = found /\ asked' = asked /\ room' = room /\ throughout' = throughout /\ copied' = 0
  BY DEF ProcSeek, dirVars
<1>2. shown' \in 0 .. MaxOffset /\ MaxOffset \in Nat /\ offset \in 0 .. MaxOffset
  BY DEF ProcSeek, Refresh, Show, ProcAssumption, ProcInv, DirTypes, ProcTypeOK
<1>3. PICK off \in -MaxOffset .. MaxOffset, base \in {0, offset, shown'} :
        offset' = (IF base + off < 0 THEN offset ELSE base + off) /\ offset' <= MaxOffset
  BY DEF ProcSeek
<1>4. offset' \in 0 .. MaxOffset
  BY <1>2, <1>3
<1>5. DirTypes'
  BY <1>1, <1>2, <1>4 DEF ProcInv, DirTypes, ProcTypeOK
<1>6. Listing'
  BY <1>1 DEF ProcInv, Listing
<1>. QED
  BY <1>1, <1>2, <1>5, <1>6 DEF ProcInv, ReadStaysInside

LEMMA OthersKeep ==
  ASSUME ProcAssumption, ProcInv, StillThere \/ StreamFails \/ OpenStat \/ Close PROVE ProcInv'
<1>1. CASE StillThere \/ StreamFails
  <2>1. /\ alive' = alive /\ listed' = listed /\ index' = index /\ ptr' = ptr
        /\ found' = found /\ asked' = asked /\ room' = room /\ throughout' = throughout
        /\ offset' = offset /\ shown' = shown /\ copied' = copied
        /\ step' = "failed" \/ (step = "assert" /\ step' = "put")
    BY <1>1 DEF StillThere, StreamFails, Goto, dirVars, fileVars
  <2>2. DirTypes'
    BY <2>1 DEF ProcInv, DirTypes, ProcTypeOK
  <2>3. Listing'
    BY <2>1 DEF ProcInv, Listing, Behind, Passed, Stayed
  <2>. QED
    BY <2>1, <2>2, <2>3 DEF ProcInv, ReadStaysInside
<1>2. CASE OpenStat
  <2>1. /\ alive' = alive /\ listed' = listed /\ index' = index /\ ptr' = ptr
        /\ found' = found /\ asked' = asked /\ room' = room /\ throughout' = throughout
        /\ offset' = offset /\ shown' = shown /\ copied' = copied /\ step' = "file"
    BY <1>2 DEF OpenStat, Goto, dirVars
  <2>. QED
    BY <2>1 DEF ProcInv, DirTypes, ProcTypeOK, Listing, ReadStaysInside
<1>3. CASE Close
  <2>1. /\ alive' = alive /\ step' = "closed" /\ index' = 0 /\ ptr' = 0 /\ found' = 0 /\ asked' = 0
        /\ room' = 0 /\ listed' = << >> /\ throughout' = {} /\ offset' = 0 /\ shown' = 0 /\ copied' = 0
    BY <1>3 DEF Close, Goto
  <2>2. DirTypes'
    BY <2>1, EmptySeq DEF ProcInv, DirTypes, ProcTypeOK, ProcAssumption
  <2>3. Listing'
    BY <2>1 DEF Listing, IsInjective
  <2>. QED
    BY <2>1, <2>2, <2>3 DEF ProcInv, ReadStaysInside
<1>. QED
  BY <1>1, <1>2, <1>3

LEMMA ProcStep == ProcAssumption /\ ProcInv /\ [ProcNext]_procVars => ProcInv'
<1>. SUFFICES ASSUME ProcAssumption, ProcInv, [ProcNext]_procVars PROVE ProcInv'
  OBVIOUS
<1>1. CASE UNCHANGED procVars
  <2>1. /\ alive' = alive /\ listed' = listed /\ index' = index /\ ptr' = ptr /\ step' = step
        /\ found' = found /\ asked' = asked /\ room' = room /\ throughout' = throughout
        /\ offset' = offset /\ shown' = shown /\ copied' = copied
    BY <1>1 DEF procVars, dirVars, fileVars
  <2>2. DirTypes'
    BY <2>1 DEF ProcInv, DirTypes, ProcTypeOK
  <2>3. Listing'
    BY <2>1 DEF ProcInv, Listing, Behind, Passed, Stayed
  <2>. QED
    BY <2>1, <2>2, <2>3 DEF ProcInv, ReadStaysInside
<1>. QED
  BY <1>1, LivesKeep, DirOpens, GetdentsKeeps, ReadDirKeeps, PutEntryKeeps, SeekDirKeeps,
     ProcReadKeeps, ProcSeekKeeps, OthersKeep DEF ProcNext

LEMMA ProcStart == ProcAssumption /\ ProcInit => ProcInv
<1>. SUFFICES ASSUME ProcAssumption, ProcInit PROVE ProcInv
  OBVIOUS
<1>1. DirTypes
  BY EmptySeq DEF ProcInit, DirTypes, ProcTypeOK, Pids, ProcAssumption
<1>2. Listing
  BY DEF ProcInit, Listing, IsInjective
<1>. QED
  BY <1>1, <1>2 DEF ProcInit, ProcInv, ReadStaysInside

\* A directory is listed whole and no entry of it twice, and a read of a file
\* of proc copies none but the text it was given.
THEOREM ProcHolds ==
  ProcAssumption => (ProcSpec => [](ProcTypeOK /\ ListsLivingOnce /\ ReadStaysInside))
<1>. SUFFICES ASSUME ProcAssumption PROVE ProcSpec => [](ProcTypeOK /\ ListsLivingOnce /\ ReadStaysInside)
  OBVIOUS
<1>1. ProcInit => ProcInv
  BY ProcStart
<1>2. ProcInv /\ [ProcNext]_procVars => ProcInv'
  BY ProcStep
<1>3. ProcInv => ProcTypeOK /\ ListsLivingOnce /\ ReadStaysInside
  BY DEF ProcInv, DirTypes, Listing, ListsLivingOnce, Stayed
<1>. QED
  BY <1>1, <1>2, <1>3, PTL DEF ProcSpec
=============================================================================
