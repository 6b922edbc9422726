----------------------------- MODULE TtyLocks ------------------------------
(***************************************************************************)
(* The locks of fs/tty.c.  Every call on a terminal is the order in which  *)
(* it takes and gives back ttys_lock, the terminal's lock and fds_lock,    *)
(* pids_lock, the lock of the group and, around the wake-ups, the locks of *)
(* fs/poll.c.  None of them is recursive.  A call of open on /dev/tty      *)
(* without a controlling terminal, or one that finds no memory, returns    *)
(* with ttys_lock held.                                                    *)
(***************************************************************************)
EXTENDS Naturals, Sequences

CONSTANTS Threads, NoThread

ASSUME TtyLocksAssumption == NoThread \notin Threads

Locks == {"ttys", "tty", "fds", "pids", "group", "fdpoll", "poll"}

VARIABLES owner,    \* owner[l]
          rest,     \* rest[t]: the lock operations left in t's call
          ttyLeaked \* a call has returned with ttys_lock held

lockVars == <<owner, rest, ttyLeaked>>

Lock(l) == <<[lock |-> l, take |-> TRUE]>>
Unlock(l) == <<[lock |-> l, take |-> FALSE]>>
Under(l, body) == Lock(l) \o body \o Unlock(l)
Briefly(l) == Under(l, <<>>)

TtyGet == Under("ttys", Briefly("tty"))
TtyRelease == Under("ttys", Briefly("tty"))
SetControlling == Briefly("group")
\* tty_open, after the terminal was found: only a session leader makes it its
\* controlling terminal.
OpenRest(leads) == Briefly("fds") \o Under("pids", IF leads THEN SetControlling ELSE <<>>)
OpenDevice(leads) == TtyGet \o OpenRest(leads)
OpenCurrent(leads) == Under("ttys", Briefly("group")) \o OpenRest(leads)
OpenWithoutTty == Lock("ttys") \o Briefly("group")
OpenWithoutMemory == Lock("ttys")
TtyClose == Briefly("fds") \o TtyRelease
\* A slip: the pollers are woken with the terminal locked.
TtyWakeLocked == Under("fds", Under("fdpoll", Briefly("poll")))

\* tty_wake gives the terminal's lock up while it wakes the pollers.
TtyWake == Unlock("tty") \o Under("fds", Under("fdpoll", Briefly("poll"))) \o Lock("tty")
\* So do tty_input and tty_set_winsize while they send a signal.
SendSignal == Unlock("tty") \o Briefly("pids") \o Lock("tty")
Input(sends) == Under("tty", (IF sends THEN SendSignal ELSE <<>>) \o TtyWake)
IsCurrent == Briefly("group")
\* tiocsctty; to steal the terminal it clears the groups of its session first.
SetCtty(steals) == Under("tty", Under("pids",
                       (IF steals THEN Briefly("group") ELSE <<>>) \o SetControlling))
GetGroup == Under("tty", IsCurrent)
SetGroup == Under("tty", Briefly("pids") \o IsCurrent)
SetWinsize == Under("tty", SendSignal)
Setsid == Under("pids", Briefly("group"))
\* poll_wait asks the terminal under its own lock; a descriptor that joins or
\* leaves a poll has its own lock taken first.
TtyPoll == Under("poll", Briefly("tty"))
PollAdd == Under("fdpoll", Briefly("poll"))

Calls ==
    {OpenDevice(b) : b \in BOOLEAN} \cup {OpenCurrent(b) : b \in BOOLEAN}
        \cup {OpenWithoutTty, OpenWithoutMemory, TtyClose, GetGroup, SetGroup, SetWinsize,
              Setsid, TtyPoll, PollAdd}
        \cup {Input(b) : b \in BOOLEAN} \cup {SetCtty(b) : b \in BOOLEAN}

LocksInit ==
    /\ owner = [l \in Locks |-> NoThread] /\ ttyLeaked = FALSE
    /\ rest = [t \in Threads |-> <<>>]

Call(t) ==
    /\ rest[t] = <<>>
    /\ \E c \in Calls : rest' = [rest EXCEPT ![t] = c]
    /\ UNCHANGED <<owner, ttyLeaked>>

Step(t) ==
    LET op == Head(rest[t]) IN
    /\ rest[t] # <<>>
    /\ IF op.take THEN owner[op.lock] = NoThread ELSE owner[op.lock] = t
    /\ owner' = [owner EXCEPT ![op.lock] = IF op.take THEN t ELSE NoThread]
    /\ rest' = [rest EXCEPT ![t] = Tail(@)]
    /\ ttyLeaked' = (ttyLeaked \/ (Len(rest[t]) = 1 /\ \E l \in Locks : owner'[l] = t))

\* Once ttys_lock is lost every thread may end up waiting for it.
StuckAfterLeak == ttyLeaked /\ UNCHANGED lockVars

LocksNext == (\E t \in Threads : Call(t) \/ Step(t)) \/ StuckAfterLeak

LocksSpec == LocksInit /\ [][LocksNext]_lockVars
-----------------------------------------------------------------------------
LocksTypeOK ==
    /\ owner \in [Locks -> Threads \cup {NoThread}] /\ ttyLeaked \in BOOLEAN
    /\ \A t \in Threads : Len(rest[t]) <= 20

WaitsFor(t) == IF rest[t] # <<>> /\ Head(rest[t]).take
               THEN {u \in Threads : owner[Head(rest[t]).lock] = u} ELSE {}

\* Threads do not wait for each other in a circle, whichever calls meet: this
\* is what the unlocking in tty_wake and around send_group_signal is for
\* (fs/tty.c:138-145, 174-176).  ttys_lock lost by tty_open (95) or tty_get (24)
\* is the exception.
NoTtyLockCycle ==
    /\ LocksTypeOK
    /\ ~ttyLeaked =>
          \A s \in (SUBSET Threads) \ {{}} : \E t \in s : WaitsFor(t) \cap s = {}
=============================================================================
