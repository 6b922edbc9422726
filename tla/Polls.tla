------------------------------- MODULE Polls -------------------------------
(***************************************************************************)
(* poll, epoll and eventfd: fs/poll.c, kernel/epoll.c and                  *)
(* kernel/eventfd.c.  One epoll instance, its members, the eventfds and    *)
(* host files they may be, the threads that wait on it and the threads     *)
(* that write, read, register and close at the same time.  Locks are       *)
(* variables of their own where a thread takes one while it holds another; *)
(* what happens between taking a lock and giving it back with no other     *)
(* lock in between is one step.                                            *)
(***************************************************************************)
EXTENDS Naturals, FiniteSets

CONSTANTS Waiters,    \* threads in epoll_wait
          Workers,    \* threads that use eventfds, epoll_ctl and close
          Eventfds,   \* files with an operation poll
          HostFiles,  \* files the host's poll is asked about
          Nobody,     \* the owner of a free lock
          MaxVal,     \* UINT64_MAX
          MaxBytes,   \* capacity of the notification pipe
          PipeErrors  \* BOOLEAN: may pipe() fail

ASSUME PollsAssumption ==
    /\ IsFiniteSet(Waiters) /\ Waiters \cap Workers = {} /\ Nobody \notin Waiters \cup Workers
    /\ Eventfds \cap HostFiles = {} /\ Eventfds \cup HostFiles # {}
    /\ MaxVal \in Nat \ {0} /\ MaxBytes \in Nat \ {0}

VARIABLES counter,    \* counter[e]: eventfd_val
          hostReady,  \* host files that the host calls ready
          live,       \* files that are allocated
          members,    \* poll_fds: the files registered
          epollOpen,  \* the struct poll is allocated
          pipe,       \* bytes in notify_pipe
          pipeOpen,   \* notify_pipe is not {-1, -1}
          waiters,    \* poll->waiters
          pollLock,   \* owner of poll->lock
          fileLock,   \* fileLock[f]: owner of fd->poll_lock
          doing, tgt, \* what each thread is at, and the file it is about
          posted,     \* workers with a signal pending
          late,       \* members registered while somebody slept
          told,       \* members reported since they became ready
          leaked,     \* a failed pipe() left waiters counted
          fatal       \* memory used after it was freed

pollVars == <<counter, hostReady, live, members, epollOpen, pipe, pipeOpen, waiters,
              pollLock, fileLock, doing, tgt, posted, late, told, leaked, fatal>>

PollFiles == Eventfds \cup HostFiles
PollThreads == Waiters \cup Workers
pollLocks == <<pollLock, fileLock>>
pollFields == <<members, epollOpen, pipe, pipeOpen, waiters>>
pollGhosts == <<late, told, leaked, fatal>>

PollsInit ==
    /\ counter = [e \in Eventfds |-> 0]
    /\ hostReady = {} /\ live = PollFiles /\ members = {} /\ epollOpen = TRUE
    /\ pipe = 0 /\ pipeOpen = FALSE /\ waiters = 0
    /\ pollLock = Nobody /\ fileLock = [f \in PollFiles |-> Nobody]
    /\ doing = [t \in PollThreads |-> "idle"]
    /\ tgt = [t \in Workers |-> CHOOSE f \in PollFiles : TRUE]
    /\ posted = {} /\ late = {} /\ told = {} /\ leaked = FALSE /\ fatal = {}

Goes(t, where) == doing' = [doing EXCEPT ![t] = where]
Aim(t, f, where) == Goes(t, where) /\ tgt' = [tgt EXCEPT ![t] = f]
Unlocked(f) == fileLock[f] = Nobody
\* What a thread may be at; FirstLock waits for a file's lock, SecondLock has it.
PollAt == {"scan", "asleep", "byte", "host", "timeout"}
EventfdAt == {"rd", "w1", "w2", "sr", "s1", "s2", "nr", "n1", "n2"}
FirstLock == {"wake", "add", "del", "close", "destroy"}
SecondLock == {"wakePoll", "addPoll", "delPoll", "closePoll"}
Whereabouts == {"idle"} \cup PollAt \cup EventfdAt \cup FirstLock \cup SecondLock

InPoll(w) == doing[w] \in PollAt
WaitersAsleep == {w \in Waiters : doing[w] = "asleep"}

(***************************************************************************)
(* eventfd_poll, and the host's poll for the files without an operation.   *)
(* The epoll asks for readable: what it reports is in Ready.               *)
(***************************************************************************)
EventfdPoll(e) == counter[e] > 0
Ready == {e \in Eventfds : EventfdPoll(e)} \cup hostReady

\* A call that goes on with a file somebody else has freed.
UseFreed(t, how) ==
    /\ fatal' = fatal \cup {how} /\ Goes(t, "idle")
    /\ UNCHANGED <<counter, hostReady, live, pollFields, pollLocks, tgt, posted, late,
                   told, leaked>>
-----------------------------------------------------------------------------
(***************************************************************************)
(* eventfd_read and eventfd_write.  "rd", "w1" and "w2" hold fd->lock: a   *)
(* thread that finds the counter unfit gives the lock back in wait_for and *)
(* is at "sr", "s1" or "s2" until a notify.  The result of wait_for is     *)
(* ignored: with a signal pending it returns at once, lock held.           *)
(***************************************************************************)
Holders(e) == {t \in Workers : tgt[t] = e /\ doing[t] \in {"rd", "w1", "w2"}}
FdLocked(e) == Holders(e) # {}
Sleeps(where) == CASE where = "rd" -> "sr" [] where = "w1" -> "s1" [] where = "w2" -> "s2"
Resumes(where) == CASE where = "sr" -> "rd" [] where = "s1" -> "w1" [] where = "s2" -> "w2"
AddedBy(where) == IF where = "w1" THEN 1 ELSE 2
\* A slip: the counter may reach UINT64_MAX.
UnfitAtMax(where, v) == IF where = "rd" THEN v = 0 ELSE v > MaxVal - AddedBy(where)

Unfit(where, v) == IF where = "rd" THEN v = 0 ELSE v >= MaxVal - AddedBy(where)
Applied(where, v) == IF where = "rd" THEN 0 ELSE v + AddedBy(where)

EventfdCall(t, e, op) ==
    /\ doing[t] = "idle" /\ e \in live /\ ~FdLocked(e)
    /\ Aim(t, e, op)
    /\ UNCHANGED <<counter, hostReady, live, pollFields, pollLocks, posted, pollGhosts>>

\* fd->flags has O_NONBLOCK: EAGAIN.
EventfdAgain(t) ==
    /\ doing[t] \in {"rd", "w1", "w2"} /\ tgt[t] \in live /\ Unfit(doing[t], counter[tgt[t]])
    /\ Goes(t, "idle")
    /\ UNCHANGED <<counter, hostReady, live, pollFields, pollLocks, tgt, posted, pollGhosts>>

EventfdSleep(t) ==
    /\ doing[t] \in {"rd", "w1", "w2"} /\ tgt[t] \in live /\ Unfit(doing[t], counter[tgt[t]])
    /\ t \notin posted
    /\ Goes(t, Sleeps(doing[t]))
    /\ UNCHANGED <<counter, hostReady, live, pollFields, pollLocks, tgt, posted, pollGhosts>>

EventfdSpin(t) ==
    /\ doing[t] \in {"rd", "w1", "w2"} /\ tgt[t] \in live /\ Unfit(doing[t], counter[tgt[t]])
    /\ t \in posted
    /\ UNCHANGED pollVars

\* A slip: nobody on fd->cond is notified.
EventfdDoneQuietly(t) ==
    LET e == tgt[t] IN
    /\ doing[t] \in {"rd", "w1", "w2"} /\ e \in live /\ ~Unfit(doing[t], counter[e])
    /\ counter' = [counter EXCEPT ![e] = Applied(doing[t], @)]
    /\ Goes(t, "wake")
    /\ told' = IF counter'[e] > 0 THEN told ELSE told \ {e}
    /\ UNCHANGED <<hostReady, live, pollFields, pollLocks, tgt, posted, late, leaked, fatal>>

\* The counter changes, everybody on fd->cond is notified, poll_wake follows.
EventfdDone(t) ==
    LET e == tgt[t] IN
    /\ doing[t] \in {"rd", "w1", "w2"} /\ e \in live /\ ~Unfit(doing[t], counter[e])
    /\ counter' = [counter EXCEPT ![e] = Applied(doing[t], @)]
    /\ doing' = [u \in PollThreads |->
                IF u = t THEN "wake"
                ELSE IF doing[u] \in {"sr", "s1", "s2"} /\ tgt[u] = e
                THEN CASE doing[u] = "sr" -> "nr" [] doing[u] = "s1" -> "n1" [] OTHER -> "n2"
                ELSE doing[u]]
    /\ told' = IF counter'[e] > 0 THEN told ELSE told \ {e}
    /\ UNCHANGED <<hostReady, live, pollFields, pollLocks, tgt, posted, late, leaked, fatal>>

\* A notified or signalled sleeper takes fd->lock again and looks again.
EventfdResume(t) ==
    LET asleep == CASE doing[t] = "nr" -> "sr" [] doing[t] = "n1" -> "s1"
                    [] doing[t] = "n2" -> "s2" [] OTHER -> doing[t] IN
    /\ doing[t] \in {"nr", "n1", "n2"} \/ (doing[t] \in {"sr", "s1", "s2"} /\ t \in posted)
    /\ tgt[t] \in live /\ ~FdLocked(tgt[t])
    /\ Goes(t, Resumes(asleep))
    /\ UNCHANGED <<counter, hostReady, live, pollFields, pollLocks, tgt, posted, pollGhosts>>

PostSignal(t) ==
    /\ t \notin posted /\ posted' = posted \cup {t}
    /\ UNCHANGED <<counter, hostReady, live, pollFields, pollLocks, doing, tgt, pollGhosts>>

\* A call on an eventfd finds it freed: f_get took no reference.
EventfdFreed(t) ==
    /\ doing[t] \in EventfdAt \cup {"wake"}
    /\ tgt[t] \notin live
    /\ UseFreed(t, "get")
-----------------------------------------------------------------------------
\* A slip: poll_wake takes the poll's lock before the file's.
WakeLockBackwards(t) ==
    /\ doing[t] = "wake" /\ tgt[t] \in live /\ Unlocked(tgt[t]) /\ pollLock = Nobody
    /\ fileLock' = [fileLock EXCEPT ![tgt[t]] = t]
    /\ pollLock' = t
    /\ Goes(t, "wakePoll")
    /\ UNCHANGED <<counter, hostReady, live, pollFields, tgt, posted, pollGhosts>>

(***************************************************************************)
(* poll_wake: fd->poll_lock, then poll->lock for every poll of the file.   *)
(***************************************************************************)
WakeLock(t) ==
    /\ doing[t] = "wake" /\ tgt[t] \in live /\ Unlocked(tgt[t])
    /\ fileLock' = [fileLock EXCEPT ![tgt[t]] = t]
    /\ Goes(t, "wakePoll")
    /\ UNCHANGED <<counter, hostReady, live, pollFields, pollLock, tgt, posted, pollGhosts>>

\* A slip: only the first waiter's notification is written.
PollWakeOnce(t) ==
    LET f == tgt[t] IN
    /\ doing[t] = "wakePoll"
    /\ f \in members => pollLock = Nobody
    /\ pipe' = IF f \in members /\ pipeOpen /\ waiters = 0 THEN pipe + 1 ELSE pipe
    /\ fileLock' = [fileLock EXCEPT ![f] = Nobody]
    /\ Goes(t, "idle")
    /\ UNCHANGED <<counter, hostReady, live, members, epollOpen, pipeOpen, waiters,
                   pollLock, tgt, posted, pollGhosts>>

PollWake(t) ==
    LET f == tgt[t] IN
    /\ doing[t] = "wakePoll"
    /\ f \in members => pollLock = Nobody
    /\ pipe' = IF f \in members /\ pipeOpen /\ pipe < MaxBytes THEN pipe + 1 ELSE pipe
    /\ fileLock' = [fileLock EXCEPT ![f] = Nobody]
    /\ Goes(t, "idle")
    /\ UNCHANGED <<counter, hostReady, live, members, epollOpen, pipeOpen, waiters,
                   pollLock, tgt, posted, pollGhosts>>
-----------------------------------------------------------------------------
(***************************************************************************)
(* epoll_ctl: f_get, poll_has_fd without a lock for ADD, then both locks.  *)
(* poll_mod_fd changes only types, which the model leaves out: it is an    *)
(* ADD that finds its file registered.  close: fd_close takes the file out *)
(* of the poll under both locks and frees it.                              *)
(***************************************************************************)
CtlCall(t, f, op) ==
    /\ doing[t] = "idle" /\ f \in live /\ epollOpen
    /\ op = "add" => f \notin members
    /\ Aim(t, f, op)
    /\ UNCHANGED <<counter, hostReady, live, pollFields, pollLocks, posted, pollGhosts>>

CloseCall(t, f) ==
    /\ doing[t] = "idle" /\ f \in live
    /\ ~\E u \in Workers : doing[u] \in {"close", "closePoll"} /\ tgt[u] = f
    /\ Aim(t, f, "close")
    /\ UNCHANGED <<counter, hostReady, live, pollFields, pollLocks, posted, pollGhosts>>

LockFile(t) ==
    LET f == tgt[t] IN
    /\ doing[t] \in {"add", "del", "close"} /\ f \in live /\ Unlocked(f)
    /\ fileLock' = [fileLock EXCEPT ![f] = t]
    /\ Goes(t, CASE doing[t] = "add" -> "addPoll" [] doing[t] = "del" -> "delPoll"
               [] doing[t] = "close" -> "closePoll")
    /\ UNCHANGED <<counter, hostReady, live, pollFields, pollLock, tgt, posted, pollGhosts>>

CtlFreed(t) ==
    /\ \/ doing[t] \in {"add", "del"} /\ tgt[t] \notin live
       \/ doing[t] \in {"addPoll", "delPoll"} /\ ~epollOpen
    /\ UseFreed(t, "get")

PollAddFd(t) ==
    LET f == tgt[t] IN
    /\ doing[t] = "addPoll" /\ epollOpen /\ pollLock = Nobody
    /\ members' = members \cup {f}
    /\ late' = IF WaitersAsleep # {} THEN late \cup {f} ELSE late
    /\ fatal' = IF f \in members THEN fatal \cup {"twice"} ELSE fatal
    /\ fileLock' = [fileLock EXCEPT ![f] = Nobody]
    /\ Goes(t, "idle")
    /\ UNCHANGED <<counter, hostReady, live, epollOpen, pipe, pipeOpen, waiters,
                   pollLock, tgt, posted, told, leaked>>

PollDelFd(t) ==
    LET f == tgt[t] IN
    /\ doing[t] = "delPoll" /\ epollOpen /\ pollLock = Nobody
    /\ members' = members \ {f} /\ late' = late \ {f} /\ told' = told \ {f}
    /\ fileLock' = [fileLock EXCEPT ![f] = Nobody]
    /\ Goes(t, "idle")
    /\ UNCHANGED <<counter, hostReady, live, epollOpen, pipe, pipeOpen, waiters,
                   pollLock, tgt, posted, leaked, fatal>>

\* A slip: the file stays registered.
FdCloseRegistered(t) ==
    LET f == tgt[t] IN
    /\ doing[t] = "closePoll"
    /\ f \in members => pollLock = Nobody
    /\ live' = live \ {f} /\ hostReady' = hostReady \ {f}
    /\ counter' = IF f \in Eventfds THEN [counter EXCEPT ![f] = 0] ELSE counter
    /\ fileLock' = [fileLock EXCEPT ![f] = Nobody]
    /\ Goes(t, "idle")
    /\ UNCHANGED <<members, epollOpen, pipe, pipeOpen, waiters, pollLock, tgt, posted,
                   pollGhosts>>

FdClose(t) ==
    LET f == tgt[t] IN
    /\ doing[t] = "closePoll"
    /\ f \in members => pollLock = Nobody
    /\ members' = members \ {f} /\ late' = late \ {f} /\ told' = told \ {f}
    /\ live' = live \ {f} /\ hostReady' = hostReady \ {f}
    /\ counter' = IF f \in Eventfds THEN [counter EXCEPT ![f] = 0] ELSE counter
    /\ fileLock' = [fileLock EXCEPT ![f] = Nobody]
    /\ Goes(t, "idle")
    /\ UNCHANGED <<epollOpen, pipe, pipeOpen, waiters, pollLock, tgt, posted,
                   leaked, fatal>>

(***************************************************************************)
(* epoll_close is poll_destroy: for each member it reads the file's        *)
(* pointer, takes only the file's lock and unlinks it, then frees the poll.*)
(***************************************************************************)
DestroyNext(t) ==
    /\ doing[t] = "idle" /\ epollOpen
    /\ ~\E u \in Workers : doing[u] = "destroy"
    /\ IF members = {} THEN epollOpen' = FALSE /\ UNCHANGED <<doing, tgt>>
       ELSE /\ \E f \in members : Aim(t, f, "destroy")
            /\ UNCHANGED epollOpen
    /\ UNCHANGED <<counter, hostReady, live, members, pipe, pipeOpen, waiters, pollLocks,
                   posted, pollGhosts>>

DestroyOne(t) ==
    LET f == tgt[t] IN
    /\ doing[t] = "destroy" /\ f \in live /\ f \in members /\ Unlocked(f)
    /\ members' = members \ {f} /\ late' = late \ {f} /\ told' = told \ {f}
    /\ epollOpen' = (members' # {})
    /\ IF members' = {} THEN Goes(t, "idle") /\ UNCHANGED tgt
       ELSE \E g \in members' : Aim(t, g, "destroy")
    /\ UNCHANGED <<counter, hostReady, live, pipe, pipeOpen, waiters, pollLocks, posted,
                   leaked, fatal>>

\* fd_close, or epoll_ctl, has freed the entry that poll_destroy is at.
DestroyFreed(t) ==
    /\ doing[t] = "destroy" /\ tgt[t] \notin members
    /\ UseFreed(t, "destroy")
-----------------------------------------------------------------------------
\* sys_epoll_create and sys_eventfd2 (or an open): fresh memory.
EpollCreate ==
    /\ ~epollOpen /\ \A w \in Waiters : ~InPoll(w)
    /\ \A t \in Workers : doing[t] = "idle"
    /\ epollOpen' = TRUE /\ pipe' = 0 /\ pipeOpen' = FALSE /\ waiters' = 0
    /\ leaked' = FALSE
    /\ UNCHANGED <<counter, hostReady, live, members, pollLocks, doing, tgt, posted, late,
                   told, fatal>>

OpenFile(f) ==
    /\ f \notin live /\ \A t \in Workers : doing[t] = "idle" \/ tgt[t] # f
    /\ live' = live \cup {f}
    /\ UNCHANGED <<counter, hostReady, pollFields, pollLocks, doing, tgt, posted, pollGhosts>>
-----------------------------------------------------------------------------
(***************************************************************************)
(* poll_wait.  EnterWait takes poll->lock, counts the waiter and makes the *)
(* pipe for the first; a failed pipe() returns without counting back.      *)
(* Scan asks every member, each eventfd under its fd->lock, and leaves with*)
(* what is ready or lets go of the lock to sleep in the host's poll().     *)
(***************************************************************************)
EnterWait(w) ==
    /\ doing[w] = "idle" /\ epollOpen /\ pollLock = Nobody
    /\ waiters' = waiters + 1
    /\ pipeOpen' = (pipeOpen \/ waiters = 0)
    /\ pollLock' = w /\ Goes(w, "scan")
    /\ UNCHANGED <<counter, hostReady, live, members, epollOpen, pipe, fileLock, tgt,
                   posted, pollGhosts>>

EnterFails(w) ==
    /\ PipeErrors /\ doing[w] = "idle" /\ epollOpen /\ pollLock = Nobody /\ waiters = 0
    /\ waiters' = 1 /\ leaked' = TRUE
    /\ UNCHANGED <<counter, hostReady, live, members, epollOpen, pipe, pipeOpen, pollLocks,
                   doing, tgt, posted, late, told, fatal>>

\* The way out: the last waiter closes the pipe, whatever is left in it.
LeaveWait(w) ==
    /\ waiters' = waiters - 1
    /\ pipeOpen' = (pipeOpen /\ waiters # 1)
    /\ pollLock' = Nobody /\ Goes(w, "idle")

Scan(w) ==
    LET found == members \cap Ready IN
    /\ doing[w] = "scan" /\ epollOpen
    /\ \A e \in members \cap Eventfds : ~FdLocked(e)
    /\ IF found # {}
       THEN /\ LeaveWait(w)
            /\ pipe' = IF pipeOpen' THEN pipe ELSE 0
            /\ told' = told \cup found
       ELSE /\ pollLock' = Nobody /\ Goes(w, "asleep")
            /\ UNCHANGED <<waiters, pipeOpen, pipe, told>>
    /\ UNCHANGED <<counter, hostReady, live, members, epollOpen, fileLock, tgt, posted,
                   late, leaked, fatal>>

\* The host's poll() returns: a byte, a host file that was a member, or time.
HostWakes(w, why) ==
    /\ doing[w] = "asleep" /\ Goes(w, why)
    /\ why = "byte" => pipeOpen /\ pipe > 0
    /\ why = "host" => members \cap hostReady # {}
    /\ UNCHANGED <<counter, hostReady, live, pollFields, pollLocks, tgt, posted, pollGhosts>>

Relock(w) ==
    /\ doing[w] \in {"byte", "host", "timeout"} /\ epollOpen /\ pollLock = Nobody
    /\ IF doing[w] = "timeout" \/ (doing[w] = "byte" /\ pipe = 0)
       THEN /\ LeaveWait(w)
            /\ pipe' = IF pipeOpen' THEN pipe ELSE 0
       ELSE /\ pollLock' = w /\ Goes(w, "scan")
            /\ pipe' = IF doing[w] = "byte" THEN pipe - 1 ELSE pipe
            /\ UNCHANGED <<waiters, pipeOpen>>
    /\ UNCHANGED <<counter, hostReady, live, members, epollOpen, fileLock, tgt, posted,
                   pollGhosts>>

\* The epoll was closed under a thread that waits on it.
WaitFreed(w) == InPoll(w) /\ ~epollOpen /\ UseFreed(w, "get")

HostChanges(h) ==
    /\ h \in live
    /\ hostReady' = IF h \in hostReady THEN hostReady \ {h} ELSE hostReady \cup {h}
    /\ told' = told \ {h}
    /\ UNCHANGED <<counter, live, pollFields, pollLocks, doing, tgt, posted, late, leaked, fatal>>
-----------------------------------------------------------------------------
WorkerStep(t) ==
    \/ \E e \in Eventfds, op \in {"rd", "w1", "w2"} : EventfdCall(t, e, op)
    \/ EventfdAgain(t) \/ EventfdSleep(t) \/ EventfdSpin(t) \/ EventfdDone(t)
    \/ EventfdResume(t) \/ PostSignal(t) \/ EventfdFreed(t)
    \/ WakeLock(t) \/ PollWake(t)
    \/ \E f \in PollFiles : \E op \in {"add", "del"} : CtlCall(t, f, op)
    \/ \E f \in PollFiles : CloseCall(t, f)
    \/ LockFile(t) \/ CtlFreed(t) \/ PollAddFd(t) \/ PollDelFd(t) \/ FdClose(t)
    \/ DestroyNext(t) \/ DestroyOne(t) \/ DestroyFreed(t)

WaiterStep(w) ==
    \/ EnterWait(w) \/ EnterFails(w) \/ Scan(w)
    \/ \E why \in {"byte", "host", "timeout"} : HostWakes(w, why)
    \/ Relock(w) \/ WaitFreed(w)

\* Memory that was used after it was freed ends what can be said.
PollsNext ==
    \/ /\ fatal = {}
       /\ \/ \E t \in Workers : WorkerStep(t)
          \/ \E w \in Waiters : WaiterStep(w)
          \/ \E h \in HostFiles : HostChanges(h)
          \/ EpollCreate \/ \E f \in PollFiles : OpenFile(f)
    \/ fatal # {} /\ UNCHANGED pollVars

PollsSpec == PollsInit /\ [][PollsNext]_pollVars
-----------------------------------------------------------------------------
PollsTypeOK ==
    /\ counter \in [Eventfds -> 0 .. MaxVal]
    /\ hostReady \subseteq HostFiles /\ live \subseteq PollFiles /\ members \subseteq PollFiles
    /\ pipe \in 0 .. MaxBytes /\ waiters \in Nat
    /\ pollLock \in PollThreads \cup {Nobody}
    /\ fileLock \in [PollFiles -> PollThreads \cup {Nobody}]
    /\ doing \in [PollThreads -> Whereabouts] /\ tgt \in [Workers -> PollFiles]
    /\ epollOpen \in BOOLEAN /\ pipeOpen \in BOOLEAN /\ leaked \in BOOLEAN
    /\ posted \subseteq Workers
    /\ late \subseteq PollFiles /\ told \subseteq PollFiles
    /\ fatal \subseteq {"get", "destroy", "twice"}

(***************************************************************************)
(* What each thread waits for, and who can give it.  fs/poll.c:12 gives    *)
(* the order: the file's lock, then the poll's; below both is fd->lock,    *)
(* which the operation poll takes.                                         *)
(***************************************************************************)
WaitsOn(t) ==
    CASE doing[t] \in FirstLock -> {fileLock[tgt[t]]} \ {Nobody}
      [] doing[t] \in SecondLock -> {pollLock} \ {Nobody}
      [] doing[t] = "scan" -> UNION {Holders(e) : e \in members \cap Eventfds}
      [] OTHER -> {}

\* No threads wait for each other in a ring (fs/poll.c:12, "lock order: fd,
\* then poll"; poll.h asks callers of poll_wake to hold no lock that an
\* operation poll takes).
NoLockCycle ==
    ~\E S \in SUBSET PollThreads : S # {} /\ \A t \in S : WaitsOn(t) \cap S # {}

\* poll_wait may sleep while a member is ready only if a byte in the pipe or a
\* thread about to write one will wake it, a waiter has already reported it,
\* the member came after the waiter had gone to sleep (poll_add_fd wakes
\* nobody), or a failed pipe() left the poll without a pipe for good.
NoMissedReady ==
    (/\ fatal = {} /\ ~leaked /\ WaitersAsleep # {}
     /\ \A w \in Waiters : doing[w] \in {"idle", "asleep"}) =>
        \A e \in members \cap Eventfds :
            EventfdPoll(e) =>
                \/ pipe > 0 \/ e \in late \/ e \in told
                \/ \E t \in Workers : tgt[t] = e /\ doing[t] \in {"wake", "wakePoll"}

\* Everything registered is allocated and was registered once, and the pipe is
\* open for whoever waits; only f_get without a reference, the unlocked walk of
\* poll_destroy and the unlocked poll_has_fd of epoll_ctl can break it.
PollIsSound ==
    fatal = {} =>
        /\ members \subseteq live
        /\ (~leaked /\ \E w \in Waiters : InPoll(w)) => pipeOpen
        /\ ~leaked => waiters = Cardinality({w \in Waiters : InPoll(w)})

\* eventfd_write blocks rather than let the counter reach UINT64_MAX or wrap.
EventfdBounded == \A e \in Eventfds : counter[e] < MaxVal

\* A thread sleeps on an eventfd only while the counter is unfit for it: every
\* change of the counter notifies both readers and writers.
NoLostEventfdWake ==
    \A t \in Workers :
        (doing[t] \in {"sr", "s1", "s2"} /\ tgt[t] \in live) =>
            Unfit(Resumes(doing[t]), counter[tgt[t]])

\* All that poll, epoll and eventfd promise: no threads wait for each other's
\* locks in a circle, no waiter sleeps through a member that is ready nor at a
\* counter that fits, and what is registered is allocated, but for the races
\* named above (fs/poll.c, kernel/eventfd.c).
PollsSound ==
    /\ PollsTypeOK /\ NoLockCycle /\ NoMissedReady /\ PollIsSound
    /\ EventfdBounded /\ NoLostEventfdWake
=============================================================================
