------------------------------ MODULE WaitFor ------------------------------
(***************************************************************************)
(* Sleeping and being woken: wait_for of util/sync.c against the producers *)
(* that notify a condition and against deliver_signal, which finds out     *)
(* what its target sleeps on through task->waiting_cond/waiting_lock.      *)
(*                                                                         *)
(* A waiter (tty_read, sys_wait4, futex_wait, eventfd_read) locks, looks   *)
(* whether there is something for it, and calls wait_for in a loop.  Every *)
(* lock, unlock, trylock and unprotected read that another thread can see  *)
(* between is a step.  Each lock guards one condition.                     *)
(***************************************************************************)
EXTENDS Naturals, FiniteSets

CONSTANTS
  Thread,
  Lock,       \* locks somebody waits under: tty->lock, futex_lock, pids_lock...
  PidsLock,   \* the one of them that sys_kill holds while it sends
  MaxItems,   \* bound: items (input, zombies, wakes) produced but not consumed
  MaxOps,     \* bound: operations started in a behaviour
  Ops,        \* subset of {"consume", "produce", "kill", "ioctl"}
  Interrupted, TimedOut, \* whether waiters stop for signals, and may time out
  None

ASSUME WaitForAssumption ==
  /\ PidsLock \in Lock
  /\ MaxItems \in Nat /\ MaxOps \in Nat
  /\ Ops \subseteq {"consume", "produce", "kill", "ioctl"}
  /\ Interrupted \in BOOLEAN /\ TimedOut \in BOOLEAN
  /\ None \notin Lock \cup Thread

VARIABLES
  pc,
  on,       \* the lock the thread's operation is about
  holder,   \* who holds each mutex
  owner,    \* lock_t.owner: written by lock(), and by nothing else
  condLock, \* who holds task->waiting_cond_lock
  waiting,  \* task->waiting_lock (and waiting_cond), or None for NULL
  pending,  \* task->pending is not empty
  items,    \* what waiters wait for
  target,   \* task a kill is delivering to
  mine,     \* deliver_signal's local variable
  ops,      \* operations started so far
  missed    \* history: deliveries that ended while the target was about to sleep

vars == <<pc, on, holder, owner, condLock, waiting, pending, items, target,
          mine, ops, missed>>

Free(l) == holder[l] = None

Init ==
  /\ pc       = [t \in Thread |-> "idle"]
  /\ on       = [t \in Thread |-> None]
  /\ holder   = [l \in Lock |-> None]
  /\ owner    = [l \in Lock |-> None]
  /\ condLock = [t \in Thread |-> None]
  /\ waiting  = [t \in Thread |-> None]
  /\ pending  = [t \in Thread |-> FALSE]
  /\ items    = [l \in Lock |-> 0]
  /\ target   = [t \in Thread |-> None]
  /\ mine     = [t \in Thread |-> FALSE]
  /\ ops      = 0
  /\ missed   = [t \in Thread |-> FALSE]

-----------------------------------------------------------------------------
(* Locks and conditions *)

Goto(t, next) == pc' = [pc EXCEPT ![t] = next]

\* lock(l): the mutex, then the owner field.
Acquire(t, l) ==
  /\ Free(l)
  /\ holder' = [holder EXCEPT ![l] = t]
  /\ owner'  = [owner EXCEPT ![l] = t]

\* unlock(l) leaves the owner field alone.
Release(l) == holder' = [holder EXCEPT ![l] = None] /\ UNCHANGED owner

Sleepers(l) == {t \in Thread : pc[t] = "asleep" /\ on[t] = l}

\* notify(cond) with the caller going on to `next`.
NotifyAnd(t, l, next) ==
  pc' = [u \in Thread |-> IF u = t THEN next
                          ELSE IF u \in Sleepers(l) THEN "woken" ELSE pc[u]]

\* An idle task starts an operation on l by locking it.
Start(t, l, op, next) ==
  /\ op \in Ops
  /\ ops < MaxOps /\ ops' = ops + 1
  /\ pc[t] = "idle" /\ ~pending[t]
  /\ Acquire(t, l)
  /\ on' = [on EXCEPT ![t] = l]
  /\ Goto(t, next)

-----------------------------------------------------------------------------
(* A waiter *)

ConsumeStart(t, l) ==
  /\ Start(t, l, "consume", "check")
  /\ UNCHANGED <<condLock, waiting, pending, items, target, mine, missed>>

\* A slip: read without looking whether there is anything.
CheckNothing(t) ==
  /\ pc[t] = "check"
  /\ items' = [items EXCEPT ![on[t]] = @ - 1] /\ Goto(t, "leave")
  /\ UNCHANGED <<on, holder, owner, condLock, waiting, pending, target, mine,
                 ops, missed>>

\* The caller's loop: take what is there, or wait for it.
Check(t) ==
  /\ pc[t] = "check"
  /\ IF items[on[t]] > 0
     THEN items' = [items EXCEPT ![on[t]] = @ - 1] /\ Goto(t, "leave")
     ELSE Goto(t, "wait") /\ UNCHANGED items
  /\ UNCHANGED <<on, holder, owner, condLock, waiting, pending, target, mine,
                 ops, missed>>

\* wait_for: a signal that is pending already means _EINTR.
TestPending(t) ==
  /\ pc[t] = "wait"
  /\ Goto(t, IF Interrupted /\ pending[t] THEN "leave" ELSE "publish")
  /\ UNCHANGED <<on, holder, owner, condLock, waiting, pending, items, target,
                 mine, ops, missed>>

\* Publish waiting_cond and waiting_lock under waiting_cond_lock.
Publish(t) ==
  /\ pc[t] = "publish"
  /\ condLock[t] = None
  /\ waiting' = [waiting EXCEPT ![t] = on[t]]
  /\ Goto(t, "sleep")
  /\ UNCHANGED <<on, holder, owner, condLock, pending, items, target, mine, ops,
                 missed>>

\* pthread_cond_wait: unlock and sleep in one step.
Sleep(t) ==
  /\ pc[t] = "sleep"
  /\ Release(on[t])
  /\ Goto(t, "asleep")
  /\ UNCHANGED <<on, condLock, waiting, pending, items, target, mine, ops, missed>>

\* The timeout of pthread_cond_timedwait.
TimeOut(t) ==
  /\ pc[t] = "asleep"
  /\ TimedOut
  /\ Goto(t, "expired")
  /\ UNCHANGED <<on, holder, owner, condLock, waiting, pending, items, target,
                 mine, ops, missed>>

\* A spurious wakeup; there are only so many, so they count as operations.
WakeUp(t) ==
  /\ pc[t] = "asleep"
  /\ ops < MaxOps
  /\ ops' = ops + 1
  /\ Goto(t, "woken")
  /\ UNCHANGED <<on, holder, owner, condLock, waiting, pending, items, target,
                 mine, missed>>

\* The other half of pthread_cond_wait takes the mutex back; owner stays stale.
Reacquire(t) ==
  /\ pc[t] \in {"woken", "expired"}
  /\ Free(on[t])
  /\ holder' = [holder EXCEPT ![on[t]] = t]
  /\ Goto(t, IF pc[t] = "woken" THEN "clear" ELSE "clearexpired")
  /\ UNCHANGED <<on, owner, condLock, waiting, pending, items, target, mine, ops,
                 missed>>

\* Clear waiting_cond; return _ETIMEDOUT, or _EINTR, or look again.
Clear(t) ==
  /\ pc[t] \in {"clear", "clearexpired"}
  /\ condLock[t] = None
  /\ waiting' = [waiting EXCEPT ![t] = None]
  /\ Goto(t, IF pc[t] = "clearexpired" \/ (Interrupted /\ pending[t])
             THEN "leave" ELSE "check")
  /\ UNCHANGED <<on, holder, owner, condLock, pending, items, target, mine, ops,
                 missed>>

\* The system call returns with the lock released.
Leave(t) ==
  /\ pc[t] = "leave"
  /\ Release(on[t])
  /\ on' = [on EXCEPT ![t] = None]
  /\ Goto(t, "idle")
  /\ UNCHANGED <<condLock, waiting, pending, items, target, mine, ops, missed>>

\* receive_signals on the way back to the guest.
Receive(t) ==
  /\ pc[t] = "idle" /\ pending[t]
  /\ pending' = [pending EXCEPT ![t] = FALSE]
  /\ missed'  = [missed EXCEPT ![t] = FALSE]
  /\ UNCHANGED <<pc, on, holder, owner, condLock, waiting, items, target, mine, ops>>

-----------------------------------------------------------------------------
(* A producer: tty_input, an exiting child, futex_wake, eventfd_write *)

ProduceStart(t, l) ==
  /\ items[l] < MaxItems
  /\ Start(t, l, "produce", "produce")
  /\ UNCHANGED <<condLock, waiting, pending, items, target, mine, missed>>

\* A slip: the producer forgets to notify.
ProduceSilently(t) ==
  /\ pc[t] = "produce"
  /\ items' = [items EXCEPT ![on[t]] = @ + 1]
  /\ Goto(t, "leave")
  /\ UNCHANGED <<on, holder, owner, condLock, waiting, pending, target, mine, ops,
                 missed>>

Produce(t) ==
  /\ pc[t] = "produce"
  /\ items' = [items EXCEPT ![on[t]] = @ + 1]
  /\ NotifyAnd(t, on[t], "leave")
  /\ UNCHANGED <<on, holder, owner, condLock, waiting, pending, target, mine, ops,
                 missed>>

-----------------------------------------------------------------------------
(* tty_ioctl (TIOCSPGRP, TIOCSCTTY): the tty's lock, then pids_lock *)

IoctlStart(t, l) ==
  /\ l # PidsLock
  /\ Start(t, l, "ioctl", "ioctl")
  /\ UNCHANGED <<condLock, waiting, pending, items, target, mine, missed>>

IoctlPids(t) ==
  /\ pc[t] = "ioctl"
  /\ Acquire(t, PidsLock)
  /\ Goto(t, "ioctlboth")
  /\ UNCHANGED <<on, condLock, waiting, pending, items, target, mine, ops, missed>>

IoctlDone(t) ==
  /\ pc[t] = "ioctlboth"
  /\ holder' = [holder EXCEPT ![PidsLock] = None, ![on[t]] = None]
  /\ on' = [on EXCEPT ![t] = None]
  /\ Goto(t, "idle")
  /\ UNCHANGED <<owner, condLock, waiting, pending, items, target, mine, ops, missed>>

-----------------------------------------------------------------------------
(* deliver_signal(task, sig) with pids_lock held *)

KillStart(t, u) ==
  /\ t # u
  /\ Start(t, PidsLock, "kill", "pend")
  /\ target' = [target EXCEPT ![t] = u]
  /\ UNCHANGED <<condLock, waiting, pending, items, mine, missed>>

SetPending(t) ==
  /\ pc[t] = "pend"
  /\ pending' = [pending EXCEPT ![target[t]] = TRUE]
  /\ Goto(t, "retry")
  /\ UNCHANGED <<on, holder, owner, condLock, waiting, items, target, mine, ops,
                 missed>>

\* Is u past its test of pending but not asleep yet?
AboutToSleep(u) == pc[u] \in {"publish", "sleep"}

\* Leave deliver_signal, remembering whether the target can have missed it.
Delivered(t) ==
  missed' = [missed EXCEPT ![target[t]] = @ \/ AboutToSleep(target[t])]

\* retry: lock waiting_cond_lock and look at waiting_cond.
LookAtTarget(t) ==
  /\ pc[t] = "retry"
  /\ condLock[target[t]] = None
  /\ IF waiting[target[t]] = None
     THEN Delivered(t) /\ Goto(t, "killed") /\ UNCHANGED condLock
     ELSE /\ condLock' = [condLock EXCEPT ![target[t]] = t]
          /\ Goto(t, "trylock")
          /\ UNCHANGED missed
  /\ UNCHANGED <<on, holder, owner, waiting, pending, items, target, mine, ops>>

\* pthread_mutex_trylock(&task->waiting_lock->m) does not write owner.
TryLock(t) ==
  LET l == waiting[target[t]] IN
  /\ pc[t] = "trylock"
  /\ IF Free(l)
     THEN /\ holder' = [holder EXCEPT ![l] = t]
          /\ mine' = [mine EXCEPT ![t] = FALSE]
          /\ Goto(t, "notify")
     ELSE Goto(t, "busy") /\ UNCHANGED <<holder, mine>>
  /\ UNCHANGED <<on, owner, condLock, waiting, pending, items, target, ops, missed>>

\* Two slips: a sender that does not come back, and one that comes back with
\* waiting_cond_lock still locked.
GiveUp(t) ==
  /\ pc[t] = "busy"
  /\ mine' = [mine EXCEPT ![t] = owner[waiting[target[t]]] = t]
  /\ Goto(t, IF mine'[t] THEN "notify" ELSE "killed")
  /\ condLock' = [condLock EXCEPT ![target[t]] = IF mine'[t] THEN @ ELSE None]
  /\ UNCHANGED <<on, holder, owner, waiting, pending, items, target, ops, missed>>

RetryLocked(t) ==
  /\ pc[t] = "busy"
  /\ mine' = [mine EXCEPT ![t] = owner[waiting[target[t]]] = t]
  /\ Goto(t, IF mine'[t] THEN "notify" ELSE "retry")
  /\ UNCHANGED <<on, holder, owner, condLock, waiting, pending, items, target, ops,
                 missed>>

\* EBUSY: is the lock mine?  If not, let go of waiting_cond_lock and retry.
WhoseLock(t) ==
  /\ pc[t] = "busy"
  /\ IF owner[waiting[target[t]]] = t
     THEN /\ mine' = [mine EXCEPT ![t] = TRUE]
          /\ Goto(t, "notify")
          /\ UNCHANGED condLock
     ELSE /\ condLock' = [condLock EXCEPT ![target[t]] = None]
          /\ Goto(t, "retry")
          /\ UNCHANGED mine
  /\ UNCHANGED <<on, holder, owner, waiting, pending, items, target, ops, missed>>

\* A slip: unlock also a lock that was mine before.
NotifyAndUnlock(t) ==
  LET l == waiting[target[t]] IN
  /\ pc[t] = "notify"
  /\ NotifyAnd(t, l, "killed")
  /\ Delivered(t)
  /\ holder' = [holder EXCEPT ![l] = None]
  /\ condLock' = [condLock EXCEPT ![target[t]] = None]
  /\ mine' = [mine EXCEPT ![t] = FALSE]
  /\ UNCHANGED <<on, owner, waiting, pending, items, target, ops>>

\* notify, unlock unless mine, unlock waiting_cond_lock.
NotifyTarget(t) ==
  LET l == waiting[target[t]] IN
  /\ pc[t] = "notify"
  /\ NotifyAnd(t, l, "killed")
  /\ Delivered(t)
  /\ IF mine[t] THEN UNCHANGED holder ELSE holder' = [holder EXCEPT ![l] = None]
  /\ condLock' = [condLock EXCEPT ![target[t]] = None]
  /\ mine' = [mine EXCEPT ![t] = FALSE]
  /\ UNCHANGED <<on, owner, waiting, pending, items, target, ops>>

KillDone(t) ==
  /\ pc[t] = "killed"
  /\ Release(PidsLock)
  /\ on' = [on EXCEPT ![t] = None]
  /\ target' = [target EXCEPT ![t] = None]
  /\ Goto(t, "idle")
  /\ UNCHANGED <<condLock, waiting, pending, items, mine, ops, missed>>

-----------------------------------------------------------------------------
\* What a thread inside an operation does next.
Continue(t) ==
  \/ Check(t) \/ TestPending(t) \/ Publish(t) \/ Sleep(t) \/ Reacquire(t)
  \/ Clear(t) \/ Leave(t) \/ Receive(t)
  \/ Produce(t)
  \/ IoctlPids(t) \/ IoctlDone(t)
  \/ SetPending(t) \/ LookAtTarget(t) \/ TryLock(t) \/ WhoseLock(t)
  \/ NotifyTarget(t) \/ KillDone(t)

Next ==
  \E t \in Thread :
    \/ Continue(t)
    \/ TimeOut(t) \/ WakeUp(t)
    \/ \E l \in Lock : ConsumeStart(t, l) \/ ProduceStart(t, l) \/ IoctlStart(t, l)
    \/ \E u \in Thread : KillStart(t, u)

Spec == Init /\ [][Next]_vars

\* The scheduler runs every runnable thread, and a mutex that is free again and
\* again is got in the end: strong fairness, because a spinning deliver_signal
\* takes and drops waiting_cond_lock in front of its owner.
FairSpec == Spec /\ \A t \in Thread : SF_vars(Continue(t))

-----------------------------------------------------------------------------
PC == {"idle", "check", "wait", "publish", "sleep", "asleep", "woken", "expired",
       "clear", "clearexpired", "leave", "produce", "ioctl", "ioctlboth", "pend",
       "retry", "trylock", "busy", "notify", "killed"}

TypeOK ==
  /\ pc \in [Thread -> PC]
  /\ on \in [Thread -> Lock \cup {None}]
  /\ holder \in [Lock -> Thread \cup {None}]
  /\ owner \in [Lock -> Thread \cup {None}]
  /\ condLock \in [Thread -> Thread \cup {None}]
  /\ waiting \in [Thread -> Lock \cup {None}]
  /\ pending \in [Thread -> BOOLEAN]
  /\ items \in [Lock -> 0 .. MaxItems]
  /\ target \in [Thread -> Thread \cup {None}]
  /\ mine \in [Thread -> BOOLEAN]
  /\ ops \in 0 .. MaxOps
  /\ missed \in [Thread -> BOOLEAN]

Delivering == {"pend", "retry", "trylock", "busy", "notify", "killed"}

\* Whoever is between taking a lock and giving it back still has it: neither the
\* trylock of deliver_signal nor its `if (!mine) unlock` ever frees a mutex
\* under a thread that is inside its critical section, and a sleeper's
\* waiting_lock does not change under the thread that is looking at it.
LocksHeld ==
  /\ \A t \in Thread :
       /\ pc[t] \notin {"idle", "asleep", "woken", "expired"} => holder[on[t]] = t
       /\ pc[t] = "ioctlboth" => holder[PidsLock] = t
       /\ pc[t] \in {"trylock", "busy", "notify"} =>
            condLock[target[t]] = t /\ waiting[target[t]] # None
       /\ pc[t] = "notify" /\ ~mine[t] => holder[waiting[target[t]]] = t

\* Nobody sleeps on what is there for the taking: between the check and the
\* sleep the lock is held, and every producer notifies under it.
NoLostNotify ==
  \A t \in Thread : pc[t] = "asleep" => items[on[t]] = 0

\* A thread asleep in wait_for with a signal pending is about to be woken by the
\* deliver_signal that sent it, unless that delivery had already gone by when
\* the thread was between its test of pending and the sleep.
SignalWakes ==
  Interrupted => \A u \in Thread : pc[u] = "asleep" /\ pending[u] =>
    \/ missed[u]
    \/ \E t \in Thread :
         target[t] = u /\ pc[t] \in {"retry", "trylock", "busy", "notify"}

\* A sender that holds pids_lock wants the lock of a terminal whose holder, in
\* tty_ioctl, wants pids_lock: neither will ever get on.
Crossed(t) ==
  \E u \in Thread \ {t} : pc[u] = "ioctl" /\ on[u] = waiting[target[t]]

\* deliver_signal's retry loop comes to an end: the sender, who holds pids_lock,
\* gets through whatever the target's lock is being used for, unless a thread in
\* tty_ioctl holds that lock and is after pids_lock.
KillReturns ==
  \A t \in Thread :
    (pc[t] \in Delivering) ~> (pc[t] = "idle" \/ (pc[t] \in Delivering /\ Crossed(t)))

\* sync.h: wait_for "Returns _EINTR if waiting stopped because the thread
\* received a signal", and conditions can "also be woken by a signal".
SignalStopsWaiting ==
  \A u \in Thread : pc[u] = "asleep" /\ pending[u] =>
    \E t \in Thread : target[t] = u /\ pc[t] \in Delivering
=============================================================================
