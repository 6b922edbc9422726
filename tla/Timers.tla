------------------------------- MODULE Timers -------------------------------
(***************************************************************************)
(* The interval timer of a thread group: util/timer.c, sys_setitimer of    *)
(* kernel/time.c and the disarming in do_exit.  A timer is served by       *)
(* detached threads that sleep without its lock; arming, disarming and     *)
(* arming again may start a second one while the first still sleeps.       *)
(* A time is kept as what is left until it, so that the clock need not     *)
(* stop: it goes on at every moment, also while the lock is held.          *)
(***************************************************************************)
EXTENDS Integers, FiniteSets

CONSTANTS Tasks,      \* threads of the group
          Ids,        \* timer threads, a bound of those that live at once
          Values,     \* spec.value, in ticks; 0 disarms
          Intervals,  \* spec.interval, in ticks
          MaxLag,     \* bound: what is longer ago counts as this long ago
          MaxEarly    \* bound of how early an unnormalised end is served

ASSUME TimersAssumption ==
    Values \subseteq Nat /\ Intervals \subseteq Nat /\ MaxLag \in Nat /\ MaxEarly \in Nat

VARIABLES hasTimer,   \* group->has_timer
          running,
          left,       \* end - timespec_now(), when running
          interval,
          ill,        \* value or interval has 10^9 nanoseconds or more
          thread,     \* thread[i]: none, new, asleep, awake (the lock is held)
          wake,       \* what is left of the nanosleep of an asleep thread
          alive,      \* tasks that have not exited
          spent,      \* ticks since a thread that holds the lock took a step
          due,        \* {x}: the first expiry asked for and not served is in x
          spurious,   \* the callback ran with no expiry due
          hastened,   \* the last call moved the expiry before a sleeper's wake
          odd         \* that call disarmed but left an interval

timerVars == <<hasTimer, running, left, interval, ill, thread, wake, alive, spent,
               due, spurious, hastened, odd>>

Locked == \E i \in Ids : thread[i] = "awake"
Asleep == {i \in Ids : thread[i] = "asleep"}
Served == {i \in Ids : thread[i] # "none"}
Later(x) == IF x > -MaxLag THEN x - 1 ELSE x

TimerInit ==
    /\ hasTimer = FALSE /\ running = FALSE /\ left = 0 /\ interval = 0 /\ ill = FALSE
    /\ thread = [i \in Ids |-> "none"] /\ wake = [i \in Ids |-> 0]
    /\ alive = Tasks /\ spent = 0 /\ due = {} /\ spurious = FALSE
    /\ hastened = FALSE /\ odd = FALSE

Tick ==
    /\ left' = (IF running THEN Later(left) ELSE left)
    /\ wake' = [i \in Ids |-> IF wake[i] > 0 THEN wake[i] - 1 ELSE 0]
    /\ due' = {Later(x) : x \in due}
    /\ spent' = (IF Locked /\ spent < interval THEN spent + 1 ELSE spent)
    /\ UNCHANGED <<hasTimer, running, interval, ill, thread, alive, spurious, hastened, odd>>

(***************************************************************************)
(* timer_set, under timer->lock.  A thread is started only when the timer  *)
(* was not running.  Disarming signals timer->thread, the thread that was  *)
(* started last, whose nanosleep ends early; a running timer's thread is   *)
(* not told of a new end.                                                  *)
(***************************************************************************)
TimerSet(value, every) ==
    /\ ~Locked
    /\ left' = value /\ interval' = every
    /\ running' = (value # 0)
    /\ IF value # 0 /\ ~running
       THEN \E i \in Ids :
               /\ thread[i] = "none"
               /\ thread' = [thread EXCEPT ![i] = "new"] /\ UNCHANGED wake
       ELSE /\ UNCHANGED thread
            /\ IF value = 0 /\ running
               THEN \E i \in Served : wake' = [wake EXCEPT ![i] = 0]
               ELSE UNCHANGED wake
    /\ due' = (IF value = 0 THEN {} ELSE {value})
    /\ odd' = (value = 0 /\ every # 0)
    /\ hastened' = (value # 0 /\ \E i \in Asleep : wake[i] > value)
    /\ UNCHANGED <<spent, spurious>>

\* sys_setitimer: the first call makes the timer.  The microseconds of the guest
\* are not checked.  (The callback is for the task that made the timer, which may
\* exit before the group does.)
SetITimer(t) ==
    /\ t \in alive /\ hasTimer' = TRUE /\ ill' \in BOOLEAN
    /\ \E value \in Values, every \in Intervals : TimerSet(value, every)
    /\ UNCHANGED alive

\* do_exit: the last thread of the group disarms the timer, which stays.
Exit(t) ==
    /\ t \in alive /\ alive' = alive \ {t}
    /\ IF alive = {t} /\ hasTimer THEN TimerSet(0, 0) /\ ill' = FALSE
       ELSE UNCHANGED <<running, left, interval, ill, thread, wake, spent, due, spurious,
                        hastened, odd>>
    /\ UNCHANGED hasTimer

(***************************************************************************)
(* timer_thread.  It takes the lock when it starts and after each          *)
(* nanosleep.  Awake, it goes to sleep while the timer is running and its  *)
(* end is ahead; else it fires if the timer is running, moves the end on   *)
(* when there is an interval, and goes round; without one it stops.        *)
(* An end that is not normalised may be taken to be past while less than a *)
(* few seconds are left, and nanosleep refuses a remainder that is not.    *)
(***************************************************************************)
ThreadLocks(i) ==
    /\ ~Locked
    /\ thread[i] = "new" \/ (thread[i] = "asleep" /\ wake[i] = 0)
    /\ thread' = [thread EXCEPT ![i] = "awake"] /\ spent' = 0
    /\ UNCHANGED <<hasTimer, running, left, interval, ill, wake, alive, due, spurious,
                   hastened, odd>>

\* A slip: the thread sleeps a whole interval more.
ThreadOversleeps(i) ==
    /\ thread[i] = "awake" /\ running /\ left > 0
    /\ thread' = [thread EXCEPT ![i] = "asleep"] /\ wake' = [wake EXCEPT ![i] = left + interval]
    /\ spent' = 0
    /\ UNCHANGED <<hasTimer, running, left, interval, ill, alive, due, spurious, hastened, odd>>

ThreadSleeps(i) ==
    /\ thread[i] = "awake" /\ running /\ left > 0
    /\ thread' = [thread EXCEPT ![i] = "asleep"]
    /\ \/ wake' = [wake EXCEPT ![i] = left]
       \/ ill /\ wake' = [wake EXCEPT ![i] = 0]
    /\ spent' = 0
    /\ UNCHANGED <<hasTimer, running, left, interval, ill, alive, due, spurious, hastened, odd>>

\* A slip: a timer without an interval stays armed.
ThreadFiresOn(i) ==
    /\ thread[i] = "awake" /\ running
    /\ left <= 0 \/ (ill /\ left <= MaxEarly)
    /\ spurious' = (spurious \/ due = {} \/ \E x \in due : x > 0 /\ ~ill)
    /\ due' = (IF interval > 0 THEN {x + interval : x \in due} ELSE {})
    /\ IF interval > 0 THEN left' = left + interval /\ UNCHANGED thread
       ELSE thread' = [thread EXCEPT ![i] = "new"] /\ UNCHANGED left
    /\ spent' = 0
    /\ UNCHANGED <<hasTimer, running, interval, ill, wake, alive, hastened, odd>>

ThreadFires(i) ==
    /\ thread[i] = "awake" /\ running
    /\ left <= 0 \/ (ill /\ left <= MaxEarly)
    /\ spurious' = (spurious \/ due = {} \/ \E x \in due : x > 0 /\ ~ill)
    /\ due' = (IF interval > 0 THEN {x + interval : x \in due} ELSE {})
    /\ IF interval > 0
       THEN left' = left + interval /\ UNCHANGED <<running, thread>>
       ELSE /\ running' = FALSE /\ thread' = [thread EXCEPT ![i] = "none"]
            /\ UNCHANGED left
    /\ spent' = 0
    /\ UNCHANGED <<hasTimer, interval, ill, wake, alive, hastened, odd>>

\* A slip: the lock is not given back.
ThreadStopsLocked(i) ==
    /\ thread[i] = "awake" /\ ~running /\ spent' = 0
    /\ UNCHANGED <<hasTimer, running, left, interval, ill, thread, wake, alive, due,
                   spurious, hastened, odd>>

\* The timer is disarmed: the thread stops, or with an interval left goes round
\* for ever without giving the lock back.
ThreadStops(i) ==
    /\ thread[i] = "awake" /\ ~running
    /\ thread' = (IF interval > 0 THEN thread ELSE [thread EXCEPT ![i] = "none"])
    /\ spent' = 0
    /\ UNCHANGED <<hasTimer, running, left, interval, ill, wake, alive, due, spurious,
                   hastened, odd>>

ThreadStep(i) == ThreadLocks(i) \/ ThreadSleeps(i) \/ ThreadFires(i) \/ ThreadStops(i)

TimerNext ==
    \/ Tick
    \/ \E t \in Tasks : SetITimer(t) \/ Exit(t)
    \/ \E i \in Ids : ThreadStep(i)

TimerFairness == \A i \in Ids : WF_timerVars(ThreadStep(i))
TimerSpec == TimerInit /\ [][TimerNext]_timerVars
TimerFairSpec == TimerSpec /\ TimerFairness
-----------------------------------------------------------------------------
(***************************************************************************)
(* struct timespec: timespec_add and timespec_subtract of util/timer.h,    *)
(* and the absolute timeout that wait_for_ignore_signals computes for      *)
(* itself.  Second is the number of nanoseconds in one.                    *)
(***************************************************************************)
Timespec(Second) == [sec : 0 .. 2, nsec : 0 .. Second - 1]
Unchecked(Second) == [sec : 0 .. 2, nsec : 0 .. 3 * Second]
Nanoseconds(x, Second) == x.sec * Second + x.nsec

TimespecAdd(x, y, Second) ==
    LET sum == x.nsec + y.nsec IN
    IF sum >= Second THEN [sec |-> x.sec + y.sec + 1, nsec |-> sum - Second]
    ELSE [sec |-> x.sec + y.sec, nsec |-> sum]

\* A slip: no second is borrowed.
TimespecSubtractUnborrowed(x, y, Second) ==
    [sec |-> x.sec - y.sec, nsec |-> IF x.nsec < y.nsec THEN x.nsec + Second - y.nsec ELSE x.nsec - y.nsec]

TimespecSubtract(x, y, Second) ==
    IF x.nsec < y.nsec
    THEN [sec |-> x.sec - 1 - y.sec, nsec |-> x.nsec + Second - y.nsec]
    ELSE [sec |-> x.sec - y.sec, nsec |-> x.nsec - y.nsec]

TimespecPositive(x) == x.sec > 0 \/ (x.sec = 0 /\ x.nsec > 0)

AbsTimeout(x, y, Second) ==
    LET sum == x.nsec + y.nsec IN
    IF sum > Second THEN [sec |-> x.sec + y.sec + 1, nsec |-> sum - Second]
    ELSE [sec |-> x.sec + y.sec, nsec |-> sum]
-----------------------------------------------------------------------------
TimerTypeOK ==
    /\ alive \subseteq Tasks /\ {hasTimer, running, ill, spurious, hastened, odd} \subseteq BOOLEAN
    /\ left \in Int /\ due \subseteq Int /\ {interval, spent} \subseteq Nat
    /\ thread \in [Ids -> {"none", "new", "asleep", "awake"}] /\ wake \in [Ids -> Nat]

\* What was asked for fires no earlier than asked and once for each expiry,
\* however many threads an arming before it left behind (util/timer.c:56-66);
\* a timer that was disarmed does not fire at all.  Only values with a million
\* microseconds or more, which kernel/time.c:103-106 takes as they are, may be
\* served before their time.
FiresOncePerExpiry == ~spurious

\* When an armed timer is due, a thread is up or wakes by then to serve it.
\* Only an arming that moved the end before the wake of the thread that sleeps
\* is served late: nobody interrupts its nanosleep.
ServedWhenDue ==
    (running /\ ~hastened) =>
        \E i \in Served : thread[i] = "asleep" => wake[i] = 0 \/ wake[i] <= left

\* All that is promised of the timer at every moment.
TimersFire == TimerTypeOK /\ FiresOncePerExpiry /\ ServedWhenDue

\* One pass of the loop with the lock held takes as long as an interval, as it
\* does for one of a microsecond: the end then is never ahead
\* (util/timer.c:22-39).
Slow == Locked /\ interval > 0 /\ spent >= interval

\* The clock going on, nobody keeps the timer's lock for ever, and with it,
\* through sys_setitimer, the group's, but a thread that finds its timer disarmed
\* with an interval and one that time and again takes a whole interval to go round.
LockIsGivenBack == (Locked /\ ~odd) ~> (~Locked \/ odd \/ Slow)

\* What is normalised stays so, and is ordered as its nanoseconds are.
Normal(x, y, Second) ==
    /\ TimespecAdd(x, y, Second).nsec \in 0 .. Second - 1
    /\ TimespecSubtract(x, y, Second).nsec \in 0 .. Second - 1
    /\ TimespecPositive(TimespecSubtract(x, y, Second))
          <=> Nanoseconds(x, Second) > Nanoseconds(y, Second)
    /\ AbsTimeout(x, y, Second).nsec \in 0 .. Second - 1 \/ x.nsec + y.nsec = Second
    /\ Nanoseconds(AbsTimeout(x, y, Second), Second)
          = Nanoseconds(x, Second) + Nanoseconds(y, Second)

\* The arithmetic of timers is exact and normal.  The timeout of a condition
\* is too, but for a sum of exactly one second, which util/sync.c:82 leaves in
\* the nanoseconds, where pthread_cond_timedwait does not take it.  With what the
\* guest passes unchecked, totals stay exact, and an end may be taken to be past
\* too early but never to be ahead when it is not.
TimespecsExact(Second) ==
    \A x \in Unchecked(Second), y \in Timespec(Second) :
        /\ Nanoseconds(TimespecAdd(y, x, Second), Second)
              = Nanoseconds(y, Second) + Nanoseconds(x, Second)
        /\ Nanoseconds(TimespecSubtract(x, y, Second), Second)
              = Nanoseconds(x, Second) - Nanoseconds(y, Second)
        /\ TimespecPositive(TimespecSubtract(x, y, Second))
              => Nanoseconds(x, Second) > Nanoseconds(y, Second)
        /\ x.nsec < Second => Normal(x, y, Second)
=============================================================================
