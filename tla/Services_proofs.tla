--------------------------- MODULE Services_proofs --------------------------
(* Proofs about five services of the kernel that share no state: the timers  *)
(* of thread groups, the kernel log, the list of mounts, poll with epoll and *)
(* eventfd, and futexes.                                                     *)
EXTENDS Futex, Timers, KernelLog, Mounts, Polls, SequenceTheorems, FiniteSetTheorems,
        FunctionTheorems, TLAPS

-----------------------------------------------------------------------------
(* Timers *)

TimerTypes ==
  /\ alive \subseteq Tasks /\ hasTimer \in BOOLEAN /\ running \in BOOLEAN /\ ill \in BOOLEAN
  /\ hastened \in BOOLEAN /\ odd \in BOOLEAN
  /\ left \in Int /\ interval \in Nat /\ spent \in Nat
  /\ thread \in [Ids -> {"none", "new", "asleep", "awake"}] /\ wake \in [Ids -> Nat]

\* The end of an armed timer is the first expiry that was asked for and has not
\* been served; of one that is not armed nothing is left to serve.
EndIsDue == due = IF running THEN {left} ELSE {}

\* An armed timer has a thread, wherever its end has been moved.
ArmedIsServed == running => Served # {}

TimerInv ==
  TimerTypes /\ EndIsDue /\ spurious = FALSE /\ ArmedIsServed /\ ServedWhenDue

\* A group begins without a timer.
LEMMA TimerInitial == TimerInit => TimerInv
<1>. SUFFICES ASSUME TimerInit PROVE TimerInv
  OBVIOUS
<1>1. /\ hasTimer = FALSE /\ running = FALSE /\ left = 0 /\ interval = 0 /\ ill = FALSE
      /\ thread = [i \in Ids |-> "none"] /\ wake = [i \in Ids |-> 0]
      /\ alive = Tasks /\ spent = 0 /\ due = {} /\ spurious = FALSE
      /\ hastened = FALSE /\ odd = FALSE
  BY DEF TimerInit
<1>2. thread \in [Ids -> {"none", "new", "asleep", "awake"}] /\ wake \in [Ids -> Nat]
  BY <1>1
<1>3. /\ hasTimer \in BOOLEAN /\ running \in BOOLEAN /\ ill \in BOOLEAN
      /\ hastened \in BOOLEAN /\ odd \in BOOLEAN
  BY <1>1
<1>4. TimerTypes
  <2>1. left \in Int /\ interval \in Nat /\ spent \in Nat /\ alive \subseteq Tasks
    BY <1>1
  <2>. QED
    BY <1>2, <1>3, <2>1 DEF TimerTypes
<1>5. ~running /\ EndIsDue /\ spurious = FALSE
  BY <1>1 DEF EndIsDue
<1>. QED
  BY <1>4, <1>5 DEF TimerInv, ArmedIsServed, ServedWhenDue

\* What timer_set does to the timer and to its threads.
LEMMA TimerSetKeeps ==
  ASSUME TimerInv, NEW value \in Nat, NEW every \in Nat, TimerSet(value, every),
         alive' \subseteq Tasks, hasTimer' \in BOOLEAN, ill' \in BOOLEAN
  PROVE  TimerInv'
<1>0. TimerTypes /\ ArmedIsServed /\ spurious = FALSE
  BY DEF TimerInv
<1>1. /\ left' = value /\ interval' = every /\ running' = (value # 0)
      /\ due' = (IF value = 0 THEN {} ELSE {value})
      /\ odd' = (value = 0 /\ every # 0)
      /\ hastened' = (value # 0 /\ \E i \in Asleep : wake[i] > value)
      /\ spent' = spent /\ spurious' = spurious
  BY DEF TimerSet
<1>2. /\ running' \in BOOLEAN /\ hastened' \in BOOLEAN /\ odd' \in BOOLEAN
      /\ left' \in Int /\ interval' \in Nat /\ spent' \in Nat
  BY <1>0, <1>1 DEF TimerTypes
<1>3. EndIsDue' /\ spurious' = FALSE
  BY <1>0, <1>1 DEF EndIsDue
<1>4. CASE value # 0 /\ ~running
  <2>1. PICK i \in Ids : thread' = [thread EXCEPT ![i] = "new"] /\ wake' = wake
    BY <1>4 DEF TimerSet
  <2>2. /\ thread' \in [Ids -> {"none", "new", "asleep", "awake"}] /\ wake' \in [Ids -> Nat]
        /\ thread'[i] = "new"
    BY <1>0, <2>1 DEF TimerTypes
  <2>3. TimerTypes'
    BY <1>2, <2>2 DEF TimerTypes
  <2>. QED
    BY <1>3, <2>2, <2>3 DEF TimerInv, ArmedIsServed, ServedWhenDue, Served
<1>5. CASE value # 0 /\ running
  <2>1. thread' = thread /\ wake' = wake
    BY <1>5 DEF TimerSet
  <2>2. TimerTypes'
    BY <1>0, <1>2, <2>1 DEF TimerTypes
  <2>3. ArmedIsServed'
    BY <1>0, <1>5, <2>1 DEF ArmedIsServed, Served
  <2>4. ServedWhenDue'
    <3>1. PICK i \in Ids : thread[i] # "none"
      BY <1>0, <1>5 DEF ArmedIsServed, Served
    <3>2. ~hastened' /\ thread[i] = "asleep" => ~(wake[i] > value)
      BY <1>1, <1>5 DEF Asleep
    <3>3. wake[i] \in Nat
      BY <1>0 DEF TimerTypes
    <3>4. ~hastened' /\ thread[i] = "asleep" => wake[i] <= left'
      BY <1>1, <3>2, <3>3
    <3>. QED
      BY <2>1, <3>1, <3>4 DEF ServedWhenDue, Served
  <2>. QED
    BY <1>3, <2>2, <2>3, <2>4 DEF TimerInv
<1>6. CASE value = 0
  <2>1. thread' = thread /\ (wake' = wake \/ \E i \in Ids : wake' = [wake EXCEPT ![i] = 0])
    BY <1>6 DEF TimerSet, Served
  <2>2. thread' \in [Ids -> {"none", "new", "asleep", "awake"}] /\ wake' \in [Ids -> Nat]
    BY <1>0, <2>1 DEF TimerTypes
  <2>3. TimerTypes'
    BY <1>2, <2>2 DEF TimerTypes
  <2>. QED
    BY <1>1, <1>3, <1>6, <2>3 DEF TimerInv, ArmedIsServed, ServedWhenDue
<1>. QED
  BY <1>4, <1>5, <1>6

\* Time goes on for the end and for every sleep alike.
LEMMA TickKeeps == TimerInv /\ Tick => TimerInv'
<1>. SUFFICES ASSUME TimerInv, Tick PROVE TimerInv'
  OBVIOUS
<1>0. TimerTypes /\ EndIsDue /\ spurious = FALSE /\ ArmedIsServed /\ ServedWhenDue
  BY DEF TimerInv
<1>1. /\ left' = (IF running THEN Later(left) ELSE left)
      /\ wake' = [i \in Ids |-> IF wake[i] > 0 THEN wake[i] - 1 ELSE 0]
      /\ due' = {Later(x) : x \in due}
      /\ spent' = (IF Locked /\ spent < interval THEN spent + 1 ELSE spent)
      /\ UNCHANGED <<hasTimer, running, interval, ill, thread, alive, spurious, hastened, odd>>
  BY DEF Tick
<1>2. left \in Int /\ spent \in Nat /\ wake \in [Ids -> Nat] /\ MaxLag \in Nat
  BY <1>0, TimersAssumption DEF TimerTypes
<1>3. Later(left) \in Int /\ (Later(left) = left - 1 \/ (Later(left) = left /\ left <= 0))
  BY <1>2 DEF Later
<1>4. left' \in Int /\ spent' \in Nat /\ wake' \in [Ids -> Nat]
  BY <1>1, <1>2, <1>3
<1>5. TimerTypes'
  BY <1>0, <1>1, <1>4 DEF TimerTypes
<1>6. EndIsDue'
  BY <1>0, <1>1 DEF EndIsDue
<1>7. ServedWhenDue'
  <2>. SUFFICES ASSUME running, ~hastened
                PROVE  \E i \in Ids : /\ thread[i] # "none"
                                      /\ thread[i] = "asleep" => wake'[i] = 0 \/ wake'[i] <= left'
    BY <1>1 DEF ServedWhenDue, Served
  <2>1. PICK i \in Ids : /\ thread[i] # "none"
                         /\ thread[i] = "asleep" => wake[i] = 0 \/ wake[i] <= left
    BY <1>0 DEF ServedWhenDue, Served
  <2>2. wake[i] \in Nat /\ wake'[i] = IF wake[i] > 0 THEN wake[i] - 1 ELSE 0
    BY <1>1, <1>2
  <2>3. left' = left - 1 \/ (left' = left /\ left <= 0)
    BY <1>1, <1>3
  <2>. QED
    BY <1>2, <2>1, <2>2, <2>3
<1>. QED
  BY <1>0, <1>1, <1>5, <1>6, <1>7 DEF TimerInv, ArmedIsServed, Served

\* Whatever thread comes first to an expiry is the only one to serve it.
LEMMA FiringKeeps == ASSUME TimerInv, NEW i \in Ids, ThreadFires(i) PROVE TimerInv'
<1>0. TimerTypes /\ EndIsDue /\ spurious = FALSE
  BY DEF TimerInv
<1>1. /\ thread[i] = "awake" /\ running /\ (left <= 0 \/ ill)
      /\ spurious' = (spurious \/ due = {} \/ \E x \in due : x > 0 /\ ~ill)
      /\ due' = (IF interval > 0 THEN {x + interval : x \in due} ELSE {})
      /\ spent' = 0
      /\ UNCHANGED <<hasTimer, interval, ill, wake, alive, hastened, odd>>
  BY DEF ThreadFires
<1>2. left \in Int /\ interval \in Nat /\ due = {left}
  BY <1>0, <1>1 DEF TimerTypes, EndIsDue
<1>3. spurious' = FALSE
  <2>1. ~(\E x \in due : x > 0 /\ ~ill)
    BY <1>1, <1>2
  <2>2. due # {}
    BY <1>2
  <2>. QED
    BY <1>0, <1>1, <2>1, <2>2, Zenon
<1>4. CASE interval > 0
  <2>1. left' = left + interval /\ UNCHANGED <<running, thread>>
    BY <1>4 DEF ThreadFires
  <2>2. TimerTypes'
    BY <1>0, <1>1, <1>2, <2>1 DEF TimerTypes
  <2>3. EndIsDue'
    BY <1>1, <1>2, <1>4, <2>1 DEF EndIsDue
  <2>4. thread'[i] = "awake"
    BY <1>1, <2>1
  <2>. QED
    BY <1>3, <2>2, <2>3, <2>4 DEF TimerInv, ArmedIsServed, ServedWhenDue, Served
<1>5. CASE ~(interval > 0)
  <2>1. running' = FALSE /\ thread' = [thread EXCEPT ![i] = "none"] /\ left' = left
    BY <1>5 DEF ThreadFires
  <2>2. TimerTypes'
    BY <1>0, <1>1, <2>1 DEF TimerTypes
  <2>3. EndIsDue'
    BY <1>1, <1>5, <2>1 DEF EndIsDue
  <2>. QED
    BY <1>3, <2>1, <2>2, <2>3 DEF TimerInv, ArmedIsServed, ServedWhenDue
<1>. QED
  BY <1>4, <1>5

\* Each step keeps the timer's invariant.
LEMMA TimerStep ==
  TimerInv /\ [TimerNext]_timerVars => TimerInv'
<1>. SUFFICES ASSUME TimerInv, [TimerNext]_timerVars PROVE TimerInv'
  OBVIOUS
<1>0. TimerTypes /\ EndIsDue /\ spurious = FALSE /\ ArmedIsServed /\ ServedWhenDue
  BY DEF TimerInv
<1>1. ASSUME Tick PROVE TimerInv'
  BY <1>1, TickKeeps
<1>2. ASSUME UNCHANGED timerVars PROVE TimerInv'
  BY <1>0, <1>2 DEF timerVars, TimerInv, TimerTypes, EndIsDue, ArmedIsServed,
                    ServedWhenDue, Served
<1>3. ASSUME NEW t \in Tasks, SetITimer(t) PROVE TimerInv'
  <2>1. PICK value \in Values, every \in Intervals : TimerSet(value, every)
    BY <1>3 DEF SetITimer
  <2>2. /\ alive' = alive /\ hasTimer' = TRUE /\ ill' \in BOOLEAN
        /\ value \in Nat /\ every \in Nat
    BY <1>3, TimersAssumption DEF SetITimer
  <2>. QED
    BY <1>0, <2>1, <2>2, TimerSetKeeps DEF TimerTypes
<1>4. ASSUME NEW t \in Tasks, Exit(t) PROVE TimerInv'
  <2>1. /\ alive' = alive \ {t} /\ hasTimer' = hasTimer
        /\ \/ TimerSet(0, 0) /\ ill' = FALSE
           \/ UNCHANGED <<running, left, interval, ill, thread, wake, spent, due, spurious,
                          hastened, odd>>
    BY <1>4 DEF Exit
  <2>2. alive' \subseteq Tasks /\ hasTimer' \in BOOLEAN
    BY <1>0, <2>1 DEF TimerTypes
  <2>3. CASE TimerSet(0, 0) /\ ill' = FALSE
    BY <2>2, <2>3, TimerSetKeeps
  <2>4. CASE UNCHANGED <<running, left, interval, ill, thread, wake, spent, due, spurious,
                         hastened, odd>>
    BY <1>0, <2>2, <2>4 DEF TimerInv, TimerTypes, EndIsDue, ArmedIsServed,
                            ServedWhenDue, Served
  <2>. QED
    BY <2>1, <2>3, <2>4
<1>5. ASSUME NEW i \in Ids, ThreadLocks(i) PROVE TimerInv'
  <2>1. /\ thread' = [thread EXCEPT ![i] = "awake"] /\ spent' = 0
        /\ UNCHANGED <<hasTimer, running, left, interval, ill, wake, alive, due, spurious,
                       hastened, odd>>
    BY <1>5 DEF ThreadLocks
  <2>2. TimerTypes' /\ EndIsDue' /\ spurious' = FALSE
    BY <1>0, <2>1 DEF TimerTypes, EndIsDue
  <2>3. thread'[i] = "awake"
    BY <1>0, <2>1 DEF TimerTypes
  <2>. QED
    BY <2>2, <2>3 DEF TimerInv, ArmedIsServed, ServedWhenDue, Served
<1>6. ASSUME NEW i \in Ids, ThreadSleeps(i) PROVE TimerInv'
  <2>1. /\ thread' = [thread EXCEPT ![i] = "asleep"] /\ left > 0 /\ spent' = 0
        /\ \/ wake' = [wake EXCEPT ![i] = left]
           \/ wake' = [wake EXCEPT ![i] = 0]
        /\ UNCHANGED <<hasTimer, running, left, interval, ill, alive, due, spurious,
                       hastened, odd>>
    BY <1>6 DEF ThreadSleeps
  <2>2. left \in Int /\ left \in Nat
    BY <1>0, <2>1 DEF TimerTypes
  <2>3. TimerTypes' /\ EndIsDue' /\ spurious' = FALSE
    BY <1>0, <2>1, <2>2 DEF TimerTypes, EndIsDue
  <2>4. thread'[i] = "asleep" /\ left' = left /\ (wake'[i] = left \/ wake'[i] = 0)
    BY <1>0, <2>1 DEF TimerTypes
  <2>. QED
    BY <2>2, <2>3, <2>4 DEF TimerInv, ArmedIsServed, ServedWhenDue, Served
<1>7. ASSUME NEW i \in Ids, ThreadFires(i) PROVE TimerInv'
  BY <1>7, FiringKeeps
<1>8. ASSUME NEW i \in Ids, ThreadStops(i) PROVE TimerInv'
  <2>1. /\ ~running /\ spent' = 0
        /\ thread' = (IF interval > 0 THEN thread ELSE [thread EXCEPT ![i] = "none"])
        /\ UNCHANGED <<hasTimer, running, left, interval, ill, wake, alive, due, spurious,
                       hastened, odd>>
    BY <1>8 DEF ThreadStops
  <2>2. TimerTypes' /\ EndIsDue' /\ spurious' = FALSE
    BY <1>0, <2>1 DEF TimerTypes, EndIsDue
  <2>. QED
    BY <2>1, <2>2 DEF TimerInv, ArmedIsServed, ServedWhenDue
<1>. QED
  BY <1>1, <1>2, <1>3, <1>4, <1>5, <1>6, <1>7, <1>8 DEF TimerNext, ThreadStep

\* However many threads the armings before it left behind, what was asked of a
\* timer last fires once for each expiry, and not before it unless what was asked
\* was not normalised; one that is disarmed does not fire; and while it is armed
\* a thread is up for it or wakes by its end, but for the one race named there.
THEOREM TimersFireOnce ==
  TimerSpec => []TimersFire
<1>1. TimerInit => TimerInv
  BY TimerInitial
<1>2. TimerInv /\ [TimerNext]_timerVars => TimerInv'
  BY TimerStep
<1>3. TimerInv => TimersFire
  <2>. SUFFICES ASSUME TimerInv PROVE TimersFire
    OBVIOUS
  <2>1. TimerTypes /\ EndIsDue /\ spurious = FALSE /\ ServedWhenDue
    BY DEF TimerInv
  <2>2. left \in Int /\ due \subseteq Int
    BY <2>1 DEF TimerTypes, EndIsDue
  <2>. QED
    BY <2>1, <2>2 DEF TimerTypes, TimerTypeOK, FiresOncePerExpiry, TimersFire
<1>. QED
  BY <1>1, <1>2, <1>3, PTL DEF TimerSpec

\* Whatever the guest passes, totals are exact and no end is taken to be ahead
\* when it is not.
LEMMA UncheckedTotals ==
  ASSUME NEW Second \in Nat \ {0}, NEW x \in Unchecked(Second), NEW y \in Timespec(Second)
  PROVE  /\ Nanoseconds(TimespecAdd(y, x, Second), Second)
              = Nanoseconds(y, Second) + Nanoseconds(x, Second)
         /\ Nanoseconds(TimespecSubtract(x, y, Second), Second)
              = Nanoseconds(x, Second) - Nanoseconds(y, Second)
         /\ TimespecPositive(TimespecSubtract(x, y, Second))
              => Nanoseconds(x, Second) > Nanoseconds(y, Second)
<1>. DEFINE X == x.sec
            Y == y.sec
            p == x.nsec
            q == y.nsec
<1>1. /\ X \in Int /\ Y \in Int /\ p \in Int /\ q \in Int /\ Second \in Int /\ Second > 0
      /\ 0 <= p /\ 0 <= q /\ q < Second
  BY DEF Timespec, Unchecked
<1>2. /\ X * Second \in Int /\ Y * Second \in Int
      /\ (Y + X) * Second = Y * Second + X * Second
      /\ (Y + X + 1) * Second = Y * Second + X * Second + Second
      /\ (X - Y) * Second = X * Second - Y * Second
      /\ (X - 1 - Y) * Second = X * Second - Y * Second - Second
  BY <1>1
<1>3. /\ Nanoseconds(x, Second) = X * Second + p
      /\ Nanoseconds(y, Second) = Y * Second + q
  BY DEF Nanoseconds
<1>4. \A s, n : /\ Nanoseconds([sec |-> s, nsec |-> n], Second) = s * Second + n
                /\ TimespecPositive([sec |-> s, nsec |-> n]) <=> s > 0 \/ (s = 0 /\ n > 0)
  BY DEF Nanoseconds, TimespecPositive
<1>5. TimespecAdd(y, x, Second) =
        IF q + p >= Second THEN [sec |-> Y + X + 1, nsec |-> (q + p) - Second]
        ELSE [sec |-> Y + X, nsec |-> q + p]
  BY DEF TimespecAdd
<1>6. TimespecSubtract(x, y, Second) =
        IF p < q THEN [sec |-> X - 1 - Y, nsec |-> p + Second - q]
        ELSE [sec |-> X - Y, nsec |-> p - q]
  BY DEF TimespecSubtract
<1>. HIDE DEF X, Y, p, q
<1>7. Nanoseconds(TimespecAdd(y, x, Second), Second)
        = Nanoseconds(y, Second) + Nanoseconds(x, Second)
  <2>1. CASE q + p >= Second
    BY <1>1, <1>2, <1>3, <1>4, <1>5, <2>1
  <2>2. CASE ~(q + p >= Second)
    BY <1>1, <1>2, <1>3, <1>4, <1>5, <2>2
  <2>. QED
    BY <2>1, <2>2
<1>8. /\ Nanoseconds(TimespecSubtract(x, y, Second), Second)
           = Nanoseconds(x, Second) - Nanoseconds(y, Second)
      /\ TimespecPositive(TimespecSubtract(x, y, Second))
           => Nanoseconds(x, Second) - Nanoseconds(y, Second) > 0
  <2>1. PICK d \in Int, n \in Int :
           /\ TimespecSubtract(x, y, Second) = [sec |-> d, nsec |-> n]
           /\ n >= 0 /\ d * Second + n = X * Second + p - (Y * Second + q)
    <3>1. CASE p < q
      BY <1>1, <1>2, <1>6, <3>1
    <3>2. CASE ~(p < q)
      BY <1>1, <1>2, <1>6, <3>2
    <3>. QED
      BY <3>1, <3>2
  <2>2. (d > 0 \/ (d = 0 /\ n > 0)) => d * Second + n > 0
    <3>1. d > 0 => d * Second > 0
      BY <1>1
    <3>2. d = 0 => d * Second = 0
      BY <1>1
    <3>. QED
      BY <1>1, <2>1, <3>1, <3>2
  <2>3. Nanoseconds(TimespecSubtract(x, y, Second), Second) = d * Second + n
    BY <1>4, <2>1
  <2>4. TimespecPositive(TimespecSubtract(x, y, Second)) <=> d > 0 \/ (d = 0 /\ n > 0)
    BY <1>4, <2>1
  <2>5. d * Second + n = Nanoseconds(x, Second) - Nanoseconds(y, Second)
    <3>1. /\ X * Second + p \in Int /\ Y * Second + q \in Int
          /\ d * Second + n = (X * Second + p) - (Y * Second + q)
      BY <1>1, <1>2, <2>1
    <3>. QED
      BY <1>3, <3>1
  <2>. QED
    BY <2>2, <2>3, <2>4, <2>5
<1>9. Nanoseconds(x, Second) \in Int /\ Nanoseconds(y, Second) \in Int
  BY <1>1, <1>2, <1>3
<1>. QED
  BY <1>7, <1>8, <1>9

\* Normalised operands give normalised results.
LEMMA NormalTimes ==
  ASSUME NEW Second \in Nat \ {0}, NEW x \in Timespec(Second), NEW y \in Timespec(Second)
  PROVE  Normal(x, y, Second)
<1>1. /\ x.sec \in 0 .. 2 /\ y.sec \in 0 .. 2
      /\ x.nsec \in 0 .. Second - 1 /\ y.nsec \in 0 .. Second - 1
  BY DEF Timespec
<1>. DEFINE X == x.sec
            Y == y.sec
            p == x.nsec
            q == y.nsec
<1>2. /\ X \in Int /\ Y \in Int /\ p \in Int /\ q \in Int /\ Second \in Int /\ Second > 0
      /\ 0 <= p /\ p < Second /\ 0 <= q /\ q < Second
      /\ X \in {0, 1, 2} /\ Y \in {0, 1, 2}
  BY <1>1
<1>3. /\ X * Second \in Int /\ Y * Second \in Int
      /\ (X + Y) * Second = X * Second + Y * Second
      /\ (X + Y + 1) * Second = X * Second + Y * Second + Second
      /\ (X - Y) * Second = X * Second - Y * Second
      /\ (X - 1 - Y) * Second = X * Second - Y * Second - Second
  BY <1>2
<1>4. TimespecAdd(x, y, Second) =
        IF p + q >= Second THEN [sec |-> X + Y + 1, nsec |-> (p + q) - Second]
        ELSE [sec |-> X + Y, nsec |-> p + q]
  BY DEF TimespecAdd
<1>5. TimespecSubtract(x, y, Second) =
        IF p < q THEN [sec |-> X - 1 - Y, nsec |-> p + Second - q]
        ELSE [sec |-> X - Y, nsec |-> p - q]
  BY DEF TimespecSubtract
<1>6. AbsTimeout(x, y, Second) =
        IF p + q > Second THEN [sec |-> X + Y + 1, nsec |-> (p + q) - Second]
        ELSE [sec |-> X + Y, nsec |-> p + q]
  BY DEF AbsTimeout
<1>7. \A s, n : Nanoseconds([sec |-> s, nsec |-> n], Second) = s * Second + n
  BY DEF Nanoseconds
<1>8. /\ Nanoseconds(x, Second) = X * Second + p
      /\ Nanoseconds(y, Second) = Y * Second + q
  BY DEF Nanoseconds
<1>9. \A s, n : TimespecPositive([sec |-> s, nsec |-> n])
                  <=> s > 0 \/ (s = 0 /\ n > 0)
  BY DEF TimespecPositive
<1>. HIDE DEF X, Y, p, q
<1>10. TimespecAdd(x, y, Second).nsec \in 0 .. Second - 1
  <2>1. CASE p + q >= Second
    BY <1>2, <1>3, <1>4, <1>7, <1>8, <2>1
  <2>2. CASE ~(p + q >= Second)
    BY <1>2, <1>3, <1>4, <1>7, <1>8, <2>2
  <2>. QED
    BY <2>1, <2>2
<1>11. /\ AbsTimeout(x, y, Second).nsec \in 0 .. Second - 1 \/ p + q = Second
       /\ Nanoseconds(AbsTimeout(x, y, Second), Second)
            = Nanoseconds(x, Second) + Nanoseconds(y, Second)
  <2>1. CASE p + q > Second
    BY <1>2, <1>3, <1>6, <1>7, <1>8, <2>1
  <2>2. CASE ~(p + q > Second)
    BY <1>2, <1>3, <1>6, <1>7, <1>8, <2>2
  <2>. QED
    BY <2>1, <2>2
<1>12. TimespecSubtract(x, y, Second).nsec \in 0 .. Second - 1
  <2>1. CASE p < q
    BY <1>2, <1>3, <1>5, <1>7, <1>8, <2>1
  <2>2. CASE ~(p < q)
    BY <1>2, <1>3, <1>5, <1>7, <1>8, <2>2
  <2>. QED
    BY <2>1, <2>2
<1>13. TimespecPositive(TimespecSubtract(x, y, Second))
         <=> Nanoseconds(x, Second) > Nanoseconds(y, Second)
  <2>. DEFINE D == X - Y
  <2>0. D \in {-2, -1, 0, 1, 2} /\ X * Second - Y * Second = D * Second
    BY <1>2, <1>3
  <2>1. /\ Nanoseconds(x, Second) - Nanoseconds(y, Second) = D * Second + p - q
        /\ Nanoseconds(x, Second) \in Int /\ Nanoseconds(y, Second) \in Int
    BY <1>2, <1>3, <1>8, <2>0
  <2>2. D * Second + p - q > 0 <=> (IF p < q THEN D > 1 \/ (D = 1 /\ p + Second - q > 0)
                                    ELSE D > 0 \/ (D = 0 /\ p - q > 0))
    BY <1>2, <2>0
  <2>3. TimespecPositive(TimespecSubtract(x, y, Second)) <=>
          (IF p < q THEN D > 1 \/ (D = 1 /\ p + Second - q > 0)
           ELSE D > 0 \/ (D = 0 /\ p - q > 0))
    <3>1. CASE p < q
      BY <1>2, <1>5, <1>9, <3>1
    <3>2. CASE ~(p < q)
      BY <1>2, <1>5, <1>9, <3>2
    <3>. QED
      BY <3>1, <3>2
  <2>. QED
    BY <2>1, <2>2, <2>3
<1>. QED
  BY <1>10, <1>11, <1>12, <1>13 DEF Normal, p, q

\* The arithmetic of struct timespec, for any number of nanoseconds in a second.
THEOREM TimespecArithmetic == \A Second \in Nat \ {0} : TimespecsExact(Second)
<1>. SUFFICES ASSUME NEW Second \in Nat \ {0}, NEW x \in Unchecked(Second),
                     NEW y \in Timespec(Second), x.nsec < Second
              PROVE  Normal(x, y, Second)
  BY UncheckedTotals DEF TimespecsExact
<1>1. x \in Timespec(Second)
  <2>1. x \in [sec : 0 .. 2, nsec : 0 .. 3 * Second]
    BY DEF Unchecked
  <2>2. x = [sec |-> x.sec, nsec |-> x.nsec] /\ x.sec \in 0 .. 2 /\ x.nsec \in 0 .. Second - 1
    BY <2>1
  <2>. QED
    BY <2>2 DEF Timespec
<1>. QED
  BY <1>1, NormalTimes

-----------------------------------------------------------------------------
(* The kernel log *)

Bytes == LogThreads \cup {"nl"}

\* No two neighbours are of two threads, and the last byte ends a line.
Whole(b) ==
  /\ \A i \in 1 .. Len(b) - 1 : b[i] # "nl" /\ b[i + 1] # "nl" => b[i] = b[i + 1]
  /\ Len(b) > 0 => b[Len(b)] = "nl"

\* The log is a whole number of lines but for its beginning, and byte k of it is
\* the one k - 1 places behind log_head.
RingTypes ==
  /\ head \in Nat /\ head < Cap /\ size \in Nat /\ size <= Cap
  /\ mem \in [0 .. Cap - 1 -> Bytes \cup {"zero"}]
  /\ log \in Seq(Bytes) /\ Len(log) = size

RingHolds == \A k \in 1 .. size : mem[(head + (k - 1)) % Cap] = log[k]

\* A thread's buffer holds its own bytes, without a newline.
LineTypes ==
  /\ DOMAIN line = LogThreads
  /\ \A t \in LogThreads :
       /\ line[t] \in Seq(Bytes) /\ Len(line[t]) <= MaxLine
       /\ \A i \in 1 .. Len(line[t]) : line[t][i] = t

LogInv == RingTypes /\ RingHolds /\ LineTypes /\ Whole(log)

\* Remainders of numbers below three times the divisor.
LEMMA Wrapped ==
  \A x \in Nat, c \in Nat \ {0} : x < 3 * c =>
    x % c = IF x < c THEN x ELSE IF x < 2 * c THEN x - c ELSE x - 2 * c
OBVIOUS

\* Places less than the array's length apart are different.
LEMMA PlacesDiffer ==
  \A x, y \in Nat, c \in Nat \ {0} : x < y /\ y < x + c /\ y < 3 * c => x % c # y % c
<1>. SUFFICES ASSUME NEW x \in Nat, NEW y \in Nat, NEW c \in Nat \ {0},
                     x < y, y < x + c, y < 3 * c
              PROVE  x % c # y % c
  OBVIOUS
<1>1. x < 3 * c
  OBVIOUS
<1>2. x % c = IF x < c THEN x ELSE IF x < 2 * c THEN x - c ELSE x - 2 * c
  BY <1>1, Wrapped
<1>3. y % c = IF y < c THEN y ELSE IF y < 2 * c THEN y - c ELSE y - 2 * c
  BY Wrapped
<1>. QED
  BY <1>2, <1>3

\* Wrapping head first makes no difference.
LEMMA PlaceWrapped ==
  \A h, k \in Nat, c \in Nat \ {0} : h < 2 * c /\ k < c => ((h % c) + k) % c = (h + k) % c
<1>. SUFFICES ASSUME NEW h \in Nat, NEW k \in Nat, NEW c \in Nat \ {0}, h < 2 * c, k < c
              PROVE  ((h % c) + k) % c = (h + k) % c
  OBVIOUS
<1>1. h < 3 * c /\ h + k \in Nat /\ h + k < 3 * c
  OBVIOUS
<1>2. h % c = IF h < c THEN h ELSE IF h < 2 * c THEN h - c ELSE h - 2 * c
  BY <1>1, Wrapped
<1>3. PICK w \in Nat : w = h % c /\ w < c /\ w = IF h < c THEN h ELSE h - c
  BY <1>2
<1>4. w + k \in Nat /\ w + k < 3 * c
  BY <1>3
<1>5. (w + k) % c = IF w + k < c THEN w + k ELSE IF w + k < 2 * c THEN (w + k) - c
                    ELSE (w + k) - 2 * c
  BY <1>4, Wrapped
<1>6. (h + k) % c = IF h + k < c THEN h + k ELSE IF h + k < 2 * c THEN (h + k) - c
                    ELSE (h + k) - 2 * c
  BY <1>1, Wrapped
<1>7. (w + k) % c = (h + k) % c
  BY <1>3, <1>5, <1>6
<1>. QED
  BY <1>3, <1>7

\* What a sequence keeps when it loses its first d elements.
Suffix(r, all, d) ==
  /\ d \in 0 .. Len(all) /\ r \in Seq(Bytes) /\ Len(r) = Len(all) - d
  /\ \A k \in 1 .. Len(r) : r[k] = all[d + k]

\* The end of a sequence as SubSeq cuts it off.
LEMMA SubSeqIsSuffix ==
  \A all \in Seq(Bytes), d \in Nat : d <= Len(all) =>
    Suffix(SubSeq(all, d + 1, Len(all)), all, d)
<1>. SUFFICES ASSUME NEW all \in Seq(Bytes), NEW d \in Nat, d <= Len(all)
              PROVE  Suffix(SubSeq(all, d + 1, Len(all)), all, d)
  OBVIOUS
<1>. DEFINE n == Len(all) - d
            r == SubSeq(all, d + 1, Len(all))
<1>1. n \in Nat /\ Len(all) \in Nat
  OBVIOUS
<1>2. Len(r) = n /\ \A i \in 1 .. n : r[i] = all[d + i]
  OBVIOUS
<1>3. \A i \in 1 .. n : d + i \in 1 .. Len(all) /\ all[d + i] \in Bytes
  BY <1>1
<1>. HIDE DEF n, r
<1>3a. \A i \in d + 1 .. Len(all) : all[i] \in Bytes
  BY <1>1
<1>3b. SubSeq(all, d + 1, Len(all)) \in Seq(Bytes)
  BY <1>1, <1>3a, SubSeqProperties, Z3T(30)
<1>4. r \in Seq(Bytes) /\ Len(r) = n /\ \A i \in 1 .. n : r[i] = all[d + i]
  BY <1>2, <1>3b DEF r
<1>5. d \in 0 .. Len(all)
  BY <1>1
<1>. QED
  BY <1>4, <1>5 DEF Suffix, n, r

\* Whole lines stay whole when the oldest bytes go.
LEMMA WholeSuffix ==
  \A r, all, d : all \in Seq(Bytes) /\ Suffix(r, all, d) /\ Whole(all) => Whole(r)
<1>. SUFFICES ASSUME NEW r, NEW all, NEW d, all \in Seq(Bytes), Suffix(r, all, d), Whole(all)
              PROVE  Whole(r)
  OBVIOUS
<1>1. /\ Len(all) \in Nat /\ d \in Nat /\ d <= Len(all) /\ Len(r) = Len(all) - d
      /\ \A k \in 1 .. Len(r) : r[k] = all[d + k]
  BY DEF Suffix
<1>2. ASSUME NEW i \in 1 .. Len(r) - 1, r[i] # "nl", r[i + 1] # "nl" PROVE r[i] = r[i + 1]
  <2>1. /\ i \in 1 .. Len(r) /\ i + 1 \in 1 .. Len(r) /\ d + i \in 1 .. Len(all) - 1
        /\ d + (i + 1) = (d + i) + 1
    BY <1>1
  <2>2. r[i] = all[d + i] /\ r[i + 1] = all[(d + i) + 1]
    BY <1>1, <2>1
  <2>. QED
    BY <1>2, <2>1, <2>2 DEF Whole
<1>3. ASSUME Len(r) > 0 PROVE r[Len(r)] = "nl"
  <2>1. Len(r) \in 1 .. Len(r) /\ d + Len(r) = Len(all) /\ Len(all) > 0
    BY <1>1, <1>3
  <2>. QED
    BY <1>1, <2>1 DEF Whole
<1>. QED
  BY <1>2, <1>3 DEF Whole

\* log_buf_append puts the new bytes behind the old ones, and nothing else in
\* the places of those that stay.
LEMMA AppendKeepsRing ==
  ASSUME RingTypes, RingHolds, NEW b \in Seq(Bytes), Len(b) <= Cap,
         LogBufAppend(b)
  PROVE  RingTypes' /\ RingHolds' /\ \E d \in Nat : Suffix(log', log \o b, d)
<1>. DEFINE n == Len(b)
            all == log \o b
            N == size + n
            d == IF N > Cap THEN N - Cap ELSE 0
            ks(i) == {k \in 1 .. n : (head + size + k - 1) % Cap = i}
<1>1. /\ Cap \in Nat \ {0} /\ head \in Nat /\ head < Cap /\ size \in Nat /\ size <= Cap
      /\ n \in Nat /\ n <= Cap /\ N \in Nat /\ d \in Nat /\ d <= N /\ d <= Cap /\ N - d <= Cap
  BY LogAssumption DEF RingTypes
<1>2. /\ all \in Seq(Bytes) /\ Len(all) = N
      /\ \A m \in 1 .. N : all[m] = IF m <= size THEN log[m] ELSE b[m - size]
  <2>1. log \in Seq(Bytes) /\ Len(log) = size
    BY DEF RingTypes
  <2>. QED
    BY <2>1, ConcatProperties
<1>3. /\ mem' = [i \in 0 .. Cap - 1 |->
                   IF ks(i) = {} THEN mem[i]
                   ELSE b[CHOOSE k \in ks(i) : \A j \in ks(i) : j <= k]]
      /\ size' = Lesser(size + n, Cap)
      /\ head' = IF size + n > Cap THEN (head + size + n - Cap) % Cap ELSE head
      /\ log' = SubSeq(all, 1 + Len(all) - Lesser(Len(all), Cap), Len(all))
  BY DEF LogBufAppend
<1>. HIDE DEF n, all
<1>4. size' = N - d /\ head' = (head + d) % Cap
  <2>1. size' = N - d
    BY <1>1, <1>3 DEF Lesser
  <2>2. CASE N > Cap
    <3>1. head + size + n - Cap = head + d
      BY <1>1, <2>2
    <3>. QED
      BY <1>3, <2>1, <2>2, <3>1
  <2>3. CASE ~(N > Cap)
    <3>1. head % Cap = head /\ d = 0 /\ head + d = head
      BY <1>1, <2>3
    <3>. QED
      BY <1>3, <2>1, <2>3, <3>1
  <2>. QED
    BY <2>2, <2>3
<1>5. Suffix(log', all, d)
  <2>1. 1 + Len(all) - Lesser(Len(all), Cap) = d + 1 /\ d <= Len(all)
    BY <1>1, <1>2 DEF Lesser
  <2>2. log' = SubSeq(all, d + 1, Len(all))
    BY <1>3, <2>1
  <2>. QED
    BY <1>1, <1>2, <2>1, <2>2, SubSeqIsSuffix
<1>6. ASSUME NEW m \in d + 1 .. N
      PROVE  mem'[(head + (m - 1)) % Cap] = all[m]
  <2>. DEFINE i == (head + (m - 1)) % Cap
  <2>1. i \in 0 .. Cap - 1 /\ m \in 1 .. N /\ m \in Nat
    BY <1>1
  <2>2. mem'[i] = IF ks(i) = {} THEN mem[i]
                  ELSE b[CHOOSE k \in ks(i) : \A j \in ks(i) : j <= k]
    BY <1>3, <2>1
  <2>3. CASE m <= size
    <3>1. ASSUME NEW k \in 1 .. n PROVE (head + size + k - 1) % Cap # i
      <4>. DEFINE x == head + (m - 1)
                  y == head + size + k - 1
      <4>1. /\ x \in Nat /\ y \in Nat /\ x < y /\ y < x + Cap /\ y < 3 * Cap
        BY <1>1, <2>1, <2>3, <3>1
      <4>. HIDE DEF x, y
      <4>2. x % Cap # y % Cap
        BY <1>1, <4>1, PlacesDiffer
      <4>. QED
        BY <4>2 DEF x, y
    <3>2. ks(i) = {}
      BY <3>1
    <3>3. mem'[i] = mem[i] /\ mem[i] = log[m]
      BY <2>1, <2>2, <2>3, <3>2, <1>1 DEF RingHolds
    <3>. QED
      BY <1>2, <2>1, <2>3, <3>3
  <2>4. CASE ~(m <= size)
    <3>. DEFINE k0 == m - size
    <3>1. k0 \in 1 .. n /\ head + size + k0 - 1 = head + (m - 1)
      BY <1>1, <2>1, <2>4
    <3>2. k0 \in ks(i)
      BY <3>1
    <3>3. ASSUME NEW k \in 1 .. n, k # k0 PROVE (head + size + k - 1) % Cap # i
      <4>. DEFINE x == head + size + k0 - 1
                  y == head + size + k - 1
      <4>1. /\ x \in Nat /\ y \in Nat /\ x # y /\ y < x + Cap /\ x < y + Cap
            /\ x < 3 * Cap /\ y < 3 * Cap
        BY <1>1, <3>1, <3>3
      <4>2. x % Cap = i
        BY <3>1
      <4>. HIDE DEF x, y, i
      <4>3. CASE x < y
        BY <1>1, <4>1, <4>2, <4>3, PlacesDiffer DEF y
      <4>4. CASE y < x
        BY <1>1, <4>1, <4>2, <4>4, PlacesDiffer DEF y
      <4>. QED
        BY <4>1, <4>3, <4>4
    <3>4. ks(i) = {k0}
      BY <3>1, <3>2, <3>3
    <3>. HIDE DEF i, k0, ks
    <3>5. (CHOOSE k \in ks(i) : \A j \in ks(i) : j <= k) = k0
      <4>1. k0 \in ks(i) /\ \A j \in ks(i) : j <= k0
        BY <3>1, <3>4
      <4>2. \A k \in ks(i) : k = k0
        BY <3>4
      <4>. QED
        BY <4>1, <4>2
    <3>6. mem'[i] = b[k0]
      BY <2>2, <3>4, <3>5
    <3>. QED
      BY <1>2, <2>1, <2>4, <3>6 DEF k0, i
  <2>. QED
    BY <2>3, <2>4
<1>7. mem' \in [0 .. Cap - 1 -> Bytes \cup {"zero"}]
  <2>1. ASSUME NEW i \in 0 .. Cap - 1
        PROVE  (IF ks(i) = {} THEN mem[i]
                ELSE b[CHOOSE k \in ks(i) : \A j \in ks(i) : j <= k]) \in Bytes \cup {"zero"}
    <3>1. CASE ks(i) = {}
      BY <3>1 DEF RingTypes
    <3>2. CASE ks(i) # {}
      <4>1. PICK k1 \in ks(i) : TRUE
        BY <3>2
      <4>2. \E k \in ks(i) : \A j \in ks(i) : j <= k
        <5>1. k1 \in 1 .. n /\ (head + size + k1 - 1) % Cap = i
          BY <4>1
        <5>2. \A j \in ks(i) : j = k1
          <6>1. SUFFICES ASSUME NEW j \in 1 .. n, (head + size + j - 1) % Cap = i, j # k1
                         PROVE  FALSE
            OBVIOUS
          <6>. DEFINE x == head + size + k1 - 1
                      y == head + size + j - 1
          <6>2. /\ x \in Nat /\ y \in Nat /\ x # y /\ y < x + Cap /\ x < y + Cap
                /\ x < 3 * Cap /\ y < 3 * Cap
            BY <1>1, <5>1, <6>1
          <6>3. x % Cap = y % Cap
            BY <5>1, <6>1
          <6>. HIDE DEF x, y
          <6>4. ~(x < y) /\ ~(y < x)
            BY <1>1, <6>2, <6>3, PlacesDiffer
          <6>. QED
            BY <6>2, <6>4
        <5>. QED
          BY <4>1, <5>1, <5>2
      <4>3. (CHOOSE k \in ks(i) : \A j \in ks(i) : j <= k) \in 1 .. n
        BY <4>2
      <4>4. \A k \in 1 .. n : b[k] \in Bytes
        BY DEF n
      <4>. HIDE DEF ks
      <4>. QED
        BY <3>2, <4>3, <4>4
    <3>. QED
      BY <3>1, <3>2
  <2>. HIDE DEF ks
  <2>. QED
    BY <1>3, <2>1
<1>. HIDE DEF N, d
<1>8. RingTypes'
  <2>1. head' \in Nat /\ head' < Cap
    BY <1>1, <1>4
  <2>2. size' \in Nat /\ size' <= Cap /\ log' \in Seq(Bytes) /\ Len(log') = size'
    BY <1>1, <1>2, <1>4, <1>5 DEF Suffix
  <2>. QED
    BY <1>7, <2>1, <2>2 DEF RingTypes
<1>9. RingHolds'
  <2>1. SUFFICES ASSUME NEW k \in 1 .. size'
                 PROVE  mem'[(head' + (k - 1)) % Cap] = log'[k]
    BY DEF RingHolds
  <2>2. /\ k \in Nat /\ k - 1 \in Nat /\ k - 1 < Cap /\ head + d \in Nat /\ head + d < 2 * Cap
        /\ d + k \in d + 1 .. N /\ k \in 1 .. Len(log')
    <3>1. Len(log') = N - d /\ size' = N - d
      BY <1>2, <1>4, <1>5 DEF Suffix
    <3>2. k \in Nat /\ 1 <= k /\ k <= N - d
      BY <1>1, <2>1, <3>1
    <3>. QED
      BY <1>1, <3>1, <3>2
  <2>3. (((head + d) % Cap) + (k - 1)) % Cap = ((head + d) + (k - 1)) % Cap
    BY <1>1, <2>2, PlaceWrapped
  <2>4. (head + d) + (k - 1) = head + ((d + k) - 1)
    BY <1>1, <2>2
  <2>5. mem'[(head + ((d + k) - 1)) % Cap] = all[d + k]
    BY <1>6, <2>2
  <2>. QED
    BY <1>4, <1>5, <2>2, <2>3, <2>4, <2>5 DEF Suffix
<1>. QED
  BY <1>1, <1>5, <1>8, <1>9 DEF all

\* What one call of printk is given: at most MaxPiece bytes.
LEMMA PieceTypes ==
  \A S : \A n \in 0 .. MaxPiece : \A msg \in [1 .. n -> S] :
    msg \in Seq(S) /\ Len(msg) <= MaxPiece
<1>. SUFFICES ASSUME NEW S, NEW n \in 0 .. MaxPiece, NEW msg \in [1 .. n -> S]
              PROVE  msg \in Seq(S) /\ Len(msg) <= MaxPiece
  OBVIOUS
<1>1. n \in Nat /\ msg \in Seq(S)
  OBVIOUS
<1>2. Len(msg) = n
  BY <1>1
<1>. QED
  BY <1>1, <1>2

\* Whole lines behind whole lines are whole lines.
LEMMA WholeConcat ==
  \A a, b \in Seq(Bytes) : Whole(a) /\ Whole(b) => Whole(a \o b)
<1>. SUFFICES ASSUME NEW a \in Seq(Bytes), NEW b \in Seq(Bytes), Whole(a), Whole(b)
              PROVE  Whole(a \o b)
  OBVIOUS
<1>. DEFINE all == a \o b
<1>1. /\ all \in Seq(Bytes) /\ Len(all) = Len(a) + Len(b)
      /\ Len(a) \in Nat /\ Len(b) \in Nat
      /\ \A m \in 1 .. Len(a) + Len(b) :
            all[m] = IF m <= Len(a) THEN a[m] ELSE b[m - Len(a)]
  BY ConcatProperties
<1>. HIDE DEF all
<1>2. ASSUME NEW i \in 1 .. Len(all) - 1, all[i] # "nl", all[i + 1] # "nl"
      PROVE  all[i] = all[i + 1]
  <2>1. CASE i < Len(a)
    <3>1. all[i] = a[i] /\ all[i + 1] = a[i + 1] /\ i \in 1 .. Len(a) - 1
      BY <1>1, <2>1
    <3>. QED
      BY <1>2, <3>1 DEF Whole
  <2>2. CASE i = Len(a)
    <3>1. all[i] = "nl"
      BY <1>1, <2>2 DEF Whole
    <3>. QED
      BY <1>2, <3>1
  <2>3. CASE i > Len(a)
    <3>1. /\ all[i] = b[i - Len(a)] /\ all[i + 1] = b[(i - Len(a)) + 1]
          /\ i - Len(a) \in 1 .. Len(b) - 1
      <4>1. (i + 1) - Len(a) = (i - Len(a)) + 1 /\ i \in 1 .. Len(a) + Len(b)
            /\ i + 1 \in 1 .. Len(a) + Len(b) /\ ~(i <= Len(a)) /\ ~(i + 1 <= Len(a))
        BY <1>1, <2>3
      <4>2. i - Len(a) \in 1 .. Len(b) - 1
        BY <1>1, <2>3
      <4>. QED
        BY <1>1, <4>1, <4>2
    <3>. QED
      BY <1>2, <3>1 DEF Whole
  <2>. QED
    BY <1>1, <2>1, <2>2, <2>3
<1>3. ASSUME Len(all) > 0 PROVE all[Len(all)] = "nl"
  <2>1. CASE Len(b) = 0
    BY <1>1, <1>3, <2>1 DEF Whole
  <2>2. CASE Len(b) > 0
    BY <1>1, <2>2 DEF Whole
  <2>. QED
    BY <1>1, <2>1, <2>2
<1>. QED
  BY <1>2, <1>3 DEF Whole, all

\* printk keeps lines of threads apart in the log, and the rest of a line in the
\* buffer of its thread.
LEMMA PrintkKeepsInv ==
  ASSUME LogInv, NEW t \in LogThreads,
         NEW n \in 0 .. MaxPiece, NEW msg \in [1 .. n -> {t, "nl"}], Printk(t, msg)
  PROVE  LogInv'
<1>. DEFINE buf == line[t] \o msg
            T == {t, "nl"}
<1>1. /\ msg \in Seq(T) /\ Len(msg) <= MaxPiece
      /\ line[t] \in Seq(T) /\ Len(line[t]) <= MaxLine
  <2>1. line[t] \in Seq(Bytes) /\ Len(line[t]) <= MaxLine
        /\ \A i \in 1 .. Len(line[t]) : line[t][i] = t
    BY DEF LogInv, LineTypes
  <2>2. line[t] \in Seq({t, "nl"})
    BY <2>1
  <2>. QED
    BY <2>1, <2>2, PieceTypes
<1>2. /\ buf \in Seq(T) /\ Len(buf) \in Nat /\ Len(buf) <= Cap
  <2>1. buf \in Seq(T) /\ Len(buf) = Len(line[t]) + Len(msg)
    BY <1>1, ConcatProperties
  <2>2. Len(buf) \in Nat /\ Len(line[t]) \in Nat /\ Len(msg) \in Nat
    BY <1>1, <2>1
  <2>. QED
    BY <1>1, <2>1, <2>2, LogAssumption
<1>3. PICK out \in 0 .. Len(buf) :
        /\ out > 0 => buf[out] = "nl"
        /\ \A i \in out + 1 .. Len(buf) : buf[i] # "nl"
        /\ Len(buf) - out <= MaxLine
        /\ LogBufAppend(SubSeq(buf, 1, out))
        /\ line' = [line EXCEPT ![t] = SubSeq(buf, out + 1, Len(buf))]
  BY DEF Printk
<1>. HIDE DEF buf
<1>. DEFINE o == SubSeq(buf, 1, out)
            r == SubSeq(buf, out + 1, Len(buf))
<1>4. o \in Seq(Bytes) /\ Len(o) = out /\ \A i \in 1 .. out : o[i] = buf[i] /\ buf[i] \in T
  <2>1. \A i \in 1 .. out : buf[i] \in T
    BY <1>2
  <2>2. o \in Seq(T) /\ Len(o) = out
    BY <1>2, <2>1, SubSeqProperties, Z3T(30)
  <2>3. \A i \in 1 .. out : o[i] = buf[i]
    BY <1>2
  <2>4. o \in Seq(Bytes)
    <3>1. T \subseteq Bytes
      BY DEF Bytes
    <3>. HIDE DEF o, T
    <3>. QED
      BY <2>2, <3>1
  <2>. QED
    BY <2>1, <2>2, <2>3, <2>4
<1>5. r \in Seq(Bytes) /\ Len(r) <= MaxLine /\ \A i \in 1 .. Len(r) : r[i] = t
  <2>1. buf \in Seq(Bytes)
    <3>1. T \subseteq Bytes
      BY DEF Bytes
    <3>. HIDE DEF T
    <3>. QED
      BY <1>2, <3>1
  <2>2. Suffix(r, buf, out)
    BY <1>2, <2>1, SubSeqIsSuffix
  <2>. HIDE DEF r
  <2>3. r \in Seq(Bytes) /\ Len(r) = Len(buf) - out /\ \A k \in 1 .. Len(r) : r[k] = buf[out + k]
    BY <2>2 DEF Suffix
  <2>4. ASSUME NEW k \in 1 .. Len(r) PROVE r[k] = t
    <3>1. out + k \in out + 1 .. Len(buf) /\ out + k \in 1 .. Len(buf)
      BY <1>2, <2>3
    <3>2. buf[out + k] \in T /\ buf[out + k] # "nl"
      BY <1>2, <1>3, <3>1
    <3>. QED
      BY <2>3, <3>2
  <2>. QED
    BY <1>3, <2>3, <2>4
<1>6. Whole(o)
  <2>. HIDE DEF o
  <2>. QED
    BY <1>2, <1>3, <1>4 DEF Whole
<1>7. line' = [line EXCEPT ![t] = r] /\ LogBufAppend(o)
  BY <1>3
<1>. HIDE DEF o, r, T
<1>8. RingTypes' /\ RingHolds' /\ \E d \in Nat : Suffix(log', log \o o, d)
  <2>1. Len(o) <= Cap
    BY <1>2, <1>4, LogAssumption
  <2>. QED
    BY <1>4, <1>7, <2>1, AppendKeepsRing DEF LogInv
<1>9. Whole(log')
  <2>1. log \in Seq(Bytes) /\ Whole(log)
    BY DEF LogInv, RingTypes
  <2>2. log \o o \in Seq(Bytes) /\ Whole(log \o o)
    BY <1>4, <1>6, <2>1, WholeConcat, ConcatProperties
  <2>. QED
    BY <1>8, <2>2, WholeSuffix
<1>10. LineTypes'
  <2>1. DOMAIN line = LogThreads
        /\ \A s \in LogThreads : /\ line[s] \in Seq(Bytes) /\ Len(line[s]) <= MaxLine
                                 /\ \A i \in 1 .. Len(line[s]) : line[s][i] = s
    BY DEF LogInv, LineTypes
  <2>2. DOMAIN line' = LogThreads /\ \A s \in LogThreads : line'[s] = IF s = t THEN r ELSE line[s]
    BY <1>7, <2>1
  <2>3. ASSUME NEW s \in LogThreads
        PROVE  /\ line'[s] \in Seq(Bytes) /\ Len(line'[s]) <= MaxLine
               /\ \A i \in 1 .. Len(line'[s]) : line'[s][i] = s
    BY <1>5, <2>1, <2>2
  <2>. QED
    BY <2>2, <2>3 DEF LineTypes
<1>11. Whole(log)'
  BY <1>9 DEF Whole
<1>. QED
  BY <1>8, <1>10, <1>11 DEF LogInv

\* What a call copies is no more than the log holds.
LEMMA ClipFits ==
  ASSUME RingTypes
  PROVE  \A len \in Int : Clip(len) \in 0 .. size /\ Clip(Clip(len)) = Clip(len)
BY DEF RingTypes, Clip, Lesser

\* SYSLOG_ACTION_READ drops the bytes it read from the beginning.
LEMMA ReadKeepsInv ==
  ASSUME LogInv, NEW len \in Int, SyslogActionRead(len)
  PROVE  LogInv'
<1>. DEFINE n == Clip(len)
<1>1. n \in 0 .. size
  BY ClipFits DEF LogInv
<1>2. /\ head' = (head + n) % Cap /\ size' = size - n
      /\ log' = SubSeq(log, n + 1, Len(log)) /\ mem' = mem /\ line' = line
  BY DEF SyslogActionRead
<1>. HIDE DEF n
<1>3. /\ Cap \in Nat \ {0} /\ head \in Nat /\ head < Cap /\ size \in Nat /\ size <= Cap
      /\ mem \in [0 .. Cap - 1 -> Bytes \cup {"zero"}]
      /\ log \in Seq(Bytes) /\ Len(log) = size /\ Whole(log)
  BY LogAssumption DEF LogInv, RingTypes
<1>4. Suffix(log', log, n)
  BY <1>1, <1>2, <1>3, SubSeqIsSuffix
<1>5. RingTypes'
  <2>1. head' \in Nat /\ head' < Cap
    BY <1>1, <1>2, <1>3
  <2>2. size' \in Nat /\ size' <= Cap /\ log' \in Seq(Bytes) /\ Len(log') = size'
    BY <1>1, <1>2, <1>3, <1>4 DEF Suffix
  <2>. QED
    BY <1>2, <1>3, <2>1, <2>2 DEF RingTypes
<1>6. RingHolds'
  <2>1. SUFFICES ASSUME NEW k \in 1 .. size'
                 PROVE  mem'[(head' + (k - 1)) % Cap] = log'[k]
    BY DEF RingHolds
  <2>2. /\ k \in Nat /\ k - 1 \in Nat /\ k - 1 < Cap /\ n \in Nat /\ head + n \in Nat
        /\ head + n < 2 * Cap /\ n + k \in 1 .. size /\ k \in 1 .. Len(log')
    <3>1. Len(log') = size - n /\ size' = size - n /\ n \in Nat /\ n <= size
      BY <1>1, <1>2, <1>3, <1>4 DEF Suffix
    <3>. QED
      BY <1>3, <2>1, <3>1
  <2>3. (((head + n) % Cap) + (k - 1)) % Cap = ((head + n) + (k - 1)) % Cap
    BY <1>3, <2>2, PlaceWrapped
  <2>4. (head + n) + (k - 1) = head + ((n + k) - 1)
    BY <1>3, <2>2
  <2>5. mem[(head + ((n + k) - 1)) % Cap] = log[n + k]
    BY <2>2 DEF LogInv, RingHolds
  <2>. QED
    BY <1>2, <1>4, <2>2, <2>3, <2>4, <2>5 DEF Suffix
<1>7. Whole(log')
  BY <1>3, <1>4, WholeSuffix
<1>8. Whole(log)' /\ LineTypes'
  BY <1>2, <1>7 DEF Whole, LineTypes, LogInv
<1>. QED
  BY <1>5, <1>6, <1>8 DEF LogInv

\* A cleared log is empty.
LEMMA ClearKeepsInv == ASSUME LogInv, SyslogClear PROVE LogInv'
<1>1. head' = 0 /\ size' = 0 /\ log' = <<>> /\ mem' = mem /\ line' = line
  BY DEF SyslogClear
<1>2. <<>> \in Seq(Bytes) /\ Len(<<>>) = 0
  OBVIOUS
<1>3. RingTypes' /\ RingHolds'
  BY <1>1, <1>2, LogAssumption DEF LogInv, RingTypes, RingHolds
<1>4. Whole(log)' /\ LineTypes'
  BY <1>1, <1>2 DEF Whole, LineTypes, LogInv
<1>. QED
  BY <1>3, <1>4 DEF LogInv

\* The log begins empty, and so does every thread's buffer.
LEMMA LogInitial == LogInit => LogInv
<1>. SUFFICES ASSUME LogInit PROVE LogInv
  OBVIOUS
<1>1. /\ mem = [i \in 0 .. Cap - 1 |-> "zero"] /\ head = 0 /\ size = 0
      /\ line = [t \in LogThreads |-> <<>>] /\ log = <<>>
  BY DEF LogInit
<1>2. <<>> \in Seq(Bytes) /\ Len(<<>>) = 0
  OBVIOUS
<1>3. RingTypes /\ RingHolds
  BY <1>1, <1>2, LogAssumption DEF RingTypes, RingHolds
<1>4. Whole(log)
  BY <1>1, <1>2 DEF Whole
<1>5. LineTypes
  BY <1>1, <1>2, LogAssumption DEF LineTypes
<1>. QED
  BY <1>3, <1>4, <1>5 DEF LogInv

\* A quotient and a remainder give the number back.
LEMMA Divided ==
  ASSUME NEW x \in Nat, NEW c \in Nat \ {0}
  PROVE  /\ x \div c \in Nat /\ x % c \in Nat /\ x % c < c
         /\ x = (x \div c) * c + (x % c)
<1>1. x \div c \in Nat /\ x % c \in Nat /\ x % c < c
  OBVIOUS
<1>2. PICK q \in Int : q = x \div c
  BY <1>1
<1>3. PICK r \in Int : r = x % c
  BY <1>1
<1>4. x \in Int /\ c \in Int /\ c > 0
  OBVIOUS
<1>5. x = q * c + r
  BY ONLY <1>2, <1>3, <1>4, q \in Int, r \in Int, Z3T(30)
<1>6. x = (x \div c) * c + (x % c)
  <2>1. q * c + r = (x \div c) * c + (x % c)
    BY <1>2, <1>3
  <2>. QED
    BY <1>5, <2>1
<1>. QED
  BY <1>1, <1>6

\* The places syslog_read copies from, chunk by chunk, are the next ones of the
\* ring.
LEMMA ReadPlace ==
  ASSUME NEW h \in Nat, NEW cap \in Nat, h < cap, NEW x \in Nat, x < cap
  PROVE  ((h + (x \div (cap - h)) * (cap - h)) % cap) + (x % (cap - h)) = (h + x) % cap
<1>. DEFINE c == cap - h
            q == x \div c
            r == x % c
<1>1. c \in Nat \ {0} /\ h = cap - c /\ cap \in Nat \ {0} /\ c <= cap
  OBVIOUS
<1>. HIDE DEF c
<1>2. q \in Nat /\ r \in Nat /\ r < c /\ x = q * c + r
  BY <1>1, Divided
<1>. HIDE DEF q, r
<1>3. q * c \in Nat /\ (q = 0 => q * c = 0) /\ (q > 0 => q * c >= c)
  BY <1>1, <1>2
<1>. DEFINE p == q * c
<1>4. p \in Nat /\ x = p + r /\ (q = 0 => p = 0) /\ (q > 0 => p >= c)
  BY <1>2, <1>3
<1>. HIDE DEF p
<1>5. CASE q = 0
  <2>1. h + p = h /\ h + x = h + r /\ h + r < cap /\ h + r \in Nat
    BY <1>1, <1>2, <1>4, <1>5
  <2>2. h % cap = h /\ (h + r) % cap = h + r
    BY <1>1, <2>1, Wrapped
  <2>3. ((h + p) % cap) + r = (h + x) % cap
    BY <2>1, <2>2
  <2>. QED
    BY <2>3 DEF p, q, r, c
<1>6. CASE q > 0
  <2>1. /\ h + p \in Nat /\ cap <= h + p /\ h + p < 2 * cap /\ (h + p) - cap = p - c
        /\ h + x \in Nat /\ cap <= h + x /\ h + x < 2 * cap
        /\ (h + x) - cap = (p - c) + r
    BY <1>1, <1>2, <1>4, <1>6
  <2>2. ASSUME NEW z \in Nat, cap <= z, z < 2 * cap PROVE z % cap = z - cap
    <3>1. z < 3 * cap
      BY <1>1, <2>2
    <3>2. z % cap = IF z < cap THEN z ELSE IF z < 2 * cap THEN z - cap ELSE z - 2 * cap
      BY <1>1, <3>1, Wrapped
    <3>. QED
      BY <1>1, <2>2, <3>2
  <2>3. ((h + p) % cap) + r = (h + x) % cap
    BY <2>1, <2>2
  <2>. QED
    BY <2>3 DEF p, q, r, c
<1>. QED
  BY <1>2, <1>5, <1>6

\* The invariant gives what the log promises.
LEMMA LogInvSound == ASSUME LogInv PROVE LogSound
<1>1. /\ Cap \in Nat \ {0} /\ head \in Nat /\ head < Cap /\ size \in Nat /\ size <= Cap
      /\ mem \in [0 .. Cap - 1 -> Bytes \cup {"zero"}]
      /\ log \in Seq(Bytes) /\ Len(log) = size /\ Whole(log)
  BY LogAssumption DEF LogInv, RingTypes
<1>2. \A k \in 1 .. size : mem[(head + (k - 1)) % Cap] = log[k]
  BY DEF LogInv, RingHolds
<1>3. LogTypeOK
  <2>1. \A t \in LogThreads : Len(line[t]) <= MaxLine
    BY DEF LogInv, LineTypes
  <2>2. Bytes \cup {"zero"} = LogThreads \cup {"nl", "zero"}
    BY DEF Bytes
  <2>. QED
    BY <1>1, <2>1, <2>2 DEF LogTypeOK
<1>4. Contents = log
  <2>1. Contents = [k \in 1 .. size |-> mem[(head + (k - 1)) % Cap]]
    BY <1>1 DEF Contents
  <2>2. Contents = [k \in 1 .. size |-> log[k]]
    BY <1>2, <2>1
  <2>3. log = [k \in 1 .. Len(log) |-> log[k]]
    BY <1>1
  <2>. QED
    BY <1>1, <2>2, <2>3
<1>5. RingIsLog
  BY <1>4 DEF RingIsLog
<1>6. LinesWhole
  BY <1>1, <1>4 DEF LinesWhole, Whole
<1>7. ASSUME NEW len \in Int
      PROVE  SyslogRead(len) = SubSeq(log, 1, Clip(len))
  <2>. DEFINE n == Clip(len)
              place(k) == ((head + ((k - 1) \div (Cap - head)) * (Cap - head)) % Cap)
                            + ((k - 1) % (Cap - head))
  <2>1. n \in 0 .. size
    BY ClipFits DEF LogInv
  <2>2. SyslogRead(len) = [k \in 1 .. n |-> IF place(k) < Cap THEN mem[place(k)] ELSE "past"]
    BY DEF SyslogRead
  <2>. HIDE DEF n
  <2>3. ASSUME NEW k \in 1 .. n
        PROVE  (IF place(k) < Cap THEN mem[place(k)] ELSE "past") = log[k]
    <3>1. k - 1 \in Nat /\ k - 1 < Cap /\ k \in 1 .. size
      BY <1>1, <2>1
    <3>2. place(k) = (head + (k - 1)) % Cap
      BY <1>1, <3>1, ReadPlace
    <3>3. (head + (k - 1)) % Cap < Cap
      BY <1>1, <3>1
    <3>. HIDE DEF place
    <3>. QED
      BY <1>2, <3>1, <3>2, <3>3
  <2>. HIDE DEF place
  <2>4. SyslogRead(len) = [k \in 1 .. n |-> log[k]]
    BY <2>2, <2>3
  <2>5. SubSeq(log, 1, n) = [k \in 1 .. n |-> log[k]]
    BY <1>1, <2>1
  <2>. QED
    BY <2>4, <2>5 DEF n
<1>8. SyslogReturnsLog
  <2>1. SUFFICES ASSUME NEW len \in -1 .. Cap + 1
                 PROVE  /\ SyslogRead(len) = SubSeq(log, 1, Clip(len))
                        /\ SyslogReadAll(len) = SubSeq(log, 1, Clip(len))
    BY DEF SyslogReturnsLog
  <2>2. len \in Int /\ Clip(len) \in Int /\ Clip(Clip(len)) = Clip(len)
    BY <1>1, <2>1, ClipFits DEF LogInv
  <2>. QED
    BY <1>7, <2>2 DEF SyslogReadAll
<1>. QED
  BY <1>3, <1>5, <1>6, <1>8 DEF LogSound

\* The kernel log, for any array, any threads and any lines that fit: it holds
\* the last bytes printed and not yet read, in order, across every wrap of the
\* array; READ and READ_ALL return its oldest bytes, and a line is one thread's
\* (kernel/log.c:31-55, 98-140).
THEOREM LogIsSound == LogSpec => []LogSound
<1>1. LogInit => LogInv
  BY LogInitial
<1>2. LogInv /\ [LogNext]_logVars => LogInv'
  <2>1. SUFFICES ASSUME LogInv, [LogNext]_logVars PROVE LogInv'
    OBVIOUS
  <2>2. ASSUME NEW t \in LogThreads, NEW n \in 0 .. MaxPiece,
               NEW msg \in [1 .. n -> {t, "nl"}], Printk(t, msg)
        PROVE  LogInv'
    BY <2>1, <2>2, PrintkKeepsInv
  <2>3. ASSUME NEW len \in -1 .. Cap + 1, SyslogActionRead(len) PROVE LogInv'
    <3>1. len \in Int
      BY LogAssumption
    <3>. QED
      BY <2>1, <2>3, <3>1, ReadKeepsInv
  <2>4. CASE SyslogClear
    BY <2>1, <2>4, ClearKeepsInv
  <2>5. CASE UNCHANGED logVars
    BY <2>1, <2>5 DEF logVars, LogInv, RingTypes, RingHolds, LineTypes, Whole
  <2>. QED
    BY <2>1, <2>2, <2>3, <2>4, <2>5 DEF LogNext
<1>3. LogInv => LogSound
  BY LogInvSound
<1>. QED
  BY <1>1, <1>2, <1>3, PTL DEF LogSpec

-----------------------------------------------------------------------------
(* Mounts *)

\* The uses that calls c make of mount m, and the times m occurs in s.
AllUses(c, m) ==
  {u \in Callers \X {1, 2} : u[2] \in DOMAIN c[u[1]].uses /\ c[u[1]].uses[u[2]] = m}
Times(s, m) == Cardinality({i \in DOMAIN s : s[i] = m})
\* The calls d are the calls c and one of t.
OneMore(c, d, t) ==
  /\ \A u \in Callers : u # t => d[u].uses = c[u].uses
  /\ c[t].uses = <<>> /\ d[t].uses \in Seq(Mounts) /\ Len(d[t].uses) <= 2

MountTypes ==
  /\ list \in Seq(Mounts) /\ age \in Seq(Mounts)
  /\ point \in [Mounts -> Points \cup {<<>>}]
  /\ refs \in [Mounts -> Nat] /\ opens \in [Mounts -> Nat]
  /\ DOMAIN mountCall = Callers

\* A call uses one mount or two, and one that opens a file uses one.
CallShape ==
  \A t \in Callers :
     /\ mountCall[t].uses \in Seq(Mounts) /\ Len(mountCall[t].uses) <= 2
     /\ mountCall[t].kind = "open" => Len(mountCall[t].uses) = 1

\* Every mount is in the list once.
Once(s) == \A i, j \in 1 .. Len(s) : s[i] = s[j] => i = j
ListedOnce == Once(list) /\ Once(age) /\ Members(age) = Members(list)

\* The root is never unmounted: the files of init are open on it.
RootStays == RootMount \in Members(list) /\ point[RootMount] = <<>> /\ opens[RootMount] >= 2

\* The list has the longer points first, and of the same length the younger.
Younger(a, b) == \E k, l \in 1 .. Len(age) : k > l /\ age[k] = a /\ age[l] = b
InOrder ==
  \A i, j \in 1 .. Len(list) : i < j =>
     \/ Len(point[list[i]]) > Len(point[list[j]])
     \/ Len(point[list[i]]) = Len(point[list[j]]) /\ Younger(list[i], list[j])

MountInv ==
  MountTypes /\ CallShape /\ ListedOnce /\ RootStays /\ InOrder /\ UsedMountsStay

\* A set of numbers has a least member.
LEMMA Least == \A T \in SUBSET Nat : T # {} => \E x \in T : \A y \in T : x <= y
<1>. SUFFICES ASSUME NEW T \in SUBSET Nat, T # {} PROVE \E x \in T : \A y \in T : x <= y
  OBVIOUS
<1>. DEFINE Less == {p \in Nat \X Nat : p[1] < p[2]}
<1>1. IsWellFoundedOn(Less, Nat)
  BY NatLessThanWellFounded DEF OpToRel
<1>2. PICK x \in T : \A y \in T : ~(<<y, x>> \in Less)
  BY <1>1, WFMin
<1>3. \A y \in T : ~(y < x)
  BY <1>2
<1>. QED
  BY <1>3

\* What InsertAt and RemoveAt put where.
LEMMA Inserted ==
  ASSUME NEW S, NEW s \in Seq(S), NEW e \in S, NEW i \in 1 .. Len(s)
  PROVE  /\ InsertAt(s, i, e) \in Seq(S) /\ Len(InsertAt(s, i, e)) = Len(s) + 1
         /\ \A j \in 1 .. Len(s) + 1 :
              InsertAt(s, i, e)[j] = IF j < i THEN s[j] ELSE IF j = i THEN e ELSE s[j - 1]
<1>. DEFINE r == InsertAt(s, i, e)
            front == SubSeq(s, 1, i - 1)
            mid == front \o <<e>>
            back == SubSeq(s, i, Len(s))
<1>1. front \in Seq(S) /\ Len(front) = i - 1 /\ \A j \in 1 .. i - 1 : front[j] = s[j]
  BY SubSeqProperties, LenProperties
<1>2. /\ back \in Seq(S) /\ Len(back) = Len(s) - i + 1
      /\ \A j \in 1 .. Len(s) - i + 1 : back[j] = s[j + i - 1]
  BY SubSeqProperties, LenProperties
<1>3. r = mid \o back
  BY DEF InsertAt
<1>4. /\ mid \in Seq(S) /\ Len(mid) = i
      /\ \A j \in 1 .. i : mid[j] = IF j < i THEN s[j] ELSE e
  <2>1. <<e>> \in Seq(S) /\ Len(<<e>>) = 1 /\ <<e>>[1] = e
    OBVIOUS
  <2>. HIDE DEF front
  <2>. QED
    BY <1>1, <2>1, ConcatProperties
<1>. HIDE DEF r, front, mid, back
<1>5. r \in Seq(S) /\ Len(r) = Len(s) + 1
  <2>1. r \in Seq(S) /\ Len(r) = Len(mid) + Len(back)
    BY <1>2, <1>3, <1>4, ConcatProperties
  <2>. QED
    BY <1>2, <1>4, <2>1, LenProperties
<1>6. ASSUME NEW j \in 1 .. Len(s) + 1
      PROVE  r[j] = IF j < i THEN s[j] ELSE IF j = i THEN e ELSE s[j - 1]
  <2>1. r[j] = IF j <= Len(mid) THEN mid[j] ELSE back[j - Len(mid)]
    BY <1>2, <1>3, <1>4, <1>5, ConcatProperties
  <2>. QED
    BY <2>1, <1>2, <1>4
<1>. QED
  BY <1>5, <1>6 DEF r

LEMMA Removed ==
  ASSUME NEW S, NEW s \in Seq(S), NEW i \in 1 .. Len(s)
  PROVE  /\ RemoveAt(s, i) \in Seq(S) /\ Len(RemoveAt(s, i)) = Len(s) - 1
         /\ \A j \in 1 .. Len(s) - 1 :
              RemoveAt(s, i)[j] = IF j < i THEN s[j] ELSE s[j + 1]
<1>. DEFINE r == RemoveAt(s, i)
            front == SubSeq(s, 1, i - 1)
            back == SubSeq(s, i + 1, Len(s))
<1>1. front \in Seq(S) /\ Len(front) = i - 1 /\ \A j \in 1 .. i - 1 : front[j] = s[j]
  BY SubSeqProperties, LenProperties
<1>2. back \in Seq(S) /\ Len(back) = Len(s) - i /\ \A j \in 1 .. Len(s) - i : back[j] = s[j + i]
  BY SubSeqProperties, LenProperties
<1>3. r = front \o back
  BY DEF RemoveAt
<1>. HIDE DEF r, front, back
<1>4. r \in Seq(S) /\ Len(r) = Len(s) - 1
  <2>1. r \in Seq(S) /\ Len(r) = Len(front) + Len(back)
    BY <1>1, <1>2, <1>3, ConcatProperties
  <2>. QED
    BY <1>1, <1>2, <2>1, LenProperties
<1>5. ASSUME NEW j \in 1 .. Len(s) - 1
      PROVE  r[j] = IF j < i THEN s[j] ELSE s[j + 1]
  <2>1. r[j] = IF j <= Len(front) THEN front[j] ELSE back[j - Len(front)]
    BY <1>1, <1>2, <1>3, ConcatProperties
  <2>. QED
    BY <2>1, <1>1, <1>2
<1>. QED
  BY <1>4, <1>5 DEF r

LEMMA MemberIs ==
  ASSUME NEW S, NEW s \in Seq(S), NEW e
  PROVE  e \in Members(s) <=> \E i \in 1 .. Len(s) : s[i] = e
BY LenProperties DEF Members

\* The uses of a mount are finitely many.
LEMMA UsesAreNumbers ==
  /\ IsFiniteSet({1, 2})
  /\ \A c, m : IsFiniteSet(AllUses(c, m)) /\ Cardinality(AllUses(c, m)) \in Nat
<1>1. IsFiniteSet({1, 2})
  <2>1. {1, 2} = {1} \cup {2}
    OBVIOUS
  <2>2. IsFiniteSet({1} \cup {2})
    BY FS_Singleton, FS_AddElement
  <2>. QED
    BY <2>1, <2>2
<1>2. IsFiniteSet(Callers \X {1, 2})
  BY <1>1, MountsAssumption, FS_Product
<1>3. \A c, m : AllUses(c, m) \subseteq Callers \X {1, 2}
  BY DEF AllUses
<1>. QED
  BY <1>1, <1>2, <1>3, FS_Subset, FS_CardinalityType

\* That call adds its uses.
LEMMA UsesAdd ==
  ASSUME NEW c, NEW d, NEW t \in Callers, OneMore(c, d, t), NEW m
  PROVE  \E n, k \in Nat : /\ n = Cardinality(AllUses(c, m)) /\ k = Times(d[t].uses, m)
                           /\ Cardinality(AllUses(d, m)) = n + k
<1>0. /\ \A u \in Callers : u # t => d[u].uses = c[u].uses
      /\ c[t].uses = <<>> /\ d[t].uses \in Seq(Mounts) /\ Len(d[t].uses) <= 2
  BY DEF OneMore
<1>. DEFINE s == d[t].uses
            I == {i \in DOMAIN s : s[i] = m}
            T == {<<t, i>> : i \in I}
            f == [i \in I |-> <<t, i>>]
<1>1. I \subseteq {1, 2}
  BY <1>0, LenProperties
<1>2. IsFiniteSet(I) /\ Cardinality(I) \in Nat
  BY <1>1, UsesAreNumbers, FS_Subset, FS_CardinalityType
<1>3. IsFiniteSet(AllUses(c, m)) /\ Cardinality(AllUses(c, m)) \in Nat
  BY UsesAreNumbers
<1>4. IsFiniteSet(T) /\ Cardinality(T) = Cardinality(I)
  <2>1. f \in Bijection(I, T)
    <3>1. f \in [I -> T] /\ \A i, j \in I : f[i] = f[j] => i = j
      OBVIOUS
    <3>2. \A u \in T : \E i \in I : f[i] = u
      OBVIOUS
    <3>. QED
      BY <3>1, <3>2, Fun_IsBij
  <2>. QED
    BY <1>2, <2>1, FS_Bijection DEF ExistsBijection
<1>5. AllUses(d, m) = AllUses(c, m) \cup T
  <2>1. ASSUME NEW u \in Callers \X {1, 2}
        PROVE  u \in AllUses(d, m) <=> u \in AllUses(c, m) \/ u \in T
    <3>1. CASE u[1] = t
      <4>1. u \notin AllUses(c, m)
        BY <1>0, <3>1 DEF AllUses
      <4>2. u \in T <=> u[2] \in I
        BY <3>1
      <4>. QED
        BY <1>0, <3>1, <4>1, <4>2 DEF AllUses
    <3>2. CASE u[1] # t
      BY <1>0, <3>2 DEF AllUses
    <3>. QED
      BY <3>1, <3>2
  <2>2. T \subseteq Callers \X {1, 2}
    BY <1>1
  <2>. QED
    BY <2>1, <2>2 DEF AllUses
<1>6. AllUses(c, m) \cap T = {}
  BY <1>0 DEF AllUses
<1>7. Times(s, m) = Cardinality(I)
  BY DEF Times
<1>8. Cardinality(AllUses(d, m)) = Cardinality(AllUses(c, m)) + Cardinality(T) - 0
  BY <1>3, <1>4, <1>5, <1>6, FS_Union, FS_EmptySet
<1>. HIDE DEF s, I, T, f
<1>9. Cardinality(AllUses(d, m)) = Cardinality(AllUses(c, m)) + Times(s, m)
  BY <1>2, <1>3, <1>4, <1>7, <1>8
<1>. QED
  BY <1>2, <1>3, <1>7, <1>9 DEF s

\* UsedMountsStay, with the uses named.
LEMMA UsedMounts ==
  UsedMountsStay <=>
    \A m \in Mounts :
       LET used == opens[m] + Cardinality(AllUses(mountCall, m))
       IN (used > 0 => m \in Members(list)) /\ (m \in Members(list) => refs[m] = used)
BY DEF UsedMountsStay, AllUses

\* mount_find answers with the first mount that covers the path: the root covers
\* every path.
LEMMA MountFindFinds ==
  ASSUME MountTypes, RootStays, NEW path \in Paths
  PROVE  \E f \in 1 .. Len(list) :
           /\ MountFind(path) = list[f] /\ Covers(list[f], path)
           /\ \A j \in 1 .. f - 1 : ~Covers(list[j], path)
<1>. DEFINE C == {i \in 1 .. Len(list) : Covers(list[i], path)}
<1>0. DOMAIN list = 1 .. Len(list) /\ Len(list) \in Nat
  BY LenProperties DEF MountTypes
<1>1. C # {}
  <2>1. PICK i \in 1 .. Len(list) : list[i] = RootMount
    BY <1>0 DEF RootStays, Members
  <2>2. path \in Seq(STRING)
    BY MountsAssumption
  <2>3. IsPrefix(<<>>, path)
    BY <2>2 DEF IsPrefix
  <2>. QED
    BY <2>1, <2>3 DEF Covers, RootStays
<1>2. C \in SUBSET Nat
  BY <1>0
<1>3. PICK f \in C : \A j \in C : f <= j
  BY <1>1, <1>2, Least
<1>4. \A j \in 1 .. f - 1 : j \in 1 .. Len(list) /\ ~(f <= j)
  BY <1>0, <1>3
<1>5. Covers(list[f], path) /\ \A j \in 1 .. f - 1 : ~Covers(list[j], path)
  BY <1>3, <1>4
<1>6. \E g \in DOMAIN list : Covers(list[g], path) /\ \A j \in 1 .. g - 1 : ~Covers(list[j], path)
  BY <1>0, <1>5
<1>. QED
  BY <1>0, <1>6 DEF MountFind

\* So every path belongs to the innermost mount.
LEMMA FirstIsInnermost ==
  ASSUME MountTypes, ListedOnce, RootStays, InOrder
  PROVE  FindsInnermost
<1>. SUFFICES ASSUME NEW path \in Paths, NEW m \in Members(list),
                     IsPrefix(point[m], path), m # MountFind(path)
              PROVE  \/ Len(point[m]) < Len(point[MountFind(path)])
                     \/ /\ point[m] = point[MountFind(path)]
                        /\ PlaceOf(m) < PlaceOf(MountFind(path))
  BY DEF FindsInnermost
<1>0. /\ DOMAIN list = 1 .. Len(list) /\ Len(list) \in Nat
      /\ DOMAIN age = 1 .. Len(age) /\ Len(age) \in Nat
  BY LenProperties DEF MountTypes
<1>1. PICK f \in 1 .. Len(list) :
           /\ MountFind(path) = list[f] /\ Covers(list[f], path)
           /\ \A j \in 1 .. f - 1 : ~Covers(list[j], path)
  BY MountFindFinds
<1>2. PICK j \in 1 .. Len(list) : list[j] = m
  BY <1>0 DEF Members
<1>3. f < j
  BY <1>0, <1>1, <1>2 DEF Covers
<1>4. /\ point[m] \in Seq(STRING) /\ point[list[f]] \in Seq(STRING) /\ path \in Seq(STRING)
      /\ m \in Mounts /\ list[f] \in Mounts
  <2>1. m \in Mounts /\ list[f] \in Mounts
    BY <1>2 DEF MountTypes
  <2>2. <<>> \in Seq(STRING)
    OBVIOUS
  <2>. QED
    BY <2>1, <2>2, MountsAssumption DEF MountTypes
<1>5. \/ Len(point[list[f]]) > Len(point[m])
      \/ Len(point[list[f]]) = Len(point[m]) /\ Younger(list[f], m)
  BY <1>1, <1>2, <1>3 DEF InOrder
<1>6. CASE Len(point[list[f]]) > Len(point[m])
  BY <1>1, <1>4, <1>6, LenProperties
<1>7. CASE Len(point[list[f]]) = Len(point[m]) /\ Younger(list[f], m)
  <2>1. point[m] = point[list[f]]
    BY <1>1, <1>4, <1>7, SubSeqFull DEF IsPrefix, Covers
  <2>2. PICK k, l \in 1 .. Len(age) : k > l /\ age[k] = list[f] /\ age[l] = m
    BY <1>7 DEF Younger
  <2>3. PlaceOf(m) = l /\ PlaceOf(list[f]) = k
    BY <1>0, <2>2 DEF PlaceOf, ListedOnce, Once
  <2>. QED
    BY <1>1, <2>1, <2>2, <2>3
<1>. QED
  BY <1>5, <1>6, <1>7

\* Calls that leave the list alone keep what is said of it.
LEMMA SameList ==
  ASSUME ListedOnce, InOrder, UNCHANGED <<list, point, age>>
  PROVE  ListedOnce' /\ InOrder' /\ Members(list)' = Members(list)
<1>1. Members(list)' = Members(list) /\ Members(age)' = Members(age)
  BY DEF Members
<1>2. ListedOnce'
  BY <1>1 DEF ListedOnce
<1>3. \A a, b : Younger(a, b) => Younger(a, b)'
  BY DEF Younger
<1>4. InOrder'
  BY <1>3 DEF InOrder
<1>. QED
  BY <1>1, <1>2, <1>4

\* A call that finds mounts counts itself in them.
LEMMA FoundKeeps ==
  ASSUME MountInv, NEW t \in Callers, NEW kind \in {"path", "pair", "open"},
         NEW found \in Seq(Mounts), Len(found) <= 2, kind = "open" => Len(found) = 1,
         \A i \in 1 .. Len(found) : found[i] \in Members(list),
         mountCall[t] = Idle, Found(t, kind, found)
  PROVE  MountInv'
<1>0. MountTypes /\ CallShape /\ ListedOnce /\ RootStays /\ InOrder /\ UsedMountsStay
  BY DEF MountInv
<1>1. /\ refs' = [m \in Mounts |-> refs[m] + Times(found, m)]
      /\ mountCall' = [mountCall EXCEPT ![t] = [kind |-> kind, uses |-> found]]
      /\ UNCHANGED <<list, point, opens, age>>
  BY DEF Found, Times
<1>2. /\ DOMAIN mountCall = Callers
      /\ mountCall'[t] = [kind |-> kind, uses |-> found]
      /\ \A u \in Callers \ {t} : mountCall'[u] = mountCall[u]
  BY <1>0, <1>1 DEF MountTypes
<1>3. ASSUME NEW m \in Mounts
      PROVE  /\ Cardinality(AllUses(mountCall, m)) \in Nat /\ Times(found, m) \in Nat
             /\ Cardinality(AllUses(mountCall', m))
                  = Cardinality(AllUses(mountCall, m)) + Times(found, m)
  <2>1. mountCall[t].uses = <<>> /\ mountCall'[t].uses = found
    BY <1>2 DEF Idle
  <2>2. \A u \in Callers : u # t => mountCall'[u].uses = mountCall[u].uses
    BY <1>2
  <2>3. \E n, k \in Nat : /\ n = Cardinality(AllUses(mountCall, m))
                           /\ k = Times(mountCall'[t].uses, m)
                           /\ Cardinality(AllUses(mountCall', m)) = n + k
    <3>1. OneMore(mountCall, mountCall', t)
      BY <2>1, <2>2 DEF OneMore
    <3>. QED
      BY <3>1, UsesAdd
  <2>. QED
    BY <2>1, <2>3
<1>4. MountTypes'
  BY <1>0, <1>1, <1>3 DEF MountTypes
<1>5. CallShape'
  BY <1>0, <1>2 DEF CallShape
<1>6. ListedOnce' /\ RootStays' /\ InOrder'
  BY <1>0, <1>1, SameList DEF RootStays
<1>7. UsedMountsStay'
  <2>1. ASSUME NEW m \in Mounts, m \notin Members(list) PROVE Times(found, m) = 0
    <3>1. {i \in DOMAIN found : found[i] = m} = {}
      BY <2>1, LenProperties
    <3>. QED
      BY <3>1, FS_EmptySet DEF Times
  <2>2. ASSUME NEW m \in Mounts
        PROVE  LET used == opens'[m] + Cardinality(AllUses(mountCall', m))
               IN  /\ used > 0 => m \in Members(list)'
                   /\ m \in Members(list)' => refs'[m] = used
    <3>1. opens[m] \in Nat /\ refs[m] \in Nat /\ Members(list)' = Members(list)
      BY <1>0, <1>1 DEF MountTypes, Members
    <3>2. /\ opens[m] + Cardinality(AllUses(mountCall, m)) > 0 => m \in Members(list)
          /\ m \in Members(list)
               => refs[m] = opens[m] + Cardinality(AllUses(mountCall, m))
      BY <1>0, UsedMounts
    <3>3. opens'[m] = opens[m] /\ refs'[m] = refs[m] + Times(found, m)
      BY <1>0, <1>1
    <3>. QED
      BY <1>3, <2>1, <3>1, <3>2, <3>3
  <2>. QED
    BY <2>2 DEF UsedMountsStay, AllUses
<1>. QED
  BY <1>4, <1>5, <1>6, <1>7 DEF MountInv

\* A call that ends gives back what it counted.
LEMMA PathCallEndsKeeps ==
  ASSUME MountInv, NEW t \in Callers, PathCallEnds(t)
  PROVE  MountInv'
<1>0. MountTypes /\ CallShape /\ ListedOnce /\ RootStays /\ InOrder /\ UsedMountsStay
  BY DEF MountInv
<1>1. /\ refs' = [m \in Mounts |-> refs[m] - Times(mountCall[t].uses, m)]
      /\ mountCall' = [mountCall EXCEPT ![t] = Idle]
      /\ UNCHANGED <<list, point, opens, age>>
  BY DEF PathCallEnds, Uses, Times
<1>2. OneMore(mountCall', mountCall, t)
  BY <1>0, <1>1 DEF OneMore, MountTypes, CallShape, Idle
<1>3. ASSUME NEW m \in Mounts
      PROVE  /\ opens'[m] = opens[m] /\ opens[m] \in Nat
             /\ refs'[m] \in Nat
             /\ opens'[m] + Cardinality(AllUses(mountCall', m)) > 0 => m \in Members(list)
             /\ m \in Members(list)
                  => refs'[m] = opens'[m] + Cardinality(AllUses(mountCall', m))
  <2>1. PICK n, k \in Nat : /\ n = Cardinality(AllUses(mountCall', m))
                           /\ k = Times(mountCall[t].uses, m)
                           /\ Cardinality(AllUses(mountCall, m)) = n + k
    BY <1>2, UsesAdd
  <2>2. /\ opens[m] + Cardinality(AllUses(mountCall, m)) > 0 => m \in Members(list)
        /\ m \in Members(list) => refs[m] = opens[m] + Cardinality(AllUses(mountCall, m))
    BY <1>0, UsedMounts
  <2>3. opens[m] \in Nat /\ refs[m] \in Nat /\ opens'[m] = opens[m] /\ refs'[m] = refs[m] - k
    BY <1>0, <1>1, <2>1 DEF MountTypes
  <2>. QED
    BY <2>1, <2>2, <2>3
<1>4. MountTypes'
  BY <1>0, <1>1, <1>3 DEF MountTypes
<1>5. CallShape'
  BY <1>0, <1>1 DEF CallShape, MountTypes, Idle
<1>6. ListedOnce' /\ RootStays' /\ InOrder'
  BY <1>0, <1>1, SameList DEF RootStays
<1>7. UsedMountsStay'
  <2>1. Members(list)' = Members(list)
    BY <1>1 DEF Members
  <2>. QED
    BY <1>3, <2>1 DEF UsedMountsStay, AllUses
<1>. QED
  BY <1>4, <1>5, <1>6, <1>7 DEF MountInv

\* An open file takes over what its call counted.
LEMMA OpenEndsKeeps ==
  ASSUME MountInv, NEW t \in Callers, OpenEnds(t)
  PROVE  MountInv'
<1>0. MountTypes /\ CallShape /\ ListedOnce /\ RootStays /\ InOrder /\ UsedMountsStay
  BY DEF MountInv
<1>. DEFINE s == mountCall[t].uses
<1>1. /\ opens' = [opens EXCEPT ![s[1]] = @ + 1]
      /\ mountCall' = [mountCall EXCEPT ![t] = Idle]
      /\ UNCHANGED <<list, point, refs, age>>
  BY DEF OpenEnds
<1>2. OneMore(mountCall', mountCall, t)
  BY <1>0, <1>1 DEF OneMore, MountTypes, CallShape, Idle
<1>3. s \in Seq(Mounts) /\ Len(s) = 1 /\ s[1] \in Mounts
  <2>1. s \in Seq(Mounts) /\ Len(s) = 1
    BY <1>0 DEF OpenEnds, CallShape
  <2>. QED
    BY <2>1, ElementOfSeq
<1>4. ASSUME NEW m \in Mounts
      PROVE  /\ opens'[m] \in Nat /\ refs'[m] = refs[m] /\ opens'[m] >= opens[m]
             /\ opens'[m] + Cardinality(AllUses(mountCall', m))
                  = opens[m] + Cardinality(AllUses(mountCall, m))
  <2>1. PICK n, k \in Nat : /\ n = Cardinality(AllUses(mountCall', m)) /\ k = Times(s, m)
                           /\ Cardinality(AllUses(mountCall, m)) = n + k
    BY <1>2, UsesAdd
  <2>2. opens[m] \in Nat
    BY <1>0 DEF MountTypes
  <2>3. CASE m = s[1]
    <3>1. {i \in DOMAIN s : s[i] = m} = {1}
      BY <1>3, <2>3, LenProperties
    <3>2. Times(s, m) = 1
      BY <3>1, FS_Singleton DEF Times
    <3>3. opens'[m] = opens[m] + 1
      BY <1>0, <1>1, <2>3 DEF MountTypes
    <3>. QED
      BY <1>1, <2>1, <2>2, <3>2, <3>3
  <2>4. CASE m # s[1]
    <3>1. {i \in DOMAIN s : s[i] = m} = {}
      BY <1>3, <2>4, LenProperties
    <3>2. Times(s, m) = 0
      BY <3>1, FS_EmptySet DEF Times
    <3>3. opens'[m] = opens[m]
      BY <1>0, <1>1, <2>4 DEF MountTypes
    <3>. QED
      BY <1>1, <2>1, <2>2, <3>2, <3>3
  <2>. QED
    BY <2>3, <2>4
<1>5. MountTypes'
  BY <1>0, <1>1, <1>4 DEF MountTypes
<1>6. CallShape'
  BY <1>0, <1>1 DEF CallShape, MountTypes, Idle
<1>7. ListedOnce' /\ RootStays' /\ InOrder'
  <2>1. opens'[RootMount] >= 2
    <3>1. opens'[RootMount] \in Nat /\ opens[RootMount] \in Nat /\ opens'[RootMount] >= opens[RootMount]
      BY <1>0, <1>4, MountsAssumption DEF MountTypes
    <3>. QED
      BY <1>0, <3>1 DEF RootStays
  <2>. QED
    BY <1>0, <1>1, <2>1, SameList DEF RootStays
<1>8. UsedMountsStay'
  <2>1. Members(list)' = Members(list)
    BY <1>1 DEF Members
  <2>2. ASSUME NEW m \in Mounts
        PROVE  LET used == opens'[m] + Cardinality(AllUses(mountCall', m))
               IN  /\ used > 0 => m \in Members(list)
                   /\ m \in Members(list) => refs'[m] = used
    <3>1. /\ opens[m] + Cardinality(AllUses(mountCall, m)) > 0 => m \in Members(list)
          /\ m \in Members(list)
               => refs[m] = opens[m] + Cardinality(AllUses(mountCall, m))
      BY <1>0, UsedMounts
    <3>. QED
      BY <1>4, <3>1
  <2>. QED
    BY <2>1, <2>2 DEF UsedMountsStay, AllUses
<1>. QED
  BY <1>5, <1>6, <1>7, <1>8 DEF MountInv

\* do_mount puts the new mount before the first whose point is not longer, so
\* that it is found before the older mounts of its point.
LEMMA DoMountKeeps ==
  ASSUME MountInv, NEW t \in Callers, NEW p \in Points, DoMount(t, p)
  PROVE  MountInv'
<1>0. MountTypes /\ CallShape /\ ListedOnce /\ RootStays /\ InOrder /\ UsedMountsStay
  BY DEF MountInv
<1>. DEFINE L == Len(list)
            later == {i \in DOMAIN list : Len(point[list[i]]) <= Len(p)}
            at == CHOOSE i \in later : \A j \in later : i <= j
<1>1. PICK m \in Mounts \ Members(list) :
         /\ point' = [point EXCEPT ![m] = p]
         /\ list' = InsertAt(list, at, m)
         /\ refs' = [refs EXCEPT ![m] = 0] /\ opens' = [opens EXCEPT ![m] = 0]
         /\ age' = Append(age, m)
  BY DEF DoMount
<1>2. /\ DOMAIN list = 1 .. L /\ L \in Nat /\ list \in Seq(Mounts)
      /\ DOMAIN age = 1 .. Len(age) /\ Len(age) \in Nat /\ age \in Seq(Mounts)
  BY <1>0, LenProperties DEF MountTypes
<1>3. /\ \A i \in 1 .. L : list[i] \in Mounts /\ list[i] \in Members(list) /\ list[i] # m
      /\ \A i \in 1 .. Len(age) : age[i] \in Members(list) /\ age[i] # m
  <2>1. \A i \in 1 .. L : list[i] \in Mounts /\ list[i] \in Members(list)
    BY <1>2, MemberIs
  <2>2. \A i \in 1 .. Len(age) : age[i] \in Members(list)
    BY <1>0, <1>2, MemberIs DEF ListedOnce
  <2>. QED
    BY <1>1, <2>1, <2>2
<1>4. Len(p) \in Nat /\ \A q \in Mounts : Len(point[q]) \in Nat
  <2>1. p \in Seq(STRING) /\ \A q \in Points \cup {<<>>} : q \in Seq(STRING)
    <3>1. <<>> \in Seq(STRING)
      OBVIOUS
    <3>. QED
      BY <3>1, MountsAssumption
  <2>2. p \in Seq(STRING) /\ \A q \in Mounts : point[q] \in Seq(STRING)
    BY <1>0, <2>1 DEF MountTypes
  <2>. QED
    BY <2>2, LenProperties
<1>5. at \in later /\ \A j \in later : at <= j
  <2>1. PICK k \in 1 .. L : list[k] = RootMount
    BY <1>0, <1>2, MemberIs DEF RootStays
  <2>2. later # {} /\ later \in SUBSET Nat
    BY <1>0, <1>2, <1>4, <2>1 DEF RootStays
  <2>3. \E i \in later : \A j \in later : i <= j
    BY <2>2, Least
  <2>. QED
    BY <2>3
<1>6. at \in 1 .. L /\ Len(point[list[at]]) <= Len(p)
  BY <1>2, <1>5
<1>7. \A i \in 1 .. L : i < at => Len(point[list[i]]) > Len(p)
  <2>1. ASSUME NEW i \in 1 .. L, ~(Len(point[list[i]]) > Len(p)) PROVE at <= i
    <3>1. Len(point[list[i]]) \in Nat
      BY <1>3, <1>4
    <3>2. i \in later
      BY <1>2, <1>4, <2>1, <3>1
    <3>. QED
      BY <1>5, <3>2
  <2>2. at \in Nat
    BY <1>2, <1>6
  <2>. QED
    BY <1>2, <2>1, <2>2
<1>8. \A i \in 1 .. L : i >= at => Len(point[list[i]]) <= Len(p)
  BY <1>0, <1>2, <1>3, <1>4, <1>6 DEF InOrder
<1>. HIDE DEF later, at
<1>9. /\ list' \in Seq(Mounts) /\ Len(list') = L + 1
      /\ \A j \in 1 .. L + 1 : list'[j] = IF j < at THEN list[j] ELSE IF j = at THEN m ELSE list[j - 1]
  <2>0. list \in Seq(Mounts) /\ m \in Mounts /\ at \in 1 .. Len(list)
    BY <1>1, <1>2, <1>6
  <2>1. InsertAt(list, at, m) \in Seq(Mounts) /\ Len(InsertAt(list, at, m)) = L + 1
    BY <2>0, Inserted
  <2>2. \A j \in 1 .. L + 1 :
          InsertAt(list, at, m)[j] = IF j < at THEN list[j] ELSE IF j = at THEN m ELSE list[j - 1]
    BY <2>0, Inserted
  <2>. QED
    BY <1>1, <2>1, <2>2
<1>10. /\ age' \in Seq(Mounts) /\ Len(age') = Len(age) + 1 /\ age'[Len(age) + 1] = m
       /\ \A j \in 1 .. Len(age) : age'[j] = age[j]
  BY <1>1, <1>2, AppendProperties
<1>11. /\ point'[m] = p /\ refs'[m] = 0 /\ opens'[m] = 0
       /\ \A q \in Mounts \ {m} : point'[q] = point[q] /\ refs'[q] = refs[q] /\ opens'[q] = opens[q]
  BY <1>0, <1>1 DEF MountTypes
<1>12. mountCall' = mountCall
  BY DEF DoMount
<1>13. MountTypes'
  BY <1>0, <1>1, <1>9, <1>10, <1>12 DEF MountTypes
<1>14. CallShape'
  BY <1>0, <1>12 DEF CallShape
<1>15. Members(list)' = Members(list) \cup {m} /\ Members(age)' = Members(age) \cup {m}
  <2>1. \A e : e \in Members(list)' <=> \E i \in 1 .. L + 1 : list'[i] = e
    BY <1>9, MemberIs
  <2>2. \A e : e \in Members(list) <=> \E i \in 1 .. L : list[i] = e
    BY <1>2, MemberIs
  <2>3. ASSUME NEW i \in 1 .. L PROVE list[i] \in Members(list)'
    <3>1. CASE i < at
      BY <1>2, <1>9, <2>1, <3>1
    <3>2. CASE i >= at
      <4>1. i + 1 \in 1 .. L + 1 /\ list'[i + 1] = list[i]
        BY <1>2, <1>6, <1>9, <3>2
      <4>. QED
        BY <2>1, <4>1
    <3>. QED
      BY <1>2, <1>6, <3>1, <3>2
  <2>4. ASSUME NEW i \in 1 .. L + 1 PROVE list'[i] \in Members(list) \cup {m}
    <3>1. CASE i < at
      BY <1>2, <1>3, <1>6, <1>9, <3>1
    <3>2. CASE i > at
      <4>1. list'[i] = list[i - 1] /\ i - 1 \in 1 .. L
        BY <1>2, <1>6, <1>9, <3>2
      <4>. QED
        BY <1>3, <4>1
    <3>3. CASE i = at
      BY <1>9, <3>3
    <3>. QED
      BY <1>6, <3>1, <3>2, <3>3
  <2>5. m \in Members(list)'
    BY <1>2, <1>6, <1>9, <2>1
  <2>6. Members(list)' = Members(list) \cup {m}
    BY <2>1, <2>2, <2>3, <2>4, <2>5
  <2>7. \A e : e \in Members(age)' <=> \E i \in 1 .. Len(age) + 1 : age'[i] = e
    BY <1>10, MemberIs
  <2>8. \A e : e \in Members(age) <=> \E i \in 1 .. Len(age) : age[i] = e
    BY <1>2, MemberIs
  <2>9. Members(age)' = Members(age) \cup {m}
    BY <1>2, <1>10, <2>7, <2>8
  <2>. QED
    BY <2>6, <2>9
<1>16. ListedOnce'
  <2>1. Once(list')
    <3>. SUFFICES ASSUME NEW i \in 1 .. L + 1, NEW j \in 1 .. L + 1, list'[i] = list'[j], i < j
                  PROVE  FALSE
      BY <1>2, <1>9 DEF Once
    <3>. DEFINE Old(n) == IF n < at THEN n ELSE n - 1
    <3>1. ASSUME NEW n \in 1 .. L + 1, n # at
          PROVE  Old(n) \in 1 .. L /\ list'[n] = list[Old(n)]
      <4>1. CASE n < at
        BY <1>2, <1>6, <1>9, <3>1, <4>1
      <4>2. CASE n > at
        BY <1>2, <1>6, <1>9, <3>1, <4>2
      <4>. QED
        BY <1>2, <1>6, <3>1, <4>1, <4>2
    <3>2. i # at /\ j # at
      BY <1>3, <1>9, <3>1
    <3>3. Old(i) = Old(j)
      BY <1>0, <3>1, <3>2 DEF ListedOnce, Once
    <3>. QED
      BY <1>2, <1>6, <3>2, <3>3
  <2>2. Once(age')
    BY <1>0, <1>2, <1>3, <1>10 DEF ListedOnce, Once
  <2>. QED
    BY <1>0, <1>15, <2>1, <2>2 DEF ListedOnce
<1>17. RootStays'
  BY <1>0, <1>1, <1>11, <1>15, MountsAssumption DEF RootStays
<1>18. InOrder'
  <2>1. \A a, b : Younger(a, b) => Younger(a, b)'
    BY <1>2, <1>10 DEF Younger
  <2>2. ASSUME NEW b \in Members(list) PROVE Younger(m, b)'
    <3>1. PICK l \in 1 .. Len(age) : age[l] = b
      BY <1>0, <1>2, MemberIs DEF ListedOnce
    <3>2. /\ Len(age) + 1 \in 1 .. Len(age') /\ l \in 1 .. Len(age')
          /\ Len(age) + 1 > l /\ age'[Len(age) + 1] = m /\ age'[l] = b
      BY <1>2, <1>10, <3>1
    <3>. QED
      BY <3>2 DEF Younger
  <2>3. ASSUME NEW i \in 1 .. L + 1, NEW j \in 1 .. L + 1, i < j,
               NEW a, NEW b, a = list'[i], b = list'[j]
        PROVE  \/ Len(point'[a]) > Len(point'[b])
               \/ Len(point'[a]) = Len(point'[b]) /\ Younger(a, b)'
    <3>1. CASE j = at
      <4>1. b = m /\ a = list[i] /\ i \in 1 .. L /\ i < at
        BY <1>2, <1>6, <1>9, <2>3, <3>1
      <4>. QED
        BY <1>3, <1>7, <1>11, <4>1
    <3>2. CASE i = at
      <4>1. a = m /\ b = list[j - 1] /\ j - 1 \in 1 .. L /\ j - 1 >= at
        <5>1. j > at /\ j - 1 \in 1 .. L /\ j - 1 >= at
          BY <1>2, <1>6, <2>3, <3>2
        <5>. QED
          BY <1>9, <2>3, <3>2, <5>1
      <4>2. b \in Members(list) /\ b \in Mounts \ {m} /\ Len(point[b]) <= Len(p)
        BY <1>3, <1>8, <4>1
      <4>3. Len(point'[a]) = Len(p) /\ Len(point'[b]) = Len(point[b])
        BY <1>11, <4>1, <4>2
      <4>4. Younger(a, b)'
        BY <2>2, <4>1, <4>2
      <4>. QED
        BY <1>4, <4>2, <4>3, <4>4
    <3>3. CASE i # at /\ j # at
      <4>1. PICK k, l \in 1 .. L : k < l /\ a = list[k] /\ b = list[l]
        <5>. DEFINE k == IF i < at THEN i ELSE i - 1
                    l == IF j < at THEN j ELSE j - 1
        <5>1. k \in 1 .. L /\ l \in 1 .. L /\ k < l
          BY <1>2, <1>6, <2>3, <3>3
        <5>2. a = list[k] /\ b = list[l]
          BY <1>6, <1>9, <2>3, <3>3
        <5>. QED
          BY <5>1, <5>2
      <4>2. \/ Len(point[a]) > Len(point[b])
            \/ Len(point[a]) = Len(point[b]) /\ Younger(a, b)
        BY <1>0, <4>1 DEF InOrder
      <4>3. point'[a] = point[a] /\ point'[b] = point[b]
        BY <1>3, <1>11, <4>1
      <4>. QED
        BY <2>1, <4>2, <4>3
    <3>. QED
      BY <3>1, <3>2, <3>3
  <2>. QED
    BY <1>9, <2>3 DEF InOrder
<1>19. UsedMountsStay'
  <2>1. ASSUME NEW q \in Mounts
        PROVE  LET used == opens'[q] + Cardinality(AllUses(mountCall', q))
               IN  /\ used > 0 => q \in Members(list)'
                   /\ q \in Members(list)' => refs'[q] = used
    <3>1. /\ opens[q] + Cardinality(AllUses(mountCall, q)) > 0 => q \in Members(list)
          /\ q \in Members(list)
               => refs[q] = opens[q] + Cardinality(AllUses(mountCall, q))
      BY <1>0, UsedMounts
    <3>2. Cardinality(AllUses(mountCall, q)) \in Nat /\ opens[q] \in Nat
      BY <1>0, UsesAreNumbers DEF MountTypes
    <3>3. AllUses(mountCall', q) = AllUses(mountCall, q)
      BY <1>12
    <3>4. CASE q = m
      BY <1>1, <1>11, <1>15, <3>1, <3>2, <3>3, <3>4
    <3>5. CASE q # m
      BY <1>11, <1>15, <3>1, <3>3, <3>5
    <3>. QED
      BY <3>4, <3>5
  <2>. QED
    BY <2>1 DEF UsedMountsStay, AllUses
<1>. QED
  BY <1>13, <1>14, <1>16, <1>17, <1>18, <1>19 DEF MountInv

\* r is s without its element k, in the same order.
Without(r, s, k) ==
  /\ Members(r) = Members(s) \ {s[k]}
  /\ \A i, j \in 1 .. Len(s) : i < j /\ i # k /\ j # k =>
         \E x, y \in 1 .. Len(r) : x < y /\ r[x] = s[i] /\ r[y] = s[j]
  /\ \A x, y \in 1 .. Len(r) : x < y =>
         \E i, j \in 1 .. Len(s) : i < j /\ r[x] = s[i] /\ r[y] = s[j]

LEMMA RemovedOne ==
  ASSUME NEW S, NEW s \in Seq(S), Once(s), NEW k \in 1 .. Len(s)
  PROVE  LET r == RemoveAt(s, k) IN r \in Seq(S) /\ Once(r) /\ Without(r, s, k)
<1>. DEFINE r == RemoveAt(s, k)
            L == Len(s)
            Was(x) == IF x < k THEN x ELSE x + 1
            Is(i) == IF i < k THEN i ELSE i - 1
<1>1. L \in Nat
  BY LenProperties
<1>2. r \in Seq(S) /\ Len(r) = L - 1
  <2>1. RemoveAt(s, k) \in Seq(S) /\ Len(RemoveAt(s, k)) = L - 1
    BY Removed
  <2>. QED
    BY <2>1
<1>3. \A x \in 1 .. L - 1 : r[x] = s[Was(x)] /\ Was(x) \in 1 .. L /\ Was(x) # k
  <2>1. \A x \in 1 .. L - 1 : RemoveAt(s, k)[x] = IF x < k THEN s[x] ELSE s[x + 1]
    BY Removed
  <2>. QED
    BY <1>1, <2>1
<1>4. \A i \in 1 .. L : i # k => Is(i) \in 1 .. L - 1 /\ Was(Is(i)) = i
  BY <1>1
<1>5. \A x, y \in 1 .. L - 1 : x < y => Was(x) < Was(y)
  BY <1>1
<1>6. \A i, j \in 1 .. L : i < j /\ i # k /\ j # k => Is(i) < Is(j)
  BY <1>1
<1>7. \A i \in 1 .. L : i # k => r[Is(i)] = s[i]
  BY <1>3, <1>4
<1>. HIDE DEF r, L, Was, Is
<1>8. \A x, y \in 1 .. L - 1 : r[x] = r[y] => x = y
  <2>. SUFFICES ASSUME NEW x \in 1 .. L - 1, NEW y \in 1 .. L - 1, r[x] = r[y]
                PROVE  x = y
    OBVIOUS
  <2>1. Was(x) = Was(y)
    BY <1>3 DEF L, Once
  <2>2. ~(x < y) /\ ~(y < x)
    <3>1. Was(x) \in Nat /\ Was(y) \in Nat
      BY <1>3 DEF L
    <3>. QED
      BY <1>5, <2>1, <3>1
  <2>. QED
    BY <1>1, <2>2
<1>9. Members(r) = Members(s) \ {s[k]}
  <2>1. \A e : e \in Members(r) <=> \E x \in 1 .. L - 1 : r[x] = e
    BY <1>2, MemberIs
  <2>2. \A e : e \in Members(s) <=> \E i \in 1 .. L : s[i] = e
    BY MemberIs DEF L
  <2>3. ASSUME NEW x \in 1 .. L - 1 PROVE r[x] \in Members(s) \ {s[k]}
    BY <1>3, <2>2 DEF L, Once
  <2>4. ASSUME NEW i \in 1 .. L, s[i] # s[k] PROVE s[i] \in Members(r)
    BY <1>4, <1>7, <2>1, <2>4
  <2>. QED
    BY <2>1, <2>2, <2>3, <2>4
<1>10. \A i, j \in 1 .. L : i < j /\ i # k /\ j # k =>
          \E x, y \in 1 .. L - 1 : x < y /\ r[x] = s[i] /\ r[y] = s[j]
  BY <1>4, <1>6, <1>7
<1>11. \A x, y \in 1 .. L - 1 : x < y =>
          \E i, j \in 1 .. L : i < j /\ r[x] = s[i] /\ r[y] = s[j]
  BY <1>3, <1>5
<1>. QED
  BY <1>2, <1>8, <1>9, <1>10, <1>11 DEF r, L, Once, Without

\* do_umount takes a mount from the list that nothing uses.
LEMMA DoUmountKeeps ==
  ASSUME MountInv, NEW t \in Callers, NEW p, DoUmount(t, p)
  PROVE  MountInv'
<1>0. MountTypes /\ CallShape /\ ListedOnce /\ RootStays /\ InOrder /\ UsedMountsStay
  BY DEF MountInv
<1>. DEFINE at == {i \in DOMAIN list : point[list[i]] = p}
            first == CHOOSE i \in at : \A j \in at : i <= j
            m == list[first]
            k == PlaceOf(m)
<1>1. /\ at # {} /\ refs[m] = 0
      /\ list' = RemoveAt(list, first) /\ age' = RemoveAt(age, k)
      /\ point' = [point EXCEPT ![m] = <<>>] /\ opens' = [opens EXCEPT ![m] = 0]
      /\ refs' = refs /\ mountCall' = mountCall
  BY DEF DoUmount
<1>2. /\ DOMAIN list = 1 .. Len(list) /\ Len(list) \in Nat /\ list \in Seq(Mounts)
      /\ DOMAIN age = 1 .. Len(age) /\ Len(age) \in Nat /\ age \in Seq(Mounts)
  BY <1>0, LenProperties DEF MountTypes
<1>3. first \in 1 .. Len(list)
  <2>1. at \in SUBSET Nat
    BY <1>2
  <2>2. \E i \in at : \A j \in at : i <= j
    BY <1>1, <2>1, Least
  <2>. QED
    BY <1>2, <2>2
<1>. HIDE DEF at, first
<1>4. m \in Members(list) /\ m \in Mounts
  BY <1>2, <1>3, MemberIs
<1>5. k \in 1 .. Len(age) /\ age[k] = m
  <2>1. \E i \in 1 .. Len(age) : age[i] = m
    BY <1>0, <1>2, <1>4, MemberIs DEF ListedOnce
  <2>. QED
    BY <1>2, <2>1 DEF PlaceOf
<1>. HIDE DEF k
<1>6. /\ list' \in Seq(Mounts) /\ Once(list')
      /\ Members(list)' = Members(list) \ {m}
      /\ \A x, y \in 1 .. Len(list') : x < y =>
             \E i, j \in 1 .. Len(list) : i < j /\ list'[x] = list[i] /\ list'[y] = list[j]
  <2>1. Once(list)
    BY <1>0 DEF ListedOnce
  <2>2. LET r == RemoveAt(list, first) IN r \in Seq(Mounts) /\ Once(r) /\ Without(r, list, first)
    BY <1>2, <1>3, <2>1, RemovedOne
  <2>3. list' \in Seq(Mounts) /\ Once(list') /\ Without(list', list, first)
    BY <1>1, <2>2
  <2>. QED
    BY <2>3 DEF Without, m
<1>7. /\ age' \in Seq(Mounts) /\ Once(age')
      /\ Members(age)' = Members(age) \ {m}
      /\ \A i, j \in 1 .. Len(age) : i < j /\ i # k /\ j # k =>
             \E x, y \in 1 .. Len(age') : x < y /\ age'[x] = age[i] /\ age'[y] = age[j]
  <2>1. Once(age)
    BY <1>0 DEF ListedOnce
  <2>2. LET r == RemoveAt(age, k) IN r \in Seq(Mounts) /\ Once(r) /\ Without(r, age, k)
    BY <1>2, <1>5, <2>1, RemovedOne
  <2>3. age' \in Seq(Mounts) /\ Once(age') /\ Without(age', age, k)
    BY <1>1, <2>2
  <2>. QED
    BY <1>5, <2>3 DEF Without
<1>. HIDE DEF m
<1>8. \A q \in Mounts : q # m => point'[q] = point[q] /\ opens'[q] = opens[q]
  BY <1>0, <1>1 DEF MountTypes
<1>9. /\ opens'[m] = 0 /\ opens[m] = 0 /\ Cardinality(AllUses(mountCall, m)) = 0
  <2>1. refs[m] = opens[m] + Cardinality(AllUses(mountCall, m))
    BY <1>0, <1>4, UsedMounts
  <2>2. opens[m] \in Nat /\ Cardinality(AllUses(mountCall, m)) \in Nat
    BY <1>0, <1>4, UsesAreNumbers DEF MountTypes
  <2>3. opens'[m] = 0
    BY <1>0, <1>1, <1>4 DEF MountTypes
  <2>. QED
    BY <1>1, <2>1, <2>2, <2>3
<1>10. m # RootMount
  BY <1>0, <1>9 DEF RootStays
<1>11. MountTypes'
  BY <1>0, <1>1, <1>6, <1>7 DEF MountTypes
<1>12. CallShape'
  BY <1>0, <1>1 DEF CallShape
<1>13. ListedOnce'
  BY <1>0, <1>6, <1>7 DEF ListedOnce
<1>14. RootStays'
  BY <1>0, <1>6, <1>8, <1>10, MountsAssumption DEF RootStays
<1>15. InOrder'
  <2>1. ASSUME NEW a, NEW b, a # m, b # m, Younger(a, b) PROVE Younger(a, b)'
    BY <1>2, <1>5, <1>7, <2>1 DEF Younger
  <2>2. ASSUME NEW x \in 1 .. Len(list'), NEW y \in 1 .. Len(list'), x < y,
               NEW a, NEW b, a = list'[x], b = list'[y]
        PROVE  \/ Len(point'[a]) > Len(point'[b])
               \/ Len(point'[a]) = Len(point'[b]) /\ Younger(a, b)'
    <3>1. PICK i, j \in 1 .. Len(list) : i < j /\ a = list[i] /\ b = list[j]
      BY <1>6, <2>2
    <3>2. a \in Mounts /\ b \in Mounts
      BY <1>2, <3>1
    <3>3. a # m /\ b # m
      <4>1. a \in Members(list)' /\ b \in Members(list)'
        BY <1>6, <2>2, MemberIs
      <4>. QED
        BY <1>6, <4>1
    <3>4. \/ Len(point[a]) > Len(point[b])
          \/ Len(point[a]) = Len(point[b]) /\ Younger(a, b)
      BY <1>0, <3>1 DEF InOrder
    <3>. QED
      BY <1>8, <2>1, <3>2, <3>3, <3>4
  <2>. QED
    BY <2>2 DEF InOrder
<1>16. UsedMountsStay'
  <2>1. ASSUME NEW q \in Mounts
        PROVE  LET used == opens'[q] + Cardinality(AllUses(mountCall', q))
               IN  /\ used > 0 => q \in Members(list)'
                   /\ q \in Members(list)' => refs'[q] = used
    <3>1. /\ opens[q] + Cardinality(AllUses(mountCall, q)) > 0 => q \in Members(list)
          /\ q \in Members(list)
               => refs[q] = opens[q] + Cardinality(AllUses(mountCall, q))
      BY <1>0, UsedMounts
    <3>2. AllUses(mountCall', q) = AllUses(mountCall, q)
      BY <1>1
    <3>3. CASE q = m
      BY <1>6, <1>9, <3>2, <3>3
    <3>4. CASE q # m
      BY <1>1, <1>6, <1>8, <3>1, <3>2, <3>4
    <3>. QED
      BY <3>3, <3>4
  <2>. QED
    BY <2>1 DEF UsedMountsStay, AllUses
<1>. QED
  BY <1>11, <1>12, <1>13, <1>14, <1>15, <1>16 DEF MountInv

\* After init the root is mounted, and opened twice.
LEMMA MountInitial == MountInit => MountInv
<1>. SUFFICES ASSUME MountInit PROVE MountInv
  OBVIOUS
<1>1. /\ list = <<RootMount>> /\ age = <<RootMount>> /\ point = [m \in Mounts |-> <<>>]
      /\ refs = [m \in Mounts |-> IF m = RootMount THEN 2 ELSE 0] /\ opens = refs
      /\ mountCall = [t \in Callers |-> Idle]
  BY DEF MountInit
<1>2. /\ list \in Seq(Mounts) /\ Len(list) = 1 /\ list[1] = RootMount
      /\ age \in Seq(Mounts) /\ Len(age) = 1 /\ RootMount \in Mounts
  BY <1>1, MountsAssumption
<1>3. MountTypes
  BY <1>1, <1>2 DEF MountTypes
<1>4. CallShape
  <2>1. <<>> \in Seq(Mounts) /\ Len(<<>>) = 0
    OBVIOUS
  <2>2. \A t \in Callers : mountCall[t] = Idle
    BY <1>1
  <2>3. Idle.kind = "none" /\ Idle.uses = <<>>
    BY DEF Idle
  <2>4. ASSUME NEW t \in Callers
        PROVE  /\ mountCall[t].uses \in Seq(Mounts) /\ Len(mountCall[t].uses) <= 2
               /\ mountCall[t].kind # "open"
    <3>1. mountCall[t].kind = "none" /\ mountCall[t].uses = <<>>
      BY <2>2, <2>3
    <3>. QED
      BY <2>1, <3>1
  <2>. QED
    BY <2>4 DEF CallShape
<1>5. \A e : e \in Members(list) <=> e = RootMount
  <2>. SUFFICES ASSUME NEW e PROVE e \in Members(list) <=> e = RootMount
    OBVIOUS
  <2>1. e \in Members(list) <=> \E i \in 1 .. Len(list) : list[i] = e
    BY <1>2, MemberIs
  <2>2. \A i : i \in 1 .. Len(list) <=> i = 1
    BY <1>2
  <2>. QED
    BY <1>2, <2>1, <2>2
<1>6. ListedOnce
  BY <1>1, <1>2 DEF ListedOnce, Once
<1>7. RootStays
  BY <1>1, <1>2, <1>5 DEF RootStays
<1>8. InOrder
  BY <1>2 DEF InOrder
<1>9. UsedMountsStay
  <2>1. \A m \in Mounts : Cardinality(AllUses(mountCall, m)) = 0
    <3>1. \A m : AllUses(mountCall, m) = {}
      BY <1>1 DEF AllUses, Idle
    <3>. QED
      BY <3>1, FS_EmptySet
  <2>2. \A m \in Mounts : opens[m] = refs[m] /\ refs[m] = IF m = RootMount THEN 2 ELSE 0
    BY <1>1
  <2>. QED
    BY <1>5, <2>1, <2>2 DEF UsedMountsStay, AllUses
<1>. QED
  BY <1>3, <1>4, <1>6, <1>7, <1>8, <1>9 DEF MountInv

\* Every call keeps the invariant.
LEMMA MountStep == MountInv /\ [MountNext]_mountVars => MountInv'
<1>. SUFFICES ASSUME MountInv, [MountNext]_mountVars PROVE MountInv'
  OBVIOUS
<1>0. MountTypes /\ CallShape /\ ListedOnce /\ RootStays /\ InOrder /\ UsedMountsStay
  BY DEF MountInv
<1>1. \A path \in Paths : MountFind(path) \in Mounts /\ MountFind(path) \in Members(list)
  <2>1. \A path \in Paths : \E f \in 1 .. Len(list) : MountFind(path) = list[f]
    BY <1>0, MountFindFinds
  <2>2. list \in Seq(Mounts)
    BY <1>0 DEF MountTypes
  <2>. QED
    BY <2>1, <2>2, MemberIs
<1>2. ASSUME NEW t \in Callers, NEW path \in Paths, NEW kind \in {"path", "open"},
             mountCall[t] = Idle, Found(t, kind, <<MountFind(path)>>)
      PROVE  MountInv'
  <2>. DEFINE found == <<MountFind(path)>>
  <2>1. /\ found \in Seq(Mounts) /\ Len(found) = 1
        /\ \A i \in 1 .. Len(found) : found[i] \in Members(list)
    BY <1>1
  <2>2. mountCall[t] = Idle /\ Found(t, kind, found) /\ kind \in {"path", "pair", "open"}
    BY <1>2
  <2>. HIDE DEF found
  <2>3. Len(found) <= 2
    BY <2>1
  <2>. QED
    BY <2>1, <2>2, <2>3, FoundKeeps
<1>3. ASSUME NEW t \in Callers, NEW p \in Paths, NEW q \in Paths, Linkat(t, p, q)
      PROVE  MountInv'
  <2>. DEFINE found == <<MountFind(p), MountFind(q)>>
  <2>1. /\ found \in Seq(Mounts) /\ Len(found) = 2
        /\ \A i \in 1 .. Len(found) : found[i] \in Members(list)
    BY <1>1
  <2>2. mountCall[t] = Idle /\ Found(t, "pair", found)
    BY <1>3 DEF Linkat
  <2>. HIDE DEF found
  <2>3. Len(found) <= 2 /\ "pair" # "open" /\ "pair" \in {"path", "pair", "open"}
    BY <2>1
  <2>. QED
    BY <2>1, <2>2, <2>3, FoundKeeps
<1>4. CASE MountNext
  <2>1. PICK t \in Callers :
           \/ \E p \in Paths : PathCall(t, p) \/ Rmdir(t, p) \/ Openat(t, p)
           \/ \E p, q \in Paths : Linkat(t, p, q) \/ Renameat(t, p, q)
           \/ PathCallEnds(t) \/ OpenEnds(t)
           \/ \E p \in Points : DoMount(t, p)
           \/ \E p \in Points \cup {<<>>} : DoUmount(t, p)
    BY <1>4 DEF MountNext
  <2>2. CASE \E p \in Paths : PathCall(t, p) \/ Rmdir(t, p) \/ Openat(t, p)
    BY <1>2, <2>2 DEF PathCall, Rmdir, Openat
  <2>3. CASE \E p, q \in Paths : Linkat(t, p, q) \/ Renameat(t, p, q)
    BY <1>3, <2>3 DEF Renameat
  <2>4. CASE PathCallEnds(t)
    BY <2>4, PathCallEndsKeeps
  <2>5. CASE OpenEnds(t)
    BY <2>5, OpenEndsKeeps
  <2>6. CASE \E p \in Points : DoMount(t, p)
    BY <2>6, DoMountKeeps
  <2>7. CASE \E p \in Points \cup {<<>>} : DoUmount(t, p)
    BY <2>7, DoUmountKeeps
  <2>. QED
    BY <2>1, <2>2, <2>3, <2>4, <2>5, <2>6, <2>7
<1>5. CASE UNCHANGED mountVars
  <2>1. UNCHANGED <<list, point, refs, opens, mountCall, age>>
    BY <1>5 DEF mountVars
  <2>2. MountTypes' /\ CallShape' /\ RootStays'
    BY <1>0, <2>1, SameList DEF MountTypes, CallShape, RootStays
  <2>3. UsedMountsStay'
    BY <1>0, <2>1, SameList DEF UsedMountsStay
  <2>. QED
    BY <1>0, <2>1, <2>2, <2>3, SameList DEF MountInv
<1>. QED
  BY <1>4, <1>5

\* The invariant says all that the runs check of the list.
LEMMA MountInvSound == MountInv => MountsSound
<1>. SUFFICES ASSUME MountInv PROVE MountsSound
  OBVIOUS
<1>0. MountTypes /\ CallShape /\ ListedOnce /\ RootStays /\ InOrder /\ UsedMountsStay
  BY DEF MountInv
<1>1. Members(list) \subseteq Mounts
  BY <1>0, MemberIs DEF MountTypes
<1>2. MountTypeOK
  BY <1>0, <1>1 DEF MountTypeOK, MountTypes, ListedOnce
<1>3. FindsInnermost
  BY <1>0, FirstIsInnermost
<1>. QED
  BY <1>0, <1>2, <1>3 DEF MountsSound

\* mount_find answers with the innermost mount, the last mounted of those on one
\* point, and no mount is freed while a call or an open file counts on it
\* (fs/mount.c), for any tasks, mounts and paths.
THEOREM MountsHold == MountSpec => []MountsSound
<1>1. MountSpec => []MountInv
  BY MountInitial, MountStep, PTL DEF MountSpec
<1>. QED
  BY <1>1, MountInvSound, PTL

-----------------------------------------------------------------------------
(* poll, epoll and eventfd *)

\* Waiters are in poll_wait or idle, workers anywhere else.
PollPcs ==
  /\ \A w \in Waiters : doing[w] \in {"idle"} \cup PollAt
  /\ \A t \in Workers : /\ doing[t] \in {"idle"} \cup EventfdAt \cup FirstLock \cup SecondLock
                        /\ doing[t] \in EventfdAt => tgt[t] \in Eventfds

\* Who may own a lock, whatever has been freed: a worker a file's, a waiter the poll's.
LocksOwned ==
  /\ \A f \in PollFiles : fileLock[f] \in Workers \cup {Nobody}
  /\ pollLock \in Waiters \cup {Nobody}
  /\ \A f \in PollFiles : \A t \in Workers :
        fileLock[f] = t => doing[t] \in SecondLock \cup {"idle"}
  /\ \A w \in Waiters : pollLock = w => doing[w] \in {"scan", "idle"}

\* Before anything is used freed: the locks are held just where the code is between
\* its lock and its unlock, and a locked file is allocated.
FileLocksExact ==
  \A f \in PollFiles : \A t \in Workers :
     (fileLock[f] = t) <=> (doing[t] \in SecondLock /\ tgt[t] = f)
LockedIsLive == \A t \in Workers : doing[t] \in SecondLock => tgt[t] \in live
PollLockExact == \A w \in Waiters : (pollLock = w) <=> (doing[w] = "scan")
LocksExact == FileLocksExact /\ LockedIsLive /\ PollLockExact

InWait == {w \in Waiters : InPoll(w)}
Counted ==
  /\ waiters = Cardinality(InWait) + (IF leaked THEN 1 ELSE 0)
  /\ ~leaked /\ InWait # {} => pipeOpen

\* NoMissedReady of any sleeper, while nobody scans.
SleepersServed ==
  ~leaked /\ WaitersAsleep # {} /\ pollLock = Nobody =>
      \A e \in members \cap Eventfds :
          EventfdPoll(e) =>
              \/ pipe > 0 \/ e \in late \/ e \in told
              \/ \E t \in Workers : tgt[t] = e /\ doing[t] \in {"wake", "wakePoll"}

PollBase == PollsTypeOK /\ PollPcs /\ LocksOwned /\ EventfdBounded /\ NoLostEventfdWake
PollOrder == LocksExact /\ members \subseteq live /\ Counted /\ SleepersServed
PollInv == PollBase /\ (fatal = {} => PollOrder)

\* A poll begins without waiters, members or locks.
LEMMA PollsInitial == PollsInit => PollInv
<1>. SUFFICES ASSUME PollsInit PROVE PollInv
  OBVIOUS
<1>1. /\ counter = [e \in Eventfds |-> 0] /\ hostReady = {} /\ live = PollFiles
      /\ members = {} /\ pipe = 0 /\ waiters = 0 /\ pollLock = Nobody
      /\ fileLock = [f \in PollFiles |-> Nobody]
      /\ doing = [t \in PollThreads |-> "idle"] /\ posted = {} /\ late = {} /\ told = {}
      /\ leaked = FALSE /\ fatal = {}
      /\ epollOpen = TRUE /\ pipeOpen = FALSE
  BY DEF PollsInit
<1>2. tgt \in [Workers -> PollFiles]
  <2>1. PICK f \in PollFiles : TRUE
    BY PollsAssumption DEF PollFiles
  <2>2. (CHOOSE g \in PollFiles : TRUE) \in PollFiles
    BY <2>1
  <2>. QED
    BY <2>2 DEF PollsInit
<1>3. Waiters \subseteq PollThreads /\ Workers \subseteq PollThreads
  BY DEF PollThreads
<1>4. PollsTypeOK
  <2>1. /\ counter \in [Eventfds -> 0 .. MaxVal] /\ pipe \in 0 .. MaxBytes /\ waiters \in Nat
    BY <1>1, PollsAssumption
  <2>2. /\ pollLock \in PollThreads \cup {Nobody}
        /\ fileLock \in [PollFiles -> PollThreads \cup {Nobody}]
        /\ doing \in [PollThreads -> Whereabouts]
    BY <1>1 DEF Whereabouts
  <2>. QED
    BY <1>1, <1>2, <2>1, <2>2 DEF PollsTypeOK
<1>5. PollPcs
  BY <1>1, <1>3 DEF PollPcs, PollAt, EventfdAt
<1>6. LocksOwned
  BY <1>1, PollsAssumption DEF LocksOwned
<1>7. EventfdBounded /\ NoLostEventfdWake
  BY <1>1, <1>3, PollsAssumption DEF EventfdBounded, NoLostEventfdWake
<1>8. LocksExact
  BY <1>1, <1>3, PollsAssumption
  DEF LocksExact, FileLocksExact, PollLockExact, LockedIsLive, SecondLock
<1>9. Counted
  <2>1. InWait = {}
    BY <1>1, <1>3 DEF InWait, InPoll, PollAt
  <2>. QED
    BY <1>1, <2>1, FS_EmptySet DEF Counted
<1>10. SleepersServed
  BY <1>1 DEF SleepersServed
<1>. QED
  BY <1>1, <1>4, <1>5, <1>6, <1>7, <1>8, <1>9, <1>10 DEF PollInv, PollBase, PollOrder

\* What waits is untouched by a worker that moves.
LEMMA WaitersStay ==
  ASSUME \A w \in Waiters : doing'[w] = doing[w]
  PROVE  InWait' = InWait /\ WaitersAsleep' = WaitersAsleep
BY DEF InWait, WaitersAsleep, InPoll

\* A worker that takes and gives back no lock of a file, and leaves no byte
\* unwritten, may go on to any file.
LEMMA WorkerTurns ==
  ASSUME PollInv, fatal = {}, NEW t \in Workers, NEW f \in PollFiles,
         NEW where \in ({"idle"} \cup EventfdAt \cup FirstLock),
         doing[t] \notin SecondLock, doing[t] # "wake",
         where \in EventfdAt => f \in Eventfds,
         where \in {"sr", "s1", "s2"} => Unfit(Resumes(where), counter[f]),
         doing' = [doing EXCEPT ![t] = where], tgt' = [tgt EXCEPT ![t] = f],
         epollOpen' \in BOOLEAN,
         UNCHANGED <<counter, hostReady, live, members, pipe, pipeOpen, waiters>>,
         UNCHANGED <<pollLock, fileLock, posted, late, told, leaked, fatal>>
  PROVE  PollInv'
<1>1. PollsTypeOK /\ PollPcs /\ LocksOwned /\ EventfdBounded /\ NoLostEventfdWake
  BY DEF PollInv, PollBase
<1>2. LocksExact /\ members \subseteq live /\ Counted /\ SleepersServed
  BY DEF PollInv, PollOrder
<1>3. /\ doing \in [PollThreads -> Whereabouts] /\ tgt \in [Workers -> PollFiles]
      /\ t \in PollThreads /\ t \notin Waiters /\ where \in Whereabouts /\ where \notin SecondLock
  <2>1. doing \in [PollThreads -> Whereabouts] /\ tgt \in [Workers -> PollFiles]
    BY <1>1 DEF PollsTypeOK
  <2>2. t \in PollThreads /\ t \notin Waiters
    BY PollsAssumption DEF PollThreads
  <2>3. where \in Whereabouts /\ where \notin SecondLock
    BY DEF EventfdAt, FirstLock, SecondLock, Whereabouts
  <2>. QED
    BY <2>1, <2>2, <2>3
<1>4. /\ \A u \in PollThreads : u # t => doing'[u] = doing[u]
      /\ \A u \in Workers : u # t => tgt'[u] = tgt[u]
      /\ doing'[t] = where /\ tgt'[t] = f
  BY <1>3
<1>5. \A w \in Waiters : doing'[w] = doing[w]
  BY <1>3, <1>4 DEF PollThreads
<1>6. PollsTypeOK'
  BY <1>1, <1>3 DEF PollsTypeOK
<1>7. PollPcs'
  BY <1>1, <1>4, <1>5 DEF PollPcs, PollThreads
<1>8. LocksOwned'
  <2>1. \A g \in PollFiles : \A u \in Workers :
          fileLock[g] = u => doing'[u] \in SecondLock \cup {"idle"}
    BY <1>1, <1>2, <1>4 DEF LocksOwned, LocksExact, FileLocksExact, PollThreads
  <2>. QED
    BY <1>1, <1>5, <2>1 DEF LocksOwned
<1>9. EventfdBounded'
  BY <1>1 DEF EventfdBounded
<1>10. NoLostEventfdWake'
  <2>. SUFFICES ASSUME NEW u \in Workers, doing'[u] \in {"sr", "s1", "s2"}, tgt'[u] \in live
                PROVE  Unfit(Resumes(doing'[u]), counter[tgt'[u]])
    BY DEF NoLostEventfdWake, Unfit
  <2>1. CASE u = t
    BY <1>4, <2>1
  <2>2. CASE u # t
    BY <1>1, <1>4, <2>2 DEF NoLostEventfdWake, PollThreads
  <2>. QED
    BY <2>1, <2>2
<1>11. LocksExact'
  <2>1. FileLocksExact'
    BY <1>2, <1>3, <1>4 DEF LocksExact, FileLocksExact, PollThreads
  <2>2. LockedIsLive'
    BY <1>2, <1>3, <1>4 DEF LocksExact, LockedIsLive, PollThreads
  <2>3. PollLockExact'
    BY <1>2, <1>5 DEF LocksExact, PollLockExact
  <2>. QED
    BY <2>1, <2>2, <2>3 DEF LocksExact
<1>12. Counted'
  BY <1>2, <1>5, WaitersStay DEF Counted
<1>13. SleepersServed'
  <2>. SUFFICES ASSUME ~leaked, WaitersAsleep # {}, pollLock = Nobody,
                       NEW e \in members \cap Eventfds, EventfdPoll(e)
                PROVE  \/ pipe > 0 \/ e \in late \/ e \in told
                       \/ \E u \in Workers : tgt'[u] = e /\ doing'[u] \in {"wake", "wakePoll"}
    BY <1>5, WaitersStay DEF SleepersServed, EventfdPoll
  <2>1. \/ pipe > 0 \/ e \in late \/ e \in told
        \/ \E u \in Workers : tgt[u] = e /\ doing[u] \in {"wake", "wakePoll"}
    BY <1>2 DEF SleepersServed
  <2>2. ASSUME NEW u \in Workers, tgt[u] = e, doing[u] \in {"wake", "wakePoll"}
        PROVE  tgt'[u] = e /\ doing'[u] \in {"wake", "wakePoll"}
    BY <1>4, <2>2 DEF PollThreads, SecondLock
  <2>. QED
    BY <2>1, <2>2
<1>. QED
  BY <1>2, <1>6, <1>7, <1>8, <1>9, <1>10, <1>11, <1>12, <1>13 DEF PollInv, PollBase, PollOrder

\* A thread that uses what was freed breaks off, with the locks it has.
LEMMA FreedEnds ==
  ASSUME PollInv, fatal = {}, NEW t \in PollThreads, NEW how \in {"get", "destroy"},
         UseFreed(t, how)
  PROVE  PollInv'
<1>1. PollsTypeOK /\ PollPcs /\ LocksOwned /\ EventfdBounded /\ NoLostEventfdWake
  BY DEF PollInv, PollBase
<1>2. /\ doing' = [doing EXCEPT ![t] = "idle"] /\ fatal' = fatal \cup {how}
      /\ UNCHANGED <<counter, hostReady, live, members, epollOpen, pipe, pipeOpen, waiters>>
      /\ UNCHANGED <<pollLock, fileLock, tgt, posted, late, told, leaked>>
  BY DEF UseFreed, Goes, pollFields, pollLocks
<1>3. doing \in [PollThreads -> Whereabouts]
  BY <1>1 DEF PollsTypeOK
<1>4. doing'[t] = "idle" /\ \A u \in PollThreads : u # t => doing'[u] = doing[u]
  BY <1>2, <1>3
<1>5. PollsTypeOK'
  <2>1. doing' \in [PollThreads -> Whereabouts]
    BY <1>2, <1>3 DEF Whereabouts
  <2>2. fatal' \subseteq {"get", "destroy", "twice"}
    BY <1>1, <1>2 DEF PollsTypeOK
  <2>. QED
    BY <1>1, <1>2, <2>1, <2>2 DEF PollsTypeOK
<1>6. PollPcs'
  BY <1>1, <1>2, <1>4 DEF PollPcs, PollThreads, PollAt, EventfdAt
<1>7. LocksOwned'
  BY <1>1, <1>2, <1>4 DEF LocksOwned, PollThreads
<1>8. EventfdBounded'
  BY <1>1, <1>2 DEF EventfdBounded
<1>9. NoLostEventfdWake'
  BY <1>1, <1>2, <1>4 DEF NoLostEventfdWake, PollThreads, Unfit
<1>10. fatal' # {}
  BY <1>2
<1>. QED
  BY <1>5, <1>6, <1>7, <1>8, <1>9, <1>10 DEF PollInv, PollBase

\* A worker takes the lock of a file that is allocated.
LEMMA FileLocked ==
  ASSUME PollInv, fatal = {}, NEW t \in Workers, NEW where \in SecondLock,
         doing[t] \in FirstLock, tgt[t] \in live, fileLock[tgt[t]] = Nobody,
         doing[t] = "wake" => where = "wakePoll",
         doing' = [doing EXCEPT ![t] = where], fileLock' = [fileLock EXCEPT ![tgt[t]] = t],
         UNCHANGED <<counter, hostReady, live, members, epollOpen, pipe, pipeOpen, waiters>>,
         UNCHANGED <<pollLock, tgt, posted, late, told, leaked, fatal>>
  PROVE  PollInv'
<1>1. PollsTypeOK /\ PollPcs /\ LocksOwned /\ EventfdBounded /\ NoLostEventfdWake
  BY DEF PollInv, PollBase
<1>2. LocksExact /\ members \subseteq live /\ Counted /\ SleepersServed
  BY DEF PollInv, PollOrder
<1>3. /\ doing \in [PollThreads -> Whereabouts] /\ tgt[t] \in PollFiles
      /\ fileLock \in [PollFiles -> PollThreads \cup {Nobody}]
      /\ t \in PollThreads /\ t \notin Waiters /\ where \in Whereabouts
  BY <1>1, PollsAssumption DEF PollsTypeOK, PollThreads, Whereabouts
<1>4. /\ \A u \in PollThreads : u # t => doing'[u] = doing[u]
      /\ \A g \in PollFiles : g # tgt[t] => fileLock'[g] = fileLock[g]
      /\ doing'[t] = where /\ fileLock'[tgt[t]] = t
  BY <1>3
<1>5. \A w \in Waiters : doing'[w] = doing[w]
  BY <1>3, <1>4 DEF PollThreads
<1>6. PollsTypeOK'
  BY <1>1, <1>3 DEF PollsTypeOK
<1>7. where \notin {"sr", "s1", "s2"} /\ where \notin EventfdAt /\ where # "idle"
  BY DEF SecondLock, EventfdAt
<1>8. PollPcs'
  BY <1>1, <1>4, <1>5, <1>7 DEF PollPcs, PollThreads
<1>9. doing[t] \notin SecondLock
  BY DEF FirstLock, SecondLock
<1>10. LocksOwned'
  <2>1. \A g \in PollFiles : fileLock'[g] \in Workers \cup {Nobody}
    BY <1>1, <1>4 DEF LocksOwned
  <2>2. ASSUME NEW g \in PollFiles, NEW u \in Workers, fileLock'[g] = u
        PROVE  doing'[u] \in SecondLock \cup {"idle"}
    BY <1>1, <1>4, <2>2 DEF LocksOwned, PollThreads
  <2>. QED
    BY <1>1, <1>5, <2>1, <2>2 DEF LocksOwned
<1>11. EventfdBounded'
  BY <1>1 DEF EventfdBounded
<1>12. NoLostEventfdWake'
  BY <1>1, <1>4, <1>7 DEF NoLostEventfdWake, PollThreads, Unfit
<1>13. LocksExact'
  <2>1. ASSUME NEW g \in PollFiles, NEW u \in Workers
        PROVE  (fileLock'[g] = u) <=> (doing'[u] \in SecondLock /\ tgt[u] = g)
    <3>1. (fileLock[g] = u) <=> (doing[u] \in SecondLock /\ tgt[u] = g)
      BY <1>2 DEF LocksExact, FileLocksExact
    <3>2. CASE u = t
      BY <1>3, <1>4, <1>9, <3>1, <3>2
    <3>3. CASE u # t /\ g = tgt[t]
      <4>1. fileLock[g] # u
        BY <3>3, PollsAssumption
      <4>. QED
        BY <1>3, <1>4, <3>1, <3>3, <4>1 DEF PollThreads
    <3>4. CASE u # t /\ g # tgt[t]
      BY <1>4, <3>1, <3>4 DEF PollThreads
    <3>. QED
      BY <3>2, <3>3, <3>4
  <2>2. FileLocksExact'
    BY <2>1 DEF FileLocksExact
  <2>3. LockedIsLive'
    BY <1>2, <1>4 DEF LocksExact, LockedIsLive, PollThreads
  <2>4. PollLockExact'
    BY <1>2, <1>5 DEF LocksExact, PollLockExact
  <2>. QED
    BY <2>2, <2>3, <2>4 DEF LocksExact
<1>14. Counted'
  BY <1>2, <1>5, WaitersStay DEF Counted
<1>15. SleepersServed'
  <2>. SUFFICES ASSUME ~leaked, WaitersAsleep # {}, pollLock = Nobody,
                       NEW e \in members \cap Eventfds, EventfdPoll(e)
                PROVE  \/ pipe > 0 \/ e \in late \/ e \in told
                       \/ \E u \in Workers : tgt[u] = e /\ doing'[u] \in {"wake", "wakePoll"}
    BY <1>5, WaitersStay DEF SleepersServed, EventfdPoll
  <2>1. \/ pipe > 0 \/ e \in late \/ e \in told
        \/ \E u \in Workers : tgt[u] = e /\ doing[u] \in {"wake", "wakePoll"}
    BY <1>2 DEF SleepersServed
  <2>2. ASSUME NEW u \in Workers, tgt[u] = e, doing[u] \in {"wake", "wakePoll"}
        PROVE  doing'[u] \in {"wake", "wakePoll"}
    BY <1>4, <2>2 DEF PollThreads, FirstLock
  <2>. QED
    BY <2>1, <2>2
<1>. QED
  BY <1>2, <1>6, <1>8, <1>10, <1>11, <1>12, <1>13, <1>14, <1>15
  DEF PollInv, PollBase, PollOrder

\* What is left of the threads and the locks when a worker gives its file's back.
LEMMA FileUnlocked ==
  ASSUME PollInv, fatal = {}, NEW t \in Workers, doing[t] \in SecondLock,
         doing' = [doing EXCEPT ![t] = "idle"],
         fileLock' = [fileLock EXCEPT ![tgt[t]] = Nobody],
         UNCHANGED <<pollLock, tgt>>
  PROVE  /\ doing' \in [PollThreads -> Whereabouts]
         /\ fileLock' \in [PollFiles -> PollThreads \cup {Nobody}]
         /\ PollPcs' /\ LocksOwned' /\ FileLocksExact' /\ PollLockExact'
         /\ \A w \in Waiters : doing'[w] = doing[w]
         /\ \A u \in Workers : doing'[u] = IF u = t THEN "idle" ELSE doing[u]
         /\ \A u \in Workers : doing'[u] \in SecondLock => tgt[u] \in live /\ tgt[u] # tgt[t]
<1>1. PollsTypeOK /\ PollPcs /\ LocksOwned /\ LocksExact
  BY DEF PollInv, PollBase, PollOrder
<1>2. /\ doing \in [PollThreads -> Whereabouts] /\ tgt[t] \in PollFiles
      /\ fileLock \in [PollFiles -> PollThreads \cup {Nobody}]
      /\ t \in PollThreads /\ t \notin Waiters /\ "idle" \in Whereabouts
  BY <1>1, PollsAssumption DEF PollsTypeOK, PollThreads, Whereabouts
<1>3. /\ \A u \in PollThreads : u # t => doing'[u] = doing[u]
      /\ \A g \in PollFiles : g # tgt[t] => fileLock'[g] = fileLock[g]
      /\ doing'[t] = "idle" /\ fileLock'[tgt[t]] = Nobody
  BY <1>2
<1>4. /\ \A w \in Waiters : doing'[w] = doing[w]
      /\ \A u \in Workers : doing'[u] = IF u = t THEN "idle" ELSE doing[u]
  BY <1>2, <1>3 DEF PollThreads
<1>5. doing' \in [PollThreads -> Whereabouts]
  BY <1>2
<1>6. fileLock' \in [PollFiles -> PollThreads \cup {Nobody}]
  BY <1>2
<1>7. PollPcs'
  BY <1>1, <1>4 DEF PollPcs, EventfdAt
<1>8. fileLock[tgt[t]] = t
  BY <1>1, <1>2 DEF LocksExact, FileLocksExact
<1>9. LocksOwned'
  <2>1. \A g \in PollFiles : fileLock'[g] \in Workers \cup {Nobody}
    BY <1>1, <1>3 DEF LocksOwned
  <2>2. ASSUME NEW g \in PollFiles, NEW u \in Workers, fileLock'[g] = u
        PROVE  doing'[u] \in SecondLock \cup {"idle"}
    <3>1. g # tgt[t]
      BY <1>3, <2>2, PollsAssumption
    <3>2. fileLock[g] = u
      BY <1>3, <2>2, <3>1
    <3>. QED
      BY <1>1, <1>4, <3>2 DEF LocksOwned
  <2>. QED
    BY <1>1, <1>4, <2>1, <2>2 DEF LocksOwned
<1>10. \A u \in Workers : u # t /\ doing[u] \in SecondLock => tgt[u] \in live /\ tgt[u] # tgt[t]
  BY <1>1, <1>2, <1>8 DEF LocksExact, FileLocksExact, LockedIsLive
<1>11. "idle" \notin SecondLock
  BY DEF SecondLock
<1>12. FileLocksExact'
  <2>1. ASSUME NEW g \in PollFiles, NEW u \in Workers
        PROVE  (fileLock'[g] = u) <=> (doing'[u] \in SecondLock /\ tgt[u] = g)
    <3>1. (fileLock[g] = u) <=> (doing[u] \in SecondLock /\ tgt[u] = g)
      BY <1>1 DEF LocksExact, FileLocksExact
    <3>2. CASE g = tgt[t]
      <4>1. fileLock'[g] # u
        BY <1>3, <3>2, PollsAssumption
      <4>2. ~(doing'[u] \in SecondLock /\ tgt[u] = g)
        BY <1>4, <1>10, <1>11, <3>2
      <4>. QED
        BY <4>1, <4>2
    <3>3. CASE g # tgt[t]
      BY <1>3, <1>4, <1>11, <3>1, <3>3
    <3>. QED
      BY <3>2, <3>3
  <2>. QED
    BY <2>1 DEF FileLocksExact
<1>13. PollLockExact'
  BY <1>1, <1>4 DEF LocksExact, PollLockExact
<1>. QED
  BY <1>4, <1>5, <1>6, <1>7, <1>9, <1>10, <1>11, <1>12, <1>13

\* poll_wake writes a byte to the pipe that sleepers have open.
LEMMA WakeHolds ==
  ASSUME PollInv, fatal = {}, NEW t \in Workers, PollWake(t)
  PROVE  PollInv'
<1>1. PollsTypeOK /\ PollPcs /\ LocksOwned /\ EventfdBounded /\ NoLostEventfdWake
  BY DEF PollInv, PollBase
<1>2. LocksExact /\ members \subseteq live /\ Counted /\ SleepersServed
  BY DEF PollInv, PollOrder
<1>3. /\ doing[t] = "wakePoll" /\ (tgt[t] \in members => pollLock = Nobody)
      /\ pipe' = IF tgt[t] \in members /\ pipeOpen /\ pipe < MaxBytes THEN pipe + 1 ELSE pipe
      /\ fileLock' = [fileLock EXCEPT ![tgt[t]] = Nobody]
      /\ doing' = [doing EXCEPT ![t] = "idle"]
      /\ UNCHANGED <<counter, hostReady, live, members, epollOpen, pipeOpen, waiters>>
      /\ UNCHANGED <<pollLock, tgt, posted, late, told, leaked, fatal>>
  BY DEF PollWake, Goes, pollGhosts
<1>4. doing[t] \in SecondLock
  BY <1>3 DEF SecondLock
<1>5. /\ doing' \in [PollThreads -> Whereabouts]
      /\ fileLock' \in [PollFiles -> PollThreads \cup {Nobody}]
      /\ PollPcs' /\ LocksOwned' /\ FileLocksExact' /\ PollLockExact'
      /\ \A w \in Waiters : doing'[w] = doing[w]
      /\ \A u \in Workers : doing'[u] = IF u = t THEN "idle" ELSE doing[u]
      /\ \A u \in Workers : doing'[u] \in SecondLock => tgt[u] \in live /\ tgt[u] # tgt[t]
  BY <1>3, <1>4, FileUnlocked
<1>6. PollsTypeOK'
  <2>1. pipe' \in 0 .. MaxBytes
    BY <1>1, <1>3, PollsAssumption DEF PollsTypeOK
  <2>. QED
    BY <1>1, <1>3, <1>5, <2>1 DEF PollsTypeOK
<1>7. EventfdBounded'
  BY <1>1, <1>3 DEF EventfdBounded
<1>8. NoLostEventfdWake'
  BY <1>1, <1>3, <1>5 DEF NoLostEventfdWake, Unfit
<1>9. LocksExact'
  BY <1>3, <1>5 DEF LocksExact, LockedIsLive
<1>10. Counted'
  BY <1>2, <1>3, <1>5, WaitersStay DEF Counted
<1>11. SleepersServed'
  <2>. SUFFICES ASSUME ~leaked, WaitersAsleep # {}, pollLock = Nobody,
                       NEW e \in members \cap Eventfds, EventfdPoll(e)
                PROVE  \/ pipe' > 0 \/ e \in late \/ e \in told
                       \/ \E u \in Workers : tgt[u] = e /\ doing'[u] \in {"wake", "wakePoll"}
    BY <1>3, <1>5, WaitersStay DEF SleepersServed, EventfdPoll
  <2>1. \/ pipe > 0 \/ e \in late \/ e \in told
        \/ \E u \in Workers : tgt[u] = e /\ doing[u] \in {"wake", "wakePoll"}
    BY <1>2 DEF SleepersServed
  <2>2. pipeOpen
    BY <1>2 DEF Counted, InWait, WaitersAsleep, InPoll, PollAt
  <2>3. pipe \in 0 .. MaxBytes
    BY <1>1 DEF PollsTypeOK
  <2>4. CASE tgt[t] = e
    BY <1>3, <2>2, <2>3, <2>4, PollsAssumption
  <2>5. CASE tgt[t] # e
    <3>1. \A u \in Workers : tgt[u] = e => doing'[u] = doing[u]
      BY <1>5, <2>5
    <3>2. pipe > 0 => pipe' > 0
      BY <1>3, <2>3
    <3>. QED
      BY <2>1, <3>1, <3>2
  <2>. QED
    BY <2>4, <2>5
<1>. QED
  BY <1>2, <1>3, <1>5, <1>6, <1>7, <1>8, <1>9, <1>10, <1>11 DEF PollInv, PollBase, PollOrder

\* poll_add_fd: a file that comes while somebody sleeps is late.
LEMMA AddHolds ==
  ASSUME PollInv, fatal = {}, NEW t \in Workers, PollAddFd(t)
  PROVE  PollInv'
<1>1. PollsTypeOK /\ PollPcs /\ LocksOwned /\ EventfdBounded /\ NoLostEventfdWake
  BY DEF PollInv, PollBase
<1>2. LocksExact /\ members \subseteq live /\ Counted /\ SleepersServed
  BY DEF PollInv, PollOrder
<1>3. /\ doing[t] = "addPoll" /\ members' = members \cup {tgt[t]}
      /\ late' = IF WaitersAsleep # {} THEN late \cup {tgt[t]} ELSE late
      /\ fatal' \in {fatal, fatal \cup {"twice"}}
      /\ fileLock' = [fileLock EXCEPT ![tgt[t]] = Nobody]
      /\ doing' = [doing EXCEPT ![t] = "idle"]
      /\ UNCHANGED <<counter, hostReady, live, epollOpen, pipe, pipeOpen, waiters>>
      /\ UNCHANGED <<pollLock, tgt, posted, told, leaked>>
  BY DEF PollAddFd, Goes
<1>4. doing[t] \in SecondLock /\ tgt[t] \in PollFiles
  BY <1>1, <1>3 DEF SecondLock, PollsTypeOK
<1>5. /\ doing' \in [PollThreads -> Whereabouts]
      /\ fileLock' \in [PollFiles -> PollThreads \cup {Nobody}]
      /\ PollPcs' /\ LocksOwned' /\ FileLocksExact' /\ PollLockExact'
      /\ \A w \in Waiters : doing'[w] = doing[w]
      /\ \A u \in Workers : doing'[u] = IF u = t THEN "idle" ELSE doing[u]
      /\ \A u \in Workers : doing'[u] \in SecondLock => tgt[u] \in live /\ tgt[u] # tgt[t]
  BY <1>3, <1>4, FileUnlocked
<1>6. PollsTypeOK'
  <2>1. fatal' \subseteq {"get", "destroy", "twice"}
    BY <1>1, <1>3 DEF PollsTypeOK
  <2>2. members' \subseteq PollFiles /\ late' \subseteq PollFiles
    BY <1>1, <1>3, <1>4 DEF PollsTypeOK
  <2>. QED
    BY <1>1, <1>3, <1>5, <2>1, <2>2 DEF PollsTypeOK
<1>7. EventfdBounded'
  BY <1>1, <1>3 DEF EventfdBounded
<1>8. NoLostEventfdWake'
  BY <1>1, <1>3, <1>5 DEF NoLostEventfdWake, Unfit
<1>9. LocksExact'
  BY <1>3, <1>5 DEF LocksExact, LockedIsLive
<1>10. members' \subseteq live'
  BY <1>2, <1>3, <1>4 DEF LocksExact, LockedIsLive
<1>11. Counted'
  BY <1>2, <1>3, <1>5, WaitersStay DEF Counted
<1>12. SleepersServed'
  <2>. SUFFICES ASSUME ~leaked, WaitersAsleep # {}, pollLock = Nobody,
                       NEW e \in members' \cap Eventfds, EventfdPoll(e)
                PROVE  \/ pipe > 0 \/ e \in late' \/ e \in told
                       \/ \E u \in Workers : tgt[u] = e /\ doing'[u] \in {"wake", "wakePoll"}
    BY <1>3, <1>5, WaitersStay DEF SleepersServed, EventfdPoll
  <2>1. CASE e = tgt[t]
    BY <1>3, <2>1
  <2>2. CASE e # tgt[t]
    <3>1. \/ pipe > 0 \/ e \in late \/ e \in told
          \/ \E u \in Workers : tgt[u] = e /\ doing[u] \in {"wake", "wakePoll"}
      BY <1>2, <1>3, <2>2 DEF SleepersServed
    <3>2. \A u \in Workers : tgt[u] = e => doing'[u] = doing[u]
      BY <1>5, <2>2
    <3>. QED
      BY <1>3, <3>1, <3>2
  <2>. QED
    BY <2>1, <2>2
<1>. QED
  BY <1>5, <1>6, <1>7, <1>8, <1>9, <1>10, <1>11, <1>12 DEF PollInv, PollBase, PollOrder

\* poll_del_fd, and fd_close, which also frees the file: nobody else has its lock.
LEMMA RemovalHolds ==
  ASSUME PollInv, fatal = {}, NEW t \in Workers, PollDelFd(t) \/ FdClose(t)
  PROVE  PollInv'
<1>1. PollsTypeOK /\ PollPcs /\ LocksOwned /\ EventfdBounded /\ NoLostEventfdWake
  BY DEF PollInv, PollBase
<1>2. LocksExact /\ members \subseteq live /\ Counted /\ SleepersServed
  BY DEF PollInv, PollOrder
<1>3. /\ doing[t] \in {"delPoll", "closePoll"}
      /\ members' = members \ {tgt[t]} /\ late' = late \ {tgt[t]} /\ told' = told \ {tgt[t]}
      /\ fileLock' = [fileLock EXCEPT ![tgt[t]] = Nobody]
      /\ doing' = [doing EXCEPT ![t] = "idle"]
      /\ UNCHANGED <<epollOpen, pipe, pipeOpen, waiters, pollLock, tgt, posted, leaked, fatal>>
  BY DEF PollDelFd, FdClose, Goes
<1>4. \/ UNCHANGED <<counter, live, hostReady>>
      \/ /\ live' = live \ {tgt[t]} /\ hostReady' = hostReady \ {tgt[t]}
         /\ counter' = IF tgt[t] \in Eventfds THEN [counter EXCEPT ![tgt[t]] = 0] ELSE counter
  BY DEF PollDelFd, FdClose
<1>5. doing[t] \in SecondLock /\ tgt[t] \in PollFiles
  BY <1>1, <1>3 DEF SecondLock, PollsTypeOK
<1>6. /\ doing' \in [PollThreads -> Whereabouts]
      /\ fileLock' \in [PollFiles -> PollThreads \cup {Nobody}]
      /\ PollPcs' /\ LocksOwned' /\ FileLocksExact' /\ PollLockExact'
      /\ \A w \in Waiters : doing'[w] = doing[w]
      /\ \A u \in Workers : doing'[u] = IF u = t THEN "idle" ELSE doing[u]
      /\ \A u \in Workers : doing'[u] \in SecondLock => tgt[u] \in live /\ tgt[u] # tgt[t]
  BY <1>3, <1>5, FileUnlocked
<1>7. /\ counter' \in [Eventfds -> 0 .. MaxVal]
      /\ \A e \in Eventfds : counter'[e] \in {0, counter[e]}
      /\ \A e \in Eventfds : e # tgt[t] => counter'[e] = counter[e]
  <2>1. counter \in [Eventfds -> 0 .. MaxVal] /\ 0 \in 0 .. MaxVal
    BY <1>1, PollsAssumption DEF PollsTypeOK
  <2>. QED
    BY <1>4, <2>1
<1>8. live' \subseteq live /\ hostReady' \subseteq hostReady /\ live \ {tgt[t]} \subseteq live'
  BY <1>4
<1>9. PollsTypeOK'
  BY <1>1, <1>3, <1>6, <1>7, <1>8 DEF PollsTypeOK
<1>10. EventfdBounded'
  BY <1>1, <1>7, PollsAssumption DEF EventfdBounded
<1>11. NoLostEventfdWake'
  <2>. SUFFICES ASSUME NEW u \in Workers, doing'[u] \in {"sr", "s1", "s2"}, tgt'[u] \in live'
                PROVE  Unfit(Resumes(doing'[u]), counter'[tgt'[u]])
    BY DEF NoLostEventfdWake, Unfit
  <2>1. u # t /\ doing'[u] = doing[u] /\ tgt'[u] = tgt[u] /\ tgt[u] \in live
    BY <1>3, <1>6, <1>8
  <2>2. tgt[u] \in Eventfds
    BY <1>1, <2>1 DEF PollPcs, EventfdAt
  <2>3. counter'[tgt[u]] = counter[tgt[u]]
    BY <1>3, <1>4, <1>7, <2>1, <2>2
  <2>. QED
    BY <1>1, <2>1, <2>3 DEF NoLostEventfdWake
<1>12. LocksExact'
  BY <1>3, <1>6, <1>8 DEF LocksExact, LockedIsLive
<1>13. members' \subseteq live'
  BY <1>2, <1>3, <1>8
<1>14. Counted'
  BY <1>2, <1>3, <1>6, WaitersStay DEF Counted
<1>15. SleepersServed'
  <2>. SUFFICES ASSUME ~leaked, WaitersAsleep # {}, pollLock = Nobody,
                       NEW e \in members' \cap Eventfds, counter'[e] > 0
                PROVE  \/ pipe > 0 \/ e \in late' \/ e \in told'
                       \/ \E u \in Workers : tgt[u] = e /\ doing'[u] \in {"wake", "wakePoll"}
    BY <1>3, <1>6, WaitersStay DEF SleepersServed, EventfdPoll
  <2>1. e # tgt[t] /\ counter[e] > 0 /\ e \in members
    BY <1>3, <1>7
  <2>2. \/ pipe > 0 \/ e \in late \/ e \in told
        \/ \E u \in Workers : tgt[u] = e /\ doing[u] \in {"wake", "wakePoll"}
    BY <1>2, <2>1 DEF SleepersServed, EventfdPoll
  <2>3. \A u \in Workers : tgt[u] = e => doing'[u] = doing[u]
    BY <1>6, <2>1
  <2>. QED
    BY <1>3, <2>1, <2>2, <2>3
<1>. QED
  BY <1>6, <1>9, <1>10, <1>11, <1>12, <1>13, <1>14, <1>15 DEF PollInv, PollBase, PollOrder

\* A change of a counter: everybody who slept at it has been notified, and the
\* one that made it is about to call poll_wake.
LEMMA DoneHolds ==
  ASSUME PollInv, fatal = {}, NEW t \in Workers, EventfdDone(t)
  PROVE  PollInv'
<1>1. PollsTypeOK /\ PollPcs /\ LocksOwned /\ EventfdBounded /\ NoLostEventfdWake
  BY DEF PollInv, PollBase
<1>2. LocksExact /\ members \subseteq live /\ Counted /\ SleepersServed
  BY DEF PollInv, PollOrder
<1>. DEFINE e == tgt[t]
            Told(u) == CASE doing[u] = "sr" -> "nr" [] doing[u] = "s1" -> "n1" [] OTHER -> "n2"
            At(u) == IF u = t THEN "wake"
                     ELSE IF doing[u] \in {"sr", "s1", "s2"} /\ tgt[u] = e THEN Told(u)
                     ELSE doing[u]
<1>3. /\ doing[t] \in {"rd", "w1", "w2"} /\ e \in live /\ ~Unfit(doing[t], counter[e])
      /\ counter' = [counter EXCEPT ![e] = Applied(doing[t], counter[e])]
      /\ doing' = [u \in PollThreads |-> At(u)]
      /\ told' = IF counter'[e] > 0 THEN told ELSE told \ {e}
      /\ UNCHANGED <<hostReady, live, members, epollOpen, pipe, pipeOpen, waiters>>
      /\ UNCHANGED <<pollLock, fileLock, tgt, posted, late, leaked, fatal>>
  BY DEF EventfdDone, pollFields, pollLocks
<1>4. /\ e \in Eventfds /\ counter[e] \in 0 .. MaxVal /\ counter \in [Eventfds -> 0 .. MaxVal]
      /\ counter[e] < MaxVal
  BY <1>1, <1>3 DEF PollPcs, EventfdAt, PollsTypeOK, EventfdBounded
<1>5. Applied(doing[t], counter[e]) \in 0 .. MaxVal /\ Applied(doing[t], counter[e]) < MaxVal
  BY <1>3, <1>4, PollsAssumption DEF Applied, Unfit, AddedBy
<1>6. /\ counter' \in [Eventfds -> 0 .. MaxVal] /\ counter'[e] < MaxVal
      /\ \A d \in Eventfds : d # e => counter'[d] = counter[d]
  BY <1>3, <1>4, <1>5
<1>7. /\ t \in PollThreads /\ t \notin Waiters
      /\ doing \in [PollThreads -> Whereabouts] /\ tgt \in [Workers -> PollFiles]
  BY <1>1, PollsAssumption DEF PollThreads, PollsTypeOK
<1>8. \A u \in PollThreads : At(u) \in Whereabouts
  BY <1>7 DEF Whereabouts, EventfdAt, FirstLock
<1>9. /\ \A w \in Waiters : doing'[w] = doing[w]
      /\ doing'[t] = "wake"
      /\ \A u \in Workers :
            \/ doing'[u] = doing[u]
            \/ u = t
            \/ tgt[u] = e /\ doing[u] \in {"sr", "s1", "s2"} /\ doing'[u] \in {"nr", "n1", "n2"}
      /\ \A u \in Workers : doing'[u] \in {"sr", "s1", "s2"} => doing'[u] = doing[u] /\ tgt[u] # e
  <2>1. \A u \in PollThreads : doing'[u] = At(u)
    BY <1>3
  <2>2. \A w \in Waiters : doing[w] \notin {"sr", "s1", "s2"}
    BY <1>1 DEF PollPcs, PollAt
  <2>. QED
    BY <1>7, <2>1, <2>2 DEF PollThreads
<1>10. PollsTypeOK'
  <2>1. doing' \in [PollThreads -> Whereabouts]
    BY <1>3, <1>8
  <2>2. told' \subseteq PollFiles
    BY <1>1, <1>3 DEF PollsTypeOK
  <2>. QED
    BY <1>1, <1>3, <1>6, <2>1, <2>2 DEF PollsTypeOK
<1>11. PollPcs'
  <2>1. ASSUME NEW u \in Workers
        PROVE  /\ doing'[u] \in {"idle"} \cup EventfdAt \cup FirstLock \cup SecondLock
               /\ doing'[u] \in EventfdAt => tgt[u] \in Eventfds
    BY <1>1, <1>4, <1>9 DEF PollPcs, EventfdAt, FirstLock
  <2>. QED
    BY <1>1, <1>3, <1>9, <2>1 DEF PollPcs
<1>12. \A u \in Workers :
          doing'[u] \in SecondLock \cup {"idle"} <=> doing[u] \in SecondLock \cup {"idle"}
  BY <1>3, <1>9 DEF SecondLock
<1>13. \A u \in Workers : doing'[u] \in SecondLock <=> doing[u] \in SecondLock
  BY <1>3, <1>9 DEF SecondLock
<1>14. LocksOwned'
  BY <1>1, <1>3, <1>9, <1>12 DEF LocksOwned
<1>15. EventfdBounded'
  BY <1>1, <1>6 DEF EventfdBounded
<1>16. NoLostEventfdWake'
  <2>. SUFFICES ASSUME NEW u \in Workers, doing'[u] \in {"sr", "s1", "s2"}, tgt'[u] \in live'
                PROVE  Unfit(Resumes(doing'[u]), counter'[tgt'[u]])
    BY DEF NoLostEventfdWake, Unfit
  <2>1. doing'[u] = doing[u] /\ tgt'[u] = tgt[u] /\ tgt[u] # e /\ tgt[u] \in live
    BY <1>3, <1>9
  <2>2. tgt[u] \in Eventfds
    BY <1>1, <2>1 DEF PollPcs, EventfdAt
  <2>3. counter'[tgt[u]] = counter[tgt[u]]
    BY <1>6, <2>1, <2>2
  <2>. QED
    BY <1>1, <2>1, <2>3 DEF NoLostEventfdWake
<1>17. LocksExact'
  <2>1. FileLocksExact'
    BY <1>2, <1>3, <1>13 DEF LocksExact, FileLocksExact
  <2>2. LockedIsLive'
    BY <1>2, <1>3, <1>13 DEF LocksExact, LockedIsLive
  <2>3. PollLockExact'
    BY <1>2, <1>3, <1>9 DEF LocksExact, PollLockExact
  <2>. QED
    BY <2>1, <2>2, <2>3 DEF LocksExact
<1>18. Counted'
  BY <1>2, <1>3, <1>9, WaitersStay DEF Counted
<1>19. SleepersServed'
  <2>. SUFFICES ASSUME ~leaked, WaitersAsleep # {}, pollLock = Nobody,
                       NEW d \in members \cap Eventfds, counter'[d] > 0
                PROVE  \/ pipe > 0 \/ d \in late \/ d \in told'
                       \/ \E u \in Workers : tgt[u] = d /\ doing'[u] \in {"wake", "wakePoll"}
    BY <1>3, <1>9, WaitersStay DEF SleepersServed, EventfdPoll
  <2>1. CASE d = e
    BY <1>9, <2>1
  <2>2. CASE d # e
    <3>1. counter[d] > 0 /\ (d \in told' <=> d \in told)
      BY <1>3, <1>6, <2>2
    <3>2. \/ pipe > 0 \/ d \in late \/ d \in told
          \/ \E u \in Workers : tgt[u] = d /\ doing[u] \in {"wake", "wakePoll"}
      BY <1>2, <3>1 DEF SleepersServed, EventfdPoll
    <3>3. \A u \in Workers : tgt[u] = d => doing'[u] = doing[u]
      BY <1>9, <2>2
    <3>. QED
      BY <3>1, <3>2, <3>3
  <2>. QED
    BY <2>1, <2>2
<1>. QED
  BY <1>2, <1>3, <1>10, <1>11, <1>14, <1>15, <1>16, <1>17, <1>18, <1>19
  DEF PollInv, PollBase, PollOrder

\* What a step of one waiter leaves as it was, and the lock of the poll, which it
\* takes for its scan, gives back after it or does not touch.
LEMMA WaiterTurns ==
  ASSUME PollInv, fatal = {}, NEW w \in Waiters, NEW where \in {"idle"} \cup PollAt,
         doing' = [doing EXCEPT ![w] = where],
         \/ pollLock' = pollLock /\ doing[w] # "scan" /\ where # "scan"
         \/ pollLock = Nobody /\ pollLock' = w /\ where = "scan"
         \/ doing[w] = "scan" /\ pollLock' = Nobody /\ where # "scan",
         UNCHANGED <<counter, hostReady, live, members, fileLock, tgt, posted, late, fatal>>
  PROVE  /\ doing' \in [PollThreads -> Whereabouts] /\ pollLock' \in PollThreads \cup {Nobody}
         /\ PollPcs' /\ LocksOwned' /\ EventfdBounded' /\ NoLostEventfdWake'
         /\ LocksExact' /\ members' \subseteq live'
         /\ InWait' = (IF where \in PollAt THEN InWait \cup {w} ELSE InWait \ {w})
         /\ WaitersAsleep' = (IF where = "asleep" THEN WaitersAsleep \cup {w}
                              ELSE WaitersAsleep \ {w})
         /\ \A t \in Workers : doing'[t] = doing[t]
<1>1. PollsTypeOK /\ PollPcs /\ LocksOwned /\ EventfdBounded /\ NoLostEventfdWake
  BY DEF PollInv, PollBase
<1>2. LocksExact /\ members \subseteq live
  BY DEF PollInv, PollOrder
<1>3. /\ doing \in [PollThreads -> Whereabouts] /\ where \in Whereabouts
      /\ w \in PollThreads /\ w \notin Workers /\ w # Nobody
  BY <1>1, PollsAssumption DEF PollsTypeOK, PollThreads, Whereabouts
<1>4. doing'[w] = where /\ \A u \in PollThreads : u # w => doing'[u] = doing[u]
  BY <1>3
<1>5. \A t \in Workers : doing'[t] = doing[t]
  BY <1>3, <1>4 DEF PollThreads
<1>6. doing' \in [PollThreads -> Whereabouts]
  BY <1>3
<1>7. pollLock' \in Waiters \cup {Nobody}
  BY <1>1 DEF LocksOwned
<1>8. PollPcs'
  BY <1>1, <1>4, <1>5 DEF PollPcs, PollThreads
<1>9. \A v \in Waiters : (pollLock' = v) <=> (doing'[v] = "scan")
  <2>. SUFFICES ASSUME NEW v \in Waiters PROVE (pollLock' = v) <=> (doing'[v] = "scan")
    OBVIOUS
  <2>1. (pollLock = v) <=> (doing[v] = "scan")
    BY <1>2 DEF LocksExact, PollLockExact
  <2>2. (pollLock = w) <=> (doing[w] = "scan")
    BY <1>2 DEF LocksExact, PollLockExact
  <2>3. v # Nobody
    BY PollsAssumption
  <2>4. CASE v = w
    BY <1>3, <1>4, <2>2, <2>4
  <2>5. CASE v # w
    BY <1>3, <1>4, <2>1, <2>2, <2>3, <2>5 DEF PollThreads
  <2>. QED
    BY <2>4, <2>5
<1>10. LocksOwned'
  BY <1>1, <1>5, <1>7, <1>9 DEF LocksOwned
<1>11. EventfdBounded' /\ NoLostEventfdWake'
  BY <1>1, <1>5 DEF EventfdBounded, NoLostEventfdWake, Unfit
<1>12. LocksExact'
  BY <1>2, <1>5, <1>9 DEF LocksExact, FileLocksExact, LockedIsLive, PollLockExact
<1>13. InWait' = IF where \in PollAt THEN InWait \cup {w} ELSE InWait \ {w}
  BY <1>4 DEF InWait, InPoll, PollThreads
<1>14. WaitersAsleep' = IF where = "asleep" THEN WaitersAsleep \cup {w} ELSE WaitersAsleep \ {w}
  BY <1>4 DEF WaitersAsleep, PollThreads
<1>. QED
  BY <1>2, <1>5, <1>6, <1>7, <1>8, <1>10, <1>11, <1>12, <1>13, <1>14 DEF PollThreads

\* How many wait is a number.
LEMMA WaitersAreCounted ==
  /\ IsFiniteSet(InWait) /\ Cardinality(InWait) \in Nat
  /\ \A w \in Waiters : w \notin InWait => Cardinality(InWait \cup {w}) = Cardinality(InWait) + 1
  /\ \A w \in InWait : /\ Cardinality(InWait \ {w}) = Cardinality(InWait) - 1
                       /\ Cardinality(InWait) >= 1
  /\ Cardinality(InWait) = 0 <=> InWait = {}
<1>1. InWait \subseteq Waiters
  BY DEF InWait
<1>2. IsFiniteSet(InWait) /\ Cardinality(InWait) \in Nat
  BY <1>1, PollsAssumption, FS_Subset, FS_CardinalityType
<1>3. \A w \in Waiters : w \notin InWait => Cardinality(InWait \cup {w}) = Cardinality(InWait) + 1
  BY <1>2, FS_AddElement
<1>4. \A w \in InWait : Cardinality(InWait \ {w}) = Cardinality(InWait) - 1
  BY <1>2, FS_RemoveElement
<1>5. Cardinality(InWait) = 0 <=> InWait = {}
  BY <1>2, FS_EmptySet
<1>6. \A w \in InWait : Cardinality(InWait) >= 1
  BY <1>2, <1>5
<1>. QED
  BY <1>2, <1>3, <1>4, <1>5, <1>6

\* A waiter that leaves is no longer counted, and closes the pipe if it was the last.
LEMMA LeavingCounts ==
  ASSUME Counted, waiters \in Nat, NEW w \in InWait, LeaveWait(w),
         InWait' = InWait \ {w}, UNCHANGED leaked
  PROVE  Counted' /\ waiters' \in Nat
<1>1. /\ waiters = Cardinality(InWait) + (IF leaked THEN 1 ELSE 0)
      /\ ~leaked /\ InWait # {} => pipeOpen
      /\ waiters' = waiters - 1 /\ pipeOpen' = (pipeOpen /\ waiters # 1)
  BY DEF Counted, LeaveWait
<1>2. /\ Cardinality(InWait) \in Nat /\ Cardinality(InWait) >= 1
      /\ Cardinality(InWait \ {w}) = Cardinality(InWait) - 1
  BY WaitersAreCounted
<1>3. IsFiniteSet(InWait \ {w})
  BY WaitersAreCounted, FS_RemoveElement
<1>4. Cardinality(InWait \ {w}) = 0 => InWait \ {w} = {}
  BY <1>3, FS_EmptySet
<1>5. waiters' = Cardinality(InWait \ {w}) + (IF leaked THEN 1 ELSE 0) /\ waiters' \in Nat
  <2>1. CASE leaked
    BY <1>1, <1>2, <2>1
  <2>2. CASE ~leaked
    BY <1>1, <1>2, <2>2
  <2>. QED
    BY <2>1, <2>2
<1>6. ~leaked /\ InWait \ {w} # {} => waiters # 1
  BY <1>1, <1>2, <1>4
<1>. QED
  BY <1>1, <1>5, <1>6 DEF Counted

\* poll_wait begins: the waiter is counted and the first has a pipe made.
LEMMA EnterHolds ==
  ASSUME PollInv, fatal = {}, NEW w \in Waiters, EnterWait(w)
  PROVE  PollInv'
<1>1. PollsTypeOK /\ PollPcs /\ LocksOwned /\ EventfdBounded /\ NoLostEventfdWake
  BY DEF PollInv, PollBase
<1>2. LocksExact /\ members \subseteq live /\ Counted /\ SleepersServed
  BY DEF PollInv, PollOrder
<1>3. /\ doing[w] = "idle" /\ pollLock = Nobody /\ pollLock' = w
      /\ waiters' = waiters + 1 /\ pipeOpen' = (pipeOpen \/ waiters = 0)
      /\ doing' = [doing EXCEPT ![w] = "scan"]
      /\ UNCHANGED <<counter, hostReady, live, members, fileLock, tgt, posted, late, fatal>>
      /\ UNCHANGED <<epollOpen, pipe, told, leaked>>
  BY DEF EnterWait, Goes, pollGhosts
<1>4. "scan" \in {"idle"} \cup PollAt /\ w \notin InWait
  BY <1>3 DEF PollAt, InWait, InPoll
<1>5. /\ doing' \in [PollThreads -> Whereabouts] /\ pollLock' \in PollThreads \cup {Nobody}
      /\ PollPcs' /\ LocksOwned' /\ EventfdBounded' /\ NoLostEventfdWake'
      /\ LocksExact' /\ members' \subseteq live'
      /\ InWait' = InWait \cup {w}
  BY <1>3, <1>4, WaiterTurns DEF PollAt
<1>6. PollsTypeOK'
  <2>1. waiters' \in Nat /\ pipeOpen' \in BOOLEAN
    BY <1>1, <1>3 DEF PollsTypeOK
  <2>. QED
    BY <1>1, <1>3, <1>5, <2>1 DEF PollsTypeOK
<1>7. Counted'
  <2>1. /\ waiters = Cardinality(InWait) + (IF leaked THEN 1 ELSE 0)
        /\ ~leaked /\ InWait # {} => pipeOpen
    BY <1>2 DEF Counted
  <2>2. /\ Cardinality(InWait') = Cardinality(InWait) + 1 /\ Cardinality(InWait) \in Nat
        /\ Cardinality(InWait) = 0 <=> InWait = {}
    BY <1>4, <1>5, WaitersAreCounted
  <2>3. CASE leaked
    BY <1>3, <2>1, <2>2, <2>3 DEF Counted
  <2>4. CASE ~leaked
    <3>3. waiters = Cardinality(InWait)
      BY <2>1, <2>2, <2>4
    <3>1. pipeOpen \/ waiters = 0
      BY <2>1, <2>2, <2>4, <3>3
    <3>2. waiters' = Cardinality(InWait') + 0
      BY <1>3, <2>1, <2>2, <2>4
    <3>. QED
      BY <1>3, <2>4, <3>1, <3>2 DEF Counted
  <2>. QED
    BY <2>3, <2>4
<1>8. SleepersServed'
  BY <1>3, PollsAssumption DEF SleepersServed
<1>. QED
  BY <1>5, <1>6, <1>7, <1>8 DEF PollInv, PollBase, PollOrder

\* A failed pipe() leaves the waiter counted: the poll is leaked.
LEMMA FailureHolds ==
  ASSUME PollInv, fatal = {}, NEW w \in Waiters, EnterFails(w)
  PROVE  PollInv'
<1>1. PollsTypeOK /\ PollPcs /\ LocksOwned /\ EventfdBounded /\ NoLostEventfdWake
  BY DEF PollInv, PollBase
<1>2. LocksExact /\ members \subseteq live /\ Counted /\ SleepersServed
  BY DEF PollInv, PollOrder
<1>3. /\ waiters = 0 /\ waiters' = 1 /\ leaked' = TRUE
      /\ UNCHANGED <<counter, hostReady, live, members, epollOpen, pipe, pipeOpen>>
      /\ UNCHANGED <<pollLock, fileLock, doing, tgt, posted, late, told, fatal>>
  BY DEF EnterFails, pollLocks
<1>4. InWait' = InWait /\ Cardinality(InWait) = 0
  <2>1. waiters = Cardinality(InWait) + (IF leaked THEN 1 ELSE 0) /\ leaked \in BOOLEAN
    BY <1>1, <1>2 DEF Counted, PollsTypeOK
  <2>2. Cardinality(InWait) \in Nat
    BY WaitersAreCounted
  <2>3. InWait' = InWait
    BY <1>3 DEF InWait, InPoll
  <2>. QED
    BY <1>3, <2>1, <2>2, <2>3
<1>5. PollsTypeOK'
  BY <1>1, <1>3 DEF PollsTypeOK
<1>6. PollPcs' /\ LocksOwned' /\ EventfdBounded' /\ NoLostEventfdWake'
  BY <1>1, <1>3 DEF PollPcs, LocksOwned, EventfdBounded, NoLostEventfdWake, Unfit
<1>7. LocksExact'
  BY <1>2, <1>3 DEF LocksExact, FileLocksExact, LockedIsLive, PollLockExact
<1>8. Counted' /\ SleepersServed'
  BY <1>3, <1>4 DEF Counted, SleepersServed
<1>. QED
  BY <1>2, <1>3, <1>5, <1>6, <1>7, <1>8 DEF PollInv, PollBase, PollOrder

\* The scan: what is ready is reported, and who sleeps has found nothing ready.
LEMMA ScanHolds ==
  ASSUME PollInv, fatal = {}, NEW w \in Waiters, Scan(w)
  PROVE  PollInv'
<1>1. PollsTypeOK /\ PollPcs /\ LocksOwned /\ EventfdBounded /\ NoLostEventfdWake
  BY DEF PollInv, PollBase
<1>2. LocksExact /\ members \subseteq live /\ Counted /\ SleepersServed
  BY DEF PollInv, PollOrder
<1>3. /\ doing[w] = "scan" /\ pollLock' = Nobody
      /\ UNCHANGED <<counter, hostReady, live, members, fileLock, tgt, posted, late, fatal>>
      /\ UNCHANGED <<epollOpen, leaked>>
  BY DEF Scan, LeaveWait
<1>4. /\ w \in InWait
      /\ "idle" \in {"idle"} \cup PollAt /\ "idle" \notin PollAt
      /\ "idle" # "scan" /\ "idle" # "asleep"
  BY <1>3 DEF InWait, InPoll, PollAt
<1>5. CASE members \cap Ready # {}
  <2>1. /\ LeaveWait(w) /\ doing' = [doing EXCEPT ![w] = "idle"]
        /\ pipe' = IF pipeOpen' THEN pipe ELSE 0
        /\ told' = told \cup (members \cap Ready)
    BY <1>5 DEF Scan, LeaveWait, Goes
  <2>2. /\ doing' \in [PollThreads -> Whereabouts] /\ pollLock' \in PollThreads \cup {Nobody}
        /\ PollPcs' /\ LocksOwned' /\ EventfdBounded' /\ NoLostEventfdWake'
        /\ LocksExact' /\ members' \subseteq live'
        /\ InWait' = InWait \ {w}
    BY <1>3, <1>4, <2>1, WaiterTurns
  <2>3. Counted' /\ waiters' \in Nat
    BY <1>1, <1>2, <1>3, <1>4, <2>1, <2>2, LeavingCounts DEF PollsTypeOK
  <2>4. PollsTypeOK'
    <3>1. pipe' \in 0 .. MaxBytes /\ pipeOpen' \in BOOLEAN
      BY <1>1, <2>1, PollsAssumption DEF PollsTypeOK, LeaveWait
    <3>2. told' \subseteq PollFiles
      BY <1>1, <2>1 DEF PollsTypeOK
    <3>. QED
      BY <1>1, <1>3, <2>2, <2>3, <3>1, <3>2 DEF PollsTypeOK
  <2>5. SleepersServed'
    BY <1>3, <2>1 DEF SleepersServed, Ready, EventfdPoll
  <2>. QED
    BY <2>2, <2>3, <2>4, <2>5 DEF PollInv, PollBase, PollOrder
<1>6. CASE members \cap Ready = {}
  <2>1. doing' = [doing EXCEPT ![w] = "asleep"] /\ UNCHANGED <<waiters, pipeOpen, pipe, told>>
    BY <1>6 DEF Scan, Goes
  <2>2. /\ doing' \in [PollThreads -> Whereabouts] /\ pollLock' \in PollThreads \cup {Nobody}
        /\ PollPcs' /\ LocksOwned' /\ EventfdBounded' /\ NoLostEventfdWake'
        /\ LocksExact' /\ members' \subseteq live'
        /\ InWait' = InWait \cup {w}
    BY <1>3, <2>1, WaiterTurns DEF PollAt
  <2>3. InWait' = InWait
    BY <1>4, <2>2
  <2>4. Counted'
    BY <1>2, <1>3, <2>1, <2>3 DEF Counted
  <2>5. PollsTypeOK'
    BY <1>1, <1>3, <2>1, <2>2 DEF PollsTypeOK
  <2>6. SleepersServed'
    BY <1>3, <1>6 DEF SleepersServed, Ready, EventfdPoll
  <2>. QED
    BY <2>2, <2>4, <2>5, <2>6 DEF PollInv, PollBase, PollOrder
<1>. QED
  BY <1>5, <1>6

\* The host's poll() returns and the waiter has yet to take the lock.
LEMMA HostWakesHolds ==
  ASSUME PollInv, fatal = {}, NEW w \in Waiters, NEW why \in {"byte", "host", "timeout"},
         HostWakes(w, why)
  PROVE  PollInv'
<1>1. PollsTypeOK
  BY DEF PollInv, PollBase
<1>2. Counted /\ SleepersServed
  BY DEF PollInv, PollOrder
<1>3. /\ doing[w] = "asleep" /\ doing' = [doing EXCEPT ![w] = why]
      /\ UNCHANGED <<counter, hostReady, live, members, fileLock, tgt, posted, late, fatal>>
      /\ UNCHANGED <<epollOpen, pipe, pipeOpen, waiters, pollLock, told, leaked>>
  BY DEF HostWakes, Goes, pollFields, pollLocks, pollGhosts
<1>4. why \in PollAt /\ why # "scan" /\ why # "asleep" /\ w \in InWait
  BY <1>3 DEF PollAt, InWait, InPoll
<1>5. /\ doing' \in [PollThreads -> Whereabouts] /\ pollLock' \in PollThreads \cup {Nobody}
      /\ PollPcs' /\ LocksOwned' /\ EventfdBounded' /\ NoLostEventfdWake'
      /\ LocksExact' /\ members' \subseteq live'
      /\ InWait' = InWait \cup {w} /\ WaitersAsleep' = WaitersAsleep \ {w}
      /\ \A t \in Workers : doing'[t] = doing[t]
  BY <1>3, <1>4, WaiterTurns
<1>6. PollsTypeOK'
  BY <1>1, <1>3, <1>5 DEF PollsTypeOK
<1>7. InWait' = InWait
  BY <1>4, <1>5
<1>8. Counted'
  BY <1>2, <1>3, <1>7 DEF Counted
<1>9. SleepersServed'
  BY <1>2, <1>3, <1>5 DEF SleepersServed, EventfdPoll
<1>. QED
  BY <1>5, <1>6, <1>8, <1>9 DEF PollInv, PollBase, PollOrder

\* A waiter that was woken scans again, or gives up and leaves the others the pipe.
LEMMA RelockHolds ==
  ASSUME PollInv, fatal = {}, NEW w \in Waiters, Relock(w)
  PROVE  PollInv'
<1>1. PollsTypeOK /\ PollPcs /\ LocksOwned /\ EventfdBounded /\ NoLostEventfdWake
  BY DEF PollInv, PollBase
<1>2. LocksExact /\ members \subseteq live /\ Counted /\ SleepersServed
  BY DEF PollInv, PollOrder
<1>3. /\ doing[w] \in {"byte", "host", "timeout"} /\ pollLock = Nobody
      /\ UNCHANGED <<counter, hostReady, live, members, fileLock, tgt, posted, late, fatal>>
      /\ UNCHANGED <<epollOpen, told, leaked>>
  BY DEF Relock, pollGhosts
<1>4. /\ w \in InWait
      /\ "idle" \in {"idle"} \cup PollAt /\ "idle" \notin PollAt
      /\ "idle" # "scan" /\ "idle" # "asleep"
  BY <1>3 DEF InWait, InPoll, PollAt
<1>5. CASE doing[w] = "timeout" \/ (doing[w] = "byte" /\ pipe = 0)
  <2>1. /\ LeaveWait(w) /\ pipe' = IF pipeOpen' THEN pipe ELSE 0
        /\ doing' = [doing EXCEPT ![w] = "idle"] /\ pollLock' = Nobody
    BY <1>5 DEF Relock, LeaveWait, Goes
  <2>2. /\ doing' \in [PollThreads -> Whereabouts] /\ pollLock' \in PollThreads \cup {Nobody}
        /\ PollPcs' /\ LocksOwned' /\ EventfdBounded' /\ NoLostEventfdWake'
        /\ LocksExact' /\ members' \subseteq live'
        /\ InWait' = InWait \ {w} /\ WaitersAsleep' = WaitersAsleep \ {w}
        /\ \A t \in Workers : doing'[t] = doing[t]
    BY <1>3, <1>4, <2>1, WaiterTurns
  <2>3. Counted' /\ waiters' \in Nat
    BY <1>1, <1>2, <1>3, <1>4, <2>1, <2>2, LeavingCounts DEF PollsTypeOK
  <2>4. PollsTypeOK'
    <3>1. pipe' \in 0 .. MaxBytes /\ pipeOpen' \in BOOLEAN
      BY <1>1, <2>1, PollsAssumption DEF PollsTypeOK, LeaveWait
    <3>. QED
      BY <1>1, <1>3, <2>2, <2>3, <3>1 DEF PollsTypeOK
  <2>5. SleepersServed'
    <3>. SUFFICES ASSUME ~leaked, WaitersAsleep' # {}
                  PROVE  SleepersServed'
      BY <1>3 DEF SleepersServed
    <3>1. InWait' # {} /\ WaitersAsleep # {}
      BY <2>2 DEF WaitersAsleep, InWait, InPoll, PollAt
    <3>2. pipe' = pipe
      BY <1>3, <2>1, <2>3, <3>1 DEF Counted
    <3>. QED
      BY <1>2, <1>3, <2>2, <3>1, <3>2 DEF SleepersServed, EventfdPoll
  <2>. QED
    BY <2>2, <2>3, <2>4, <2>5 DEF PollInv, PollBase, PollOrder
<1>6. CASE ~(doing[w] = "timeout" \/ (doing[w] = "byte" /\ pipe = 0))
  <2>1. /\ doing' = [doing EXCEPT ![w] = "scan"] /\ pollLock' = w
        /\ pipe' = IF doing[w] = "byte" THEN pipe - 1 ELSE pipe
        /\ UNCHANGED <<waiters, pipeOpen>>
    BY <1>6 DEF Relock, Goes
  <2>2. /\ doing' \in [PollThreads -> Whereabouts] /\ pollLock' \in PollThreads \cup {Nobody}
        /\ PollPcs' /\ LocksOwned' /\ EventfdBounded' /\ NoLostEventfdWake'
        /\ LocksExact' /\ members' \subseteq live'
        /\ InWait' = InWait \cup {w}
    BY <1>3, <2>1, WaiterTurns DEF PollAt
  <2>3. InWait' = InWait
    BY <1>4, <2>2
  <2>4. Counted'
    BY <1>2, <1>3, <2>1, <2>3 DEF Counted
  <2>5. PollsTypeOK'
    <3>1. pipe' \in 0 .. MaxBytes
      <4>1. pipe \in 0 .. MaxBytes /\ MaxBytes \in Nat
        BY <1>1, PollsAssumption DEF PollsTypeOK
      <4>2. CASE doing[w] = "byte"
        BY <1>6, <2>1, <4>1, <4>2
      <4>3. CASE doing[w] # "byte"
        BY <2>1, <4>1, <4>3
      <4>. QED
        BY <4>2, <4>3
    <3>. QED
      BY <1>1, <1>3, <2>1, <2>2, <3>1 DEF PollsTypeOK
  <2>6. SleepersServed'
    BY <2>1, PollsAssumption DEF SleepersServed
  <2>. QED
    BY <2>2, <2>4, <2>5, <2>6 DEF PollInv, PollBase, PollOrder
<1>. QED
  BY <1>5, <1>6

\* A walk of poll_destroy, that takes the files out one by one.
LEMMA DestroyHolds ==
  ASSUME PollInv, fatal = {}, NEW t \in Workers, DestroyOne(t)
  PROVE  PollInv'
<1>1. PollsTypeOK /\ PollPcs /\ LocksOwned /\ EventfdBounded /\ NoLostEventfdWake
  BY DEF PollInv, PollBase
<1>2. LocksExact /\ members \subseteq live /\ Counted /\ SleepersServed
  BY DEF PollInv, PollOrder
<1>3. /\ doing[t] = "destroy" /\ members' = members \ {tgt[t]}
      /\ late' = late \ {tgt[t]} /\ told' = told \ {tgt[t]}
      /\ UNCHANGED <<counter, hostReady, live, pipe, pipeOpen, waiters>>
      /\ UNCHANGED <<pollLock, fileLock, posted, leaked, fatal>>
      /\ epollOpen' = (members' # {})
  BY DEF DestroyOne, pollLocks
<1>4. \E where \in {"idle", "destroy"}, f \in PollFiles :
         doing' = [doing EXCEPT ![t] = where] /\ tgt' = [tgt EXCEPT ![t] = f]
  <2>1. CASE members' = {}
    <3>1. doing' = [doing EXCEPT ![t] = "idle"] /\ tgt' = tgt
      BY <2>1 DEF DestroyOne, Goes
    <3>2. tgt' = [tgt EXCEPT ![t] = tgt[t]] /\ tgt[t] \in PollFiles
      BY <1>1, <3>1 DEF PollsTypeOK
    <3>. QED
      BY <3>1, <3>2
  <2>2. CASE members' # {}
    <3>1. PICK g \in members' : Aim(t, g, "destroy")
      BY <2>2 DEF DestroyOne
    <3>2. g \in PollFiles
      BY <1>1, <1>3 DEF PollsTypeOK
    <3>. QED
      BY <3>1, <3>2 DEF Aim, Goes
  <2>. QED
    BY <2>1, <2>2
<1>5. PICK where \in {"idle", "destroy"}, f \in PollFiles :
         doing' = [doing EXCEPT ![t] = where] /\ tgt' = [tgt EXCEPT ![t] = f]
  BY <1>4
<1>6. /\ doing \in [PollThreads -> Whereabouts] /\ tgt \in [Workers -> PollFiles]
      /\ t \in PollThreads /\ t \notin Waiters /\ where \in Whereabouts
  BY <1>1, PollsAssumption DEF PollsTypeOK, PollThreads, Whereabouts, FirstLock
<1>7. /\ \A u \in Workers : u # t => doing'[u] = doing[u] /\ tgt'[u] = tgt[u]
      /\ \A w \in Waiters : doing'[w] = doing[w]
      /\ doing'[t] = where /\ tgt'[t] = f
  BY <1>5, <1>6 DEF PollThreads
<1>8. where \notin SecondLock \cup EventfdAt /\ where \in {"idle"} \cup FirstLock
  BY DEF SecondLock, EventfdAt, FirstLock
<1>9. doing[t] \notin SecondLock \cup EventfdAt \cup {"idle"}
  BY <1>3 DEF SecondLock, EventfdAt
<1>10. PollsTypeOK'
  <2>1. doing' \in [PollThreads -> Whereabouts] /\ tgt' \in [Workers -> PollFiles]
    BY <1>5, <1>6
  <2>. QED
    BY <1>1, <1>3, <2>1 DEF PollsTypeOK
<1>11. PollPcs'
  BY <1>1, <1>7, <1>8 DEF PollPcs
<1>12. LocksOwned'
  BY <1>1, <1>3, <1>7, <1>9 DEF LocksOwned
<1>13. EventfdBounded' /\ NoLostEventfdWake'
  <2>1. \A u \in Workers : doing'[u] \in {"sr", "s1", "s2"} => u # t
    BY <1>7, <1>8 DEF EventfdAt
  <2>. QED
    BY <1>1, <1>3, <1>7, <2>1 DEF EventfdBounded, NoLostEventfdWake, Unfit
<1>14. LocksExact'
  <2>1. FileLocksExact'
    BY <1>2, <1>3, <1>7, <1>8, <1>9 DEF LocksExact, FileLocksExact
  <2>2. LockedIsLive'
    BY <1>2, <1>3, <1>7, <1>8 DEF LocksExact, LockedIsLive
  <2>3. PollLockExact'
    BY <1>2, <1>3, <1>7 DEF LocksExact, PollLockExact
  <2>. QED
    BY <2>1, <2>2, <2>3 DEF LocksExact
<1>15. Counted'
  BY <1>2, <1>3, <1>7, WaitersStay DEF Counted
<1>16. SleepersServed'
  <2>. SUFFICES ASSUME ~leaked, WaitersAsleep # {}, pollLock = Nobody,
                       NEW e \in members' \cap Eventfds, EventfdPoll(e)
                PROVE  \/ pipe > 0 \/ e \in late' \/ e \in told'
                       \/ \E u \in Workers : tgt'[u] = e /\ doing'[u] \in {"wake", "wakePoll"}
    BY <1>3, <1>7, WaitersStay DEF SleepersServed, EventfdPoll
  <2>1. \/ pipe > 0 \/ e \in late \/ e \in told
        \/ \E u \in Workers : tgt[u] = e /\ doing[u] \in {"wake", "wakePoll"}
    BY <1>2, <1>3 DEF SleepersServed
  <2>2. \A u \in Workers : doing[u] \in {"wake", "wakePoll"} => u # t
    BY <1>3
  <2>. QED
    BY <1>3, <1>7, <2>1, <2>2
<1>. QED
  BY <1>2, <1>3, <1>10, <1>11, <1>12, <1>13, <1>14, <1>15, <1>16
  DEF PollInv, PollBase, PollOrder

\* A new epoll begins with nobody in the old one, a new file with nobody at it.
LEMMA NewHolds ==
  ASSUME PollInv, fatal = {}, EpollCreate \/ \E f \in PollFiles : OpenFile(f)
  PROVE  PollInv'
<1>1. PollsTypeOK /\ PollPcs /\ LocksOwned /\ EventfdBounded /\ NoLostEventfdWake
  BY DEF PollInv, PollBase
<1>2. LocksExact /\ members \subseteq live /\ Counted /\ SleepersServed
  BY DEF PollInv, PollOrder
<1>3. CASE EpollCreate
  <2>1. /\ \A w \in Waiters : ~InPoll(w)
        /\ epollOpen' = TRUE /\ pipe' = 0 /\ pipeOpen' = FALSE /\ waiters' = 0 /\ leaked' = FALSE
        /\ UNCHANGED <<counter, hostReady, live, members, pollLock, fileLock, doing, tgt>>
        /\ UNCHANGED <<posted, late, told, fatal>>
    BY <1>3 DEF EpollCreate, pollLocks
  <2>2. InWait' = {} /\ WaitersAsleep' = {}
    BY <2>1 DEF InWait, InPoll, WaitersAsleep, PollAt
  <2>3. PollsTypeOK'
    <3>1. pipe' \in 0 .. MaxBytes /\ waiters' \in Nat
      BY <2>1, PollsAssumption
    <3>2. epollOpen' \in BOOLEAN /\ pipeOpen' \in BOOLEAN /\ leaked' \in BOOLEAN
      BY <2>1
    <3>. QED
      BY <1>1, <2>1, <3>1, <3>2 DEF PollsTypeOK
  <2>4. PollPcs' /\ LocksOwned' /\ EventfdBounded' /\ NoLostEventfdWake'
    BY <1>1, <2>1 DEF PollPcs, LocksOwned, EventfdBounded, NoLostEventfdWake, Unfit
  <2>5. LocksExact'
    BY <1>2, <2>1 DEF LocksExact, FileLocksExact, LockedIsLive, PollLockExact
  <2>6. Counted' /\ SleepersServed'
    BY <2>1, <2>2, FS_EmptySet DEF Counted, SleepersServed
  <2>. QED
    BY <1>2, <2>1, <2>3, <2>4, <2>5, <2>6 DEF PollInv, PollBase, PollOrder
<1>4. ASSUME NEW f \in PollFiles, OpenFile(f) PROVE PollInv'
  <2>1. /\ \A t \in Workers : doing[t] = "idle" \/ tgt[t] # f
        /\ live' = live \cup {f}
        /\ UNCHANGED <<counter, hostReady, members, epollOpen, pipe, pipeOpen, waiters>>
        /\ UNCHANGED <<pollLock, fileLock, doing, tgt, posted, late, told, leaked, fatal>>
    BY <1>4 DEF OpenFile, pollFields, pollLocks, pollGhosts
  <2>2. PollsTypeOK'
    BY <1>1, <2>1 DEF PollsTypeOK
  <2>3. PollPcs' /\ LocksOwned' /\ EventfdBounded'
    BY <1>1, <2>1 DEF PollPcs, LocksOwned, EventfdBounded
  <2>4. NoLostEventfdWake'
    BY <1>1, <2>1 DEF NoLostEventfdWake, Unfit
  <2>5. LocksExact'
    BY <1>2, <2>1 DEF LocksExact, FileLocksExact, LockedIsLive, PollLockExact
  <2>6. Counted' /\ SleepersServed'
    BY <1>2, <2>1 DEF Counted, SleepersServed, InWait, InPoll, WaitersAsleep, EventfdPoll
  <2>. QED
    BY <1>2, <2>1, <2>2, <2>3, <2>4, <2>5, <2>6 DEF PollInv, PollBase, PollOrder
<1>. QED
  BY <1>3, <1>4

\* A signal, the host's view of a file, and the end of an epoll with no members
\* change nothing that the locks, the counters and the sleepers depend on.
LEMMA QuietHolds ==
  ASSUME PollInv, fatal = {},
         posted' \subseteq Workers, hostReady' \subseteq HostFiles, epollOpen' \in BOOLEAN,
         told' \subseteq told, \A e \in Eventfds : e \in told => e \in told',
         UNCHANGED <<counter, live, members, pipe, pipeOpen, waiters>>,
         UNCHANGED <<pollLock, fileLock, doing, tgt, late, leaked, fatal>>
  PROVE  PollInv'
<1>1. PollsTypeOK /\ PollPcs /\ LocksOwned /\ EventfdBounded /\ NoLostEventfdWake
  BY DEF PollInv, PollBase
<1>2. LocksExact /\ members \subseteq live /\ Counted /\ SleepersServed
  BY DEF PollInv, PollOrder
<1>3. PollsTypeOK'
  BY <1>1 DEF PollsTypeOK
<1>4. PollPcs' /\ LocksOwned' /\ EventfdBounded' /\ NoLostEventfdWake'
  BY <1>1 DEF PollPcs, LocksOwned, EventfdBounded, NoLostEventfdWake, Unfit
<1>5. LocksExact'
  BY <1>2 DEF LocksExact, FileLocksExact, LockedIsLive, PollLockExact
<1>6. Counted' /\ SleepersServed'
  BY <1>2 DEF Counted, SleepersServed, InWait, InPoll, WaitersAsleep, EventfdPoll
<1>. QED
  BY <1>2, <1>3, <1>4, <1>5, <1>6 DEF PollInv, PollBase, PollOrder

\* Every step of a worker: what it waits for, holds and leaves to the sleepers.
LEMMA WorkerHolds ==
  ASSUME PollInv, fatal = {}, NEW t \in Workers, WorkerStep(t)
  PROVE  PollInv'
<1>1. PollsTypeOK /\ PollPcs /\ NoLostEventfdWake
  BY DEF PollInv, PollBase
<1>2. /\ tgt[t] \in PollFiles /\ tgt = [tgt EXCEPT ![t] = tgt[t]] /\ t \in PollThreads
      /\ epollOpen \in BOOLEAN
  BY <1>1 DEF PollsTypeOK, PollThreads
<1>3. ASSUME NEW e \in Eventfds, NEW op \in {"rd", "w1", "w2"}, EventfdCall(t, e, op)
      PROVE  PollInv'
  <2>1. /\ doing[t] = "idle"
        /\ doing' = [doing EXCEPT ![t] = op] /\ tgt' = [tgt EXCEPT ![t] = e]
        /\ UNCHANGED <<counter, hostReady, live, members, pipe, pipeOpen, waiters>>
        /\ UNCHANGED <<epollOpen, pollLock, fileLock, posted, late, told, leaked, fatal>>
    BY <1>3 DEF EventfdCall, Aim, Goes, pollFields, pollLocks, pollGhosts
  <2>2. /\ e \in PollFiles /\ op \in {"idle"} \cup EventfdAt \cup FirstLock
        /\ op \notin {"sr", "s1", "s2"} /\ doing[t] \notin SecondLock
    BY <2>1 DEF PollFiles, EventfdAt, SecondLock
  <2>. QED
    BY <1>2, <2>1, <2>2, WorkerTurns
<1>4. CASE EventfdAgain(t)
  <2>1. /\ doing[t] \in {"rd", "w1", "w2"} /\ doing' = [doing EXCEPT ![t] = "idle"] /\ tgt' = tgt
        /\ UNCHANGED <<counter, hostReady, live, members, pipe, pipeOpen, waiters>>
        /\ UNCHANGED <<epollOpen, pollLock, fileLock, posted, late, told, leaked, fatal>>
    BY <1>4 DEF EventfdAgain, Goes, pollFields, pollLocks, pollGhosts
  <2>2. doing[t] \notin SecondLock /\ doing[t] # "wake" /\ "idle" \notin EventfdAt
    BY <2>1 DEF SecondLock, EventfdAt
  <2>. QED
    BY <1>2, <2>1, <2>2, WorkerTurns
<1>5. CASE EventfdSleep(t)
  <2>1. /\ doing[t] \in {"rd", "w1", "w2"} /\ Unfit(doing[t], counter[tgt[t]])
        /\ doing' = [doing EXCEPT ![t] = Sleeps(doing[t])] /\ tgt' = tgt
        /\ UNCHANGED <<counter, hostReady, live, members, pipe, pipeOpen, waiters>>
        /\ UNCHANGED <<epollOpen, pollLock, fileLock, posted, late, told, leaked, fatal>>
    BY <1>5 DEF EventfdSleep, Goes, pollFields, pollLocks, pollGhosts
  <2>2. /\ doing[t] \notin SecondLock /\ doing[t] # "wake" /\ tgt[t] \in Eventfds
        /\ Sleeps(doing[t]) \in {"sr", "s1", "s2"} /\ Sleeps(doing[t]) \in EventfdAt
        /\ Resumes(Sleeps(doing[t])) = doing[t]
    BY <1>1, <2>1 DEF SecondLock, EventfdAt, Sleeps, Resumes, PollPcs
  <2>. QED
    BY <1>2, <2>1, <2>2, WorkerTurns
<1>6. CASE EventfdSpin(t)
  <2>1. UNCHANGED pollVars
    BY <1>6 DEF EventfdSpin
  <2>. QED
    BY <1>1, <1>2, <2>1, QuietHolds DEF pollVars, PollsTypeOK
<1>7. CASE EventfdResume(t)
  <2>. DEFINE back == CASE doing[t] = "nr" -> "sr" [] doing[t] = "n1" -> "s1"
                        [] doing[t] = "n2" -> "s2" [] OTHER -> doing[t]
  <2>1. /\ doing[t] \in {"nr", "n1", "n2", "sr", "s1", "s2"}
        /\ doing' = [doing EXCEPT ![t] = Resumes(back)] /\ tgt' = tgt
        /\ UNCHANGED <<counter, hostReady, live, members, pipe, pipeOpen, waiters>>
        /\ UNCHANGED <<epollOpen, pollLock, fileLock, posted, late, told, leaked, fatal>>
    BY <1>7 DEF EventfdResume, Goes, pollFields, pollLocks, pollGhosts
  <2>2. Resumes(back) \in {"rd", "w1", "w2"}
    BY <2>1 DEF Resumes
  <2>. HIDE DEF back
  <2>3. /\ doing[t] \notin SecondLock /\ doing[t] # "wake" /\ tgt[t] \in Eventfds
        /\ Resumes(back) \notin {"sr", "s1", "s2"} /\ Resumes(back) \in EventfdAt
    BY <1>1, <2>1, <2>2 DEF SecondLock, EventfdAt, PollPcs
  <2>. QED
    BY <1>2, <2>1, <2>3, WorkerTurns
<1>8. CASE PostSignal(t)
  <2>1. /\ posted' = posted \cup {t}
        /\ UNCHANGED <<counter, hostReady, live, members, epollOpen, pipe, pipeOpen, waiters>>
        /\ UNCHANGED <<pollLock, fileLock, doing, tgt, late, told, leaked, fatal>>
    BY <1>8 DEF PostSignal, pollFields, pollLocks, pollGhosts
  <2>. QED
    BY <1>1, <1>2, <2>1, QuietHolds DEF PollsTypeOK
<1>9. CASE EventfdFreed(t) \/ CtlFreed(t) \/ DestroyFreed(t)
  <2>1. UseFreed(t, "get") \/ UseFreed(t, "destroy")
    BY <1>9 DEF EventfdFreed, CtlFreed, DestroyFreed
  <2>. QED
    BY <1>2, <2>1, FreedEnds
<1>10. CASE WakeLock(t)
  <2>1. /\ doing[t] = "wake" /\ tgt[t] \in live /\ fileLock[tgt[t]] = Nobody
        /\ doing' = [doing EXCEPT ![t] = "wakePoll"]
        /\ fileLock' = [fileLock EXCEPT ![tgt[t]] = t]
        /\ UNCHANGED <<counter, hostReady, live, members, epollOpen, pipe, pipeOpen, waiters>>
        /\ UNCHANGED <<pollLock, tgt, posted, late, told, leaked, fatal>>
    BY <1>10 DEF WakeLock, Goes, Unlocked, pollFields, pollGhosts
  <2>2. "wakePoll" \in SecondLock /\ doing[t] \in FirstLock
    BY <2>1 DEF SecondLock, FirstLock
  <2>. QED
    BY <2>1, <2>2, FileLocked
<1>11. CASE LockFile(t)
  <2>. DEFINE where == CASE doing[t] = "add" -> "addPoll" [] doing[t] = "del" -> "delPoll"
                         [] doing[t] = "close" -> "closePoll"
  <2>1. /\ doing[t] \in {"add", "del", "close"} /\ tgt[t] \in live /\ fileLock[tgt[t]] = Nobody
        /\ doing' = [doing EXCEPT ![t] = where]
        /\ fileLock' = [fileLock EXCEPT ![tgt[t]] = t]
        /\ UNCHANGED <<counter, hostReady, live, members, epollOpen, pipe, pipeOpen, waiters>>
        /\ UNCHANGED <<pollLock, tgt, posted, late, told, leaked, fatal>>
    BY <1>11 DEF LockFile, Goes, Unlocked, pollFields, pollGhosts
  <2>2. where \in SecondLock /\ doing[t] \in FirstLock /\ doing[t] # "wake"
    BY <2>1 DEF SecondLock, FirstLock
  <2>. HIDE DEF where
  <2>. QED
    BY <2>1, <2>2, FileLocked
<1>12. ASSUME NEW f \in PollFiles, NEW op \in {"add", "del", "close"},
              CtlCall(t, f, op) \/ (op = "close" /\ CloseCall(t, f))
       PROVE  PollInv'
  <2>1. /\ doing[t] = "idle"
        /\ doing' = [doing EXCEPT ![t] = op] /\ tgt' = [tgt EXCEPT ![t] = f]
        /\ UNCHANGED <<counter, hostReady, live, members, pipe, pipeOpen, waiters>>
        /\ UNCHANGED <<epollOpen, pollLock, fileLock, posted, late, told, leaked, fatal>>
    BY <1>12 DEF CtlCall, CloseCall, Aim, Goes, pollFields, pollLocks, pollGhosts
  <2>2. /\ op \in {"idle"} \cup EventfdAt \cup FirstLock /\ op \notin EventfdAt
        /\ op \notin {"sr", "s1", "s2"} /\ doing[t] \notin SecondLock
    BY <2>1 DEF FirstLock, EventfdAt, SecondLock
  <2>. QED
    BY <1>2, <2>1, <2>2, WorkerTurns
<1>13. CASE DestroyNext(t)
  <2>1. CASE members = {}
    <3>1. /\ epollOpen' = FALSE
          /\ UNCHANGED <<counter, hostReady, live, members, pipe, pipeOpen, waiters>>
          /\ UNCHANGED <<pollLock, fileLock, doing, tgt, posted, late, told, leaked, fatal>>
      BY <1>13, <2>1 DEF DestroyNext, pollLocks, pollGhosts
    <3>. QED
      BY <1>1, <3>1, QuietHolds DEF PollsTypeOK
  <2>2. CASE members # {}
    <3>1. PICK f \in members : Aim(t, f, "destroy")
      BY <1>13, <2>2 DEF DestroyNext
    <3>2. /\ doing[t] = "idle" /\ f \in PollFiles
          /\ doing' = [doing EXCEPT ![t] = "destroy"] /\ tgt' = [tgt EXCEPT ![t] = f]
          /\ UNCHANGED <<counter, hostReady, live, members, pipe, pipeOpen, waiters>>
          /\ UNCHANGED <<epollOpen, pollLock, fileLock, posted, late, told, leaked, fatal>>
      BY <1>1, <1>13, <2>2, <3>1
      DEF DestroyNext, Aim, Goes, pollLocks, pollGhosts, PollsTypeOK
    <3>3. /\ "destroy" \in {"idle"} \cup EventfdAt \cup FirstLock /\ "destroy" \notin EventfdAt
          /\ doing[t] \notin SecondLock
      BY <3>2 DEF FirstLock, EventfdAt, SecondLock
    <3>. QED
      BY <1>2, <3>2, <3>3, WorkerTurns
  <2>. QED
    BY <2>1, <2>2
<1>. QED
  BY <1>3, <1>4, <1>5, <1>6, <1>7, <1>8, <1>9, <1>10, <1>11, <1>12, <1>13, WakeHolds, AddHolds,
     RemovalHolds, DoneHolds, DestroyHolds
  DEF WorkerStep

LEMMA PollsStep == PollInv /\ [PollsNext]_pollVars => PollInv'
<1>. SUFFICES ASSUME PollInv, [PollsNext]_pollVars PROVE PollInv'
  OBVIOUS
<1>1. CASE UNCHANGED pollVars
  BY <1>1 DEF pollVars, PollInv, PollBase, PollOrder, PollsTypeOK, PollPcs, LocksOwned,
     EventfdBounded, NoLostEventfdWake, LocksExact, FileLocksExact, LockedIsLive,
     PollLockExact, Counted, SleepersServed, InWait, InPoll, WaitersAsleep, EventfdPoll, Unfit
<1>2. CASE fatal = {}
  <2>1. ASSUME NEW t \in Workers, WorkerStep(t) PROVE PollInv'
    BY <1>2, <2>1, WorkerHolds
  <2>2. ASSUME NEW w \in Waiters, WaiterStep(w) PROVE PollInv'
    <3>1. WaitFreed(w) => PollInv'
      BY <1>2, FreedEnds DEF WaitFreed, PollThreads
    <3>. QED
      BY <1>2, <2>2, <3>1, EnterHolds, FailureHolds, ScanHolds, HostWakesHolds, RelockHolds
      DEF WaiterStep
  <2>3. ASSUME NEW h \in HostFiles, HostChanges(h) PROVE PollInv'
    <3>1. /\ hostReady' \in {hostReady \ {h}, hostReady \cup {h}} /\ told' = told \ {h}
          /\ UNCHANGED <<counter, live, members, epollOpen, pipe, pipeOpen, waiters>>
          /\ UNCHANGED <<pollLock, fileLock, doing, tgt, posted, late, leaked, fatal>>
      BY <2>3 DEF HostChanges, pollFields, pollLocks
    <3>2. PollsTypeOK
      BY DEF PollInv, PollBase
    <3>3. \A e \in Eventfds : e \in told => e \in told'
      BY <3>1, PollsAssumption
    <3>. QED
      BY <1>2, <3>1, <3>2, <3>3, QuietHolds DEF PollsTypeOK
  <2>4. CASE EpollCreate \/ \E f \in PollFiles : OpenFile(f)
    BY <1>2, <2>4, NewHolds
  <2>. QED
    BY <1>1, <1>2, <2>1, <2>2, <2>3, <2>4 DEF PollsNext
<1>3. CASE fatal # {}
  BY <1>1, <1>3 DEF PollsNext
<1>. QED
  BY <1>2, <1>3

\* Nobody waits for what a reader or writer of an eventfd holds but a scan; nobody
\* but who has a file's lock for a scan; and nobody but the first lock for those.
LEMMA LocksFormNoRing == PollInv => NoLockCycle
<1>. SUFFICES ASSUME PollInv, NEW S \in SUBSET PollThreads, S # {},
                     \A t \in S : WaitsOn(t) \cap S # {}
              PROVE  FALSE
  BY DEF NoLockCycle
<1>1. PollPcs /\ LocksOwned /\ PollsTypeOK
  BY DEF PollInv, PollBase
<1>2. \A t \in S : /\ doing[t] \in FirstLock \cup SecondLock \cup {"scan"}
                   /\ doing[t] = "scan" => t \in Waiters
                   /\ doing[t] # "scan" => t \in Workers
  <2>. TAKE t \in S
  <2>1. doing[t] \in FirstLock \cup SecondLock \cup {"scan"}
    BY DEF WaitsOn
  <2>. QED
    BY <1>1, <2>1 DEF PollPcs, PollThreads, PollAt, EventfdAt, FirstLock, SecondLock
<1>3. \A t \in S : doing[t] # "scan"
  <2>. SUFFICES ASSUME NEW t \in S, doing[t] = "scan" PROVE FALSE
    OBVIOUS
  <2>1. PICK e \in members \cap Eventfds : Holders(e) \cap S # {}
    <3>1. WaitsOn(t) = UNION {Holders(e) : e \in members \cap Eventfds}
      BY DEF WaitsOn, FirstLock, SecondLock
    <3>. QED
      BY <3>1
  <2>2. PICK u \in S : doing[u] \in {"rd", "w1", "w2"}
    BY <2>1 DEF Holders
  <2>. QED
    BY <1>2, <2>2 DEF FirstLock, SecondLock
<1>4. \A t \in S : doing[t] \notin SecondLock
  <2>. SUFFICES ASSUME NEW t \in S, doing[t] \in SecondLock PROVE FALSE
    OBVIOUS
  <2>1. WaitsOn(t) = {pollLock} \ {Nobody}
    BY DEF WaitsOn, FirstLock, SecondLock
  <2>2. pollLock \in S /\ pollLock \in Waiters
    BY <1>1, <2>1 DEF LocksOwned
  <2>3. doing[pollLock] \in {"scan", "idle"}
    BY <1>1, <2>2 DEF LocksOwned
  <2>. QED
    BY <1>2, <1>3, <2>2, <2>3 DEF FirstLock, SecondLock
<1>5. PICK t \in S : TRUE
  OBVIOUS
<1>6. doing[t] \in FirstLock /\ t \in Workers
  BY <1>2, <1>3, <1>4
<1>7. WaitsOn(t) = {fileLock[tgt[t]]} \ {Nobody} /\ tgt[t] \in PollFiles
  <2>1. tgt[t] \in PollFiles
    BY <1>1, <1>6 DEF PollsTypeOK
  <2>2. WaitsOn(t) = {fileLock[tgt[t]]} \ {Nobody}
    BY <1>6 DEF WaitsOn, FirstLock, SecondLock
  <2>. QED
    BY <2>1, <2>2
<1>8. fileLock[tgt[t]] \in S /\ fileLock[tgt[t]] \in Workers
  BY <1>1, <1>7 DEF LocksOwned
<1>9. doing[fileLock[tgt[t]]] \in SecondLock \cup {"idle"}
  BY <1>1, <1>7, <1>8 DEF LocksOwned
<1>. QED
  BY <1>2, <1>3, <1>4, <1>8, <1>9 DEF FirstLock

\* Every state of poll, epoll and eventfd (fs/poll.c, kernel/epoll.c,
\* kernel/eventfd.c), whatever the threads, the files and the sizes: no circle of
\* waits, no sleep through a member that is ready or a counter that fits, and all
\* that is registered allocated, but for the races that `fatal' and `late' name.
THEOREM PollsHold == PollsSpec => []PollsSound
<1>1. PollInv => PollsSound
  <2>. SUFFICES ASSUME PollInv PROVE PollsSound
    OBVIOUS
  <2>1. PollsTypeOK /\ EventfdBounded /\ NoLostEventfdWake
    BY DEF PollInv, PollBase
  <2>2. fatal = {} => LocksExact /\ members \subseteq live /\ Counted /\ SleepersServed
    BY DEF PollInv, PollOrder
  <2>3. NoLockCycle
    BY LocksFormNoRing
  <2>4. NoMissedReady
    <3>. SUFFICES ASSUME fatal = {}, ~leaked, WaitersAsleep # {},
                         \A w \in Waiters : doing[w] \in {"idle", "asleep"},
                         NEW e \in members \cap Eventfds, EventfdPoll(e)
                  PROVE  \/ pipe > 0 \/ e \in late \/ e \in told
                         \/ \E t \in Workers : tgt[t] = e /\ doing[t] \in {"wake", "wakePoll"}
      BY DEF NoMissedReady
    <3>1. pollLock = Nobody
      BY <2>2 DEF LocksExact, PollLockExact, PollInv, PollBase, LocksOwned
    <3>. QED
      BY <2>2, <3>1 DEF SleepersServed
  <2>5. PollIsSound
    <3>. SUFFICES ASSUME fatal = {}
                  PROVE  /\ members \subseteq live
                         /\ (~leaked /\ \E w \in Waiters : InPoll(w)) => pipeOpen
                         /\ ~leaked => waiters = Cardinality(InWait)
      BY DEF PollIsSound, InWait
    <3>1. (\E w \in Waiters : InPoll(w)) => InWait # {}
      BY DEF InWait
    <3>2. Cardinality(InWait) \in Nat
      BY WaitersAreCounted
    <3>. QED
      BY <2>2, <3>1, <3>2 DEF Counted
  <2>. QED
    BY <2>1, <2>3, <2>4, <2>5 DEF PollsSound
<1>. QED
  BY <1>1, PollsInitial, PollsStep, PTL DEF PollsSpec
-----------------------------------------------------------------------------
(* Futexes: their count, and that no wake is lost. *)

\* futex_lock is held from futex_get to futex_put, but for the time asleep.
Holding == {"wait", "wake", "put"}
LockHeld == \A t \in Threads : pc[t] \in Holding <=> lock = t

\* The count of a futex that is in no bucket is 0: a new one starts from 1.
CountsInside == \A m \in Mems : count[m] = Cardinality(Inside(m))

Inv == FutexesSound /\ LockHeld /\ CountsInside

Pc == {"guest", "wait", "wake", "asleep", "up", "put"}
InCall == {"wait", "wake", "asleep", "up", "put"}

\* The threads inside are finitely many, and no more than there are threads.
LEMMA InsideFinite ==
  \A m : /\ IsFiniteSet(Inside(m)) /\ Inside(m) \subseteq Threads
         /\ Cardinality(Inside(m)) \in 0 .. Cardinality(Threads)
         /\ Cardinality(Inside(m)) = 0 <=> Inside(m) = {}
<1>. TAKE m
<1>1. Inside(m) \subseteq Threads
  BY DEF Inside
<1>2. IsFiniteSet(Inside(m)) /\ Cardinality(Inside(m)) <= Cardinality(Threads)
  BY <1>1, FutexAssumption, FS_Subset
<1>3. Cardinality(Inside(m)) \in Nat /\ Cardinality(Threads) \in Nat
  BY <1>2, FutexAssumption, FS_CardinalityType
<1>4. Cardinality(Inside(m)) = 0 <=> Inside(m) = {}
  BY <1>2, FS_EmptySet
<1>. QED
  BY <1>1, <1>2, <1>3, <1>4

\* A step between two states in a call leaves everybody inside, and the counts.
LEMMA InsideStays ==
  ASSUME \A u \in Threads : pc'[u] \in InCall <=> pc[u] \in InCall
  PROVE  \A m : Inside(m)' = Inside(m)
BY DEF Inside, InCall

\* futex_get lets one thread in and counts it.
LEMMA GetCounts ==
  ASSUME Inv, NEW t \in Threads, pc[t] = "guest", FutexGet(t), NEW where \in {"wait", "wake"},
         Go(t, where)
  PROVE  /\ LockHeld' /\ CountsInside'
         /\ count' \in [Mems -> 0 .. Cardinality(Threads)]
         /\ inTable' \subseteq Mems
         /\ \A m \in Mems : m \in inTable' <=> Inside(m)' # {}
<1>. DEFINE k == MemOf[t]
<1>0. /\ k \in Mems /\ t \notin Inside(k) /\ Inside(k)' = Inside(k) \cup {t}
      /\ \A m \in Mems \ {k} : Inside(m)' = Inside(m)
  BY FutexAssumption DEF Inv, FutexesSound, TypeOK, Go, Inside
<1>1. count[k] = Cardinality(Inside(k)) /\ (k \notin inTable => count[k] = 0)
  BY <1>0, InsideFinite DEF Inv, FutexesSound, FutexCounted, CountsInside
<1>2. Cardinality(Inside(k)') = count[k] + 1
  <2>1. IsFiniteSet(Inside(k))
    BY InsideFinite
  <2>2. Cardinality(Inside(k) \cup {t}) = Cardinality(Inside(k)) + 1
    BY <2>1, <1>0, FS_AddElement
  <2>. QED
    BY <2>2, <1>0, <1>1
<1>3. count'[k] = count[k] + 1 /\ \A m \in Mems \ {k} : count'[m] = count[m]
  BY <1>0, <1>1 DEF FutexGet, Inv, FutexesSound, TypeOK
<1>4. CountsInside'
  BY <1>0, <1>2, <1>3 DEF CountsInside, Inv
<1>5. count' = [m \in Mems |-> count'[m]]
  BY <1>0 DEF FutexGet, Inv, FutexesSound, TypeOK
<1>6. \A m \in Mems : Cardinality(Inside(m)') \in 0 .. Cardinality(Threads)
  <2>1. \A m \in Mems : Inside(m)' \in SUBSET Threads
    BY DEF Inside
  <2>. QED
    BY <2>1, FutexAssumption, FS_Subset, FS_CardinalityType
<1>7. count' \in [Mems -> 0 .. Cardinality(Threads)]
  BY <1>4, <1>5, <1>6 DEF CountsInside
<1>8. LockHeld'
  BY FutexAssumption DEF LockHeld, Holding, FutexGet, Go, Inv, FutexesSound, TypeOK
<1>9. \A m \in Mems : m \in inTable' <=> Inside(m)' # {}
  BY <1>0 DEF FutexGet, Inv, FutexesSound, FutexCounted
<1>10. inTable' \subseteq Mems
  BY <1>0 DEF FutexGet, Inv, FutexesSound, TypeOK
<1>. QED
  BY <1>4, <1>7, <1>8, <1>9, <1>10

\* A step inside keeps the table and the counts.
LEMMA InsideKeeps ==
  ASSUME Inv, \A u \in Threads : pc'[u] \in InCall <=> pc[u] \in InCall,
         UNCHANGED <<count, inTable>>
  PROVE  /\ CountsInside' /\ \A m \in Mems : m \in inTable' <=> Inside(m)' # {}
         /\ \A m \in Mems : m \in inTable' => count'[m] = Cardinality(Inside(m)')
<1>1. \A m : Inside(m)' = Inside(m)
  BY InsideStays
<1>. QED
  BY <1>1 DEF Inv, FutexesSound, FutexCounted, CountsInside

\* Initially everybody is in the guest.
LEMMA InitInv == Init => Inv
<1>. SUFFICES ASSUME Init PROVE Inv
  OBVIOUS
<1>1. \A m : Inside(m) = {} /\ Cardinality(Inside(m)) = 0
  BY FS_EmptySet DEF Init, Inside
<1>2. Cardinality(Threads) \in Nat /\ (CHOOSE w \in Words : TRUE) \in Words
  BY FutexAssumption, FS_CardinalityType
<1>3. TypeOK
  <2>1. MemOf \in [Threads -> Mems] /\ 0 \in 0 .. Cardinality(Threads)
    BY <1>2, FutexAssumption
  <2>2. /\ word \in [Mems -> Words] /\ val \in [Threads -> Words]
        /\ count \in [Mems -> 0 .. Cardinality(Threads)]
    BY <1>2, <2>1 DEF Init
  <2>3. {pending, stored} \subseteq SUBSET Threads
    BY Zenon DEF Init
  <2>. QED
    BY <2>2, <2>3 DEF Init, TypeOK
<1>4. NoLostFutexWake
  BY DEF Init, NoLostFutexWake, Sleepers
<1>5. FutexCounted /\ CountsInside
  BY <1>1 DEF Init, FutexCounted, CountsInside
<1>6. LockHeld
  BY FutexAssumption DEF Init, LockHeld, Holding
<1>. QED
  BY <1>3, <1>4, <1>5, <1>6 DEF Inv, FutexesSound

\* Each action keeps the invariant.
LEMMA StepInv ==
  ASSUME Inv, NEW t \in Threads, Step(t)
  PROVE  Inv'
<1>. USE FutexAssumption DEF Inv, FutexesSound
<1>. DEFINE k == MemOf[t]
<1>0. k \in Mems /\ pc \in [Threads -> Pc] /\ val \in [Threads -> Words] /\ word \in [Mems -> Words]
  BY DEF TypeOK, Pc
<1>1. CASE Store(t)
  <2>1. TypeOK'
    BY <1>0, <1>1 DEF Store, TypeOK
  <2>2. NoLostFutexWake'
    <3>. SUFFICES ASSUME NEW m \in Mems, NEW u \in Threads, MemOf[u] = m, pc[u] = "asleep",
                         word'[m] # val[u]
                  PROVE  \E v \in stored' : MemOf[v] = m
      BY <1>1 DEF NoLostFutexWake, Sleepers, Store
    <3>1. CASE m = k
      BY <3>1, <1>1 DEF Store
    <3>2. CASE m # k
      BY <3>2, <1>1, <1>0 DEF Store, NoLostFutexWake, Sleepers
    <3>. QED
      BY <3>1, <3>2
  <2>3. FutexCounted' /\ CountsInside' /\ LockHeld'
    BY <1>1, InsideKeeps DEF Store, FutexCounted, LockHeld, Holding
  <2>. QED
    BY <2>1, <2>2, <2>3
<1>2. CASE WaitCall(t)
  <2>1. /\ LockHeld' /\ CountsInside' /\ count' \in [Mems -> 0 .. Cardinality(Threads)]
        /\ inTable' \subseteq Mems /\ \A m \in Mems : m \in inTable' <=> Inside(m)' # {}
    BY <1>2, GetCounts DEF WaitCall
  <2>2. TypeOK'
    BY <1>0, <1>2, <2>1 DEF WaitCall, FutexGet, Go, TypeOK
  <2>3. NoLostFutexWake'
    BY <1>0, <1>2 DEF WaitCall, NoLostFutexWake, Sleepers, Go
  <2>4. FutexCounted'
    BY <1>2, <2>1 DEF WaitCall, FutexCounted, CountsInside
  <2>. QED
    BY <2>1, <2>2, <2>3, <2>4
<1>3. CASE WakeCall(t)
  <2>1. /\ LockHeld' /\ CountsInside' /\ count' \in [Mems -> 0 .. Cardinality(Threads)]
        /\ inTable' \subseteq Mems /\ \A m \in Mems : m \in inTable' <=> Inside(m)' # {}
    BY <1>3, GetCounts DEF WakeCall
  <2>2. TypeOK'
    BY <1>0, <1>3, <2>1 DEF WakeCall, FutexGet, Go, TypeOK
  <2>3. NoLostFutexWake'
    BY <1>0, <1>3 DEF WakeCall, NoLostFutexWake, Sleepers, Go
  <2>4. FutexCounted'
    BY <1>3, <2>1 DEF WakeCall, FutexCounted, CountsInside
  <2>. QED
    BY <2>1, <2>2, <2>3, <2>4
<1>4. CASE WaitChecks(t)
  <2>1. TypeOK'
    BY <1>0, <1>4 DEF WaitChecks, Go, TypeOK
  <2>2. NoLostFutexWake'
    BY <1>0, <1>4 DEF WaitChecks, NoLostFutexWake, Sleepers, Go
  <2>3. FutexCounted' /\ CountsInside'
    BY <1>0, <1>4, InsideKeeps DEF WaitChecks, FutexCounted, Go, InCall
  <2>4. LockHeld'
    BY <1>0, <1>4 DEF WaitChecks, LockHeld, Holding, Go
  <2>. QED
    BY <2>1, <2>2, <2>3, <2>4
<1>5. CASE FutexWake(t)
  <2>0. \/ \E u \in Sleepers(k) : pc' = [pc EXCEPT ![u] = "up", ![t] = "put"]
        \/ pc' = [u \in Threads |-> IF u \in Sleepers(k) THEN "up" ELSE IF u = t THEN "put" ELSE pc[u]]
    BY <1>5 DEF FutexWake
  <2>1. /\ pc[t] = "wake" /\ pc' \in [Threads -> Pc] /\ pc'[t] = "put"
        /\ \A u \in Threads \ {t} : pc'[u] = pc[u] \/ (pc[u] = "asleep" /\ pc'[u] = "up" /\ MemOf[u] = k)
    BY <1>0, <1>5, <2>0 DEF FutexWake, Sleepers, Pc
  <2>2. TypeOK'
    BY <1>5, <2>1 DEF FutexWake, TypeOK, Pc
  <2>3. NoLostFutexWake'
    <3>. SUFFICES ASSUME NEW m \in Mems, NEW u \in Threads, MemOf[u] = m, pc'[u] = "asleep",
                         word[m] # val[u]
                  PROVE  \E v \in stored' : MemOf[v] = m
      BY <1>5 DEF NoLostFutexWake, Sleepers, FutexWake
    <3>1. pc[u] = "asleep" /\ \E v \in stored : MemOf[v] = m
      BY <2>1 DEF NoLostFutexWake, Sleepers
    <3>2. CASE m = k
      BY <3>1, <3>2, <1>5 DEF FutexWake, Sleepers
    <3>3. CASE m # k
      BY <3>1, <3>3, <1>5 DEF FutexWake
    <3>. QED
      BY <3>2, <3>3
  <2>4. FutexCounted' /\ CountsInside'
    BY <1>5, <2>1, InsideKeeps DEF FutexWake, FutexCounted, InCall
  <2>5. LockHeld'
    BY <1>5, <2>1 DEF FutexWake, LockHeld, Holding
  <2>. QED
    BY <2>2, <2>3, <2>4, <2>5
<1>6. CASE Rouse(t)
  <2>1. TypeOK'
    BY <1>0, <1>6 DEF Rouse, Go, TypeOK
  <2>2. NoLostFutexWake'
    BY <1>0, <1>6 DEF Rouse, NoLostFutexWake, Sleepers, Go
  <2>3. FutexCounted' /\ CountsInside'
    BY <1>0, <1>6, InsideKeeps DEF Rouse, FutexCounted, Go, InCall
  <2>4. LockHeld'
    BY <1>0, <1>6 DEF Rouse, LockHeld, Holding, Go
  <2>. QED
    BY <2>1, <2>2, <2>3, <2>4
<1>7. CASE Signal(t) \/ SignalTaken(t)
  <2>1. TypeOK'
    BY <1>7 DEF Signal, SignalTaken, TypeOK
  <2>2. NoLostFutexWake'
    BY <1>7 DEF Signal, SignalTaken, NoLostFutexWake, Sleepers
  <2>3. FutexCounted' /\ CountsInside'
    BY <1>7, InsideKeeps DEF Signal, SignalTaken, FutexCounted
  <2>4. LockHeld'
    BY <1>7 DEF Signal, SignalTaken, LockHeld
  <2>. QED
    BY <2>1, <2>2, <2>3, <2>4
<1>8. CASE WaitRelocks(t)
  <2>1. TypeOK'
    BY <1>0, <1>8 DEF WaitRelocks, Go, TypeOK
  <2>2. NoLostFutexWake'
    BY <1>0, <1>8 DEF WaitRelocks, NoLostFutexWake, Sleepers, Go
  <2>3. t \in Inside(k) /\ k \in inTable /\ freedUse' = FALSE
    BY <1>0, <1>8 DEF WaitRelocks, Inside, FutexCounted, TypeOK
  <2>4. FutexCounted' /\ CountsInside'
    BY <1>0, <1>8, <2>3, InsideKeeps DEF WaitRelocks, FutexCounted, Go, InCall
  <2>5. LockHeld'
    BY <1>0, <1>8 DEF WaitRelocks, LockHeld, Holding, Go
  <2>. QED
    BY <2>1, <2>2, <2>4, <2>5
<1>9. CASE FutexPut(t)
  <2>1. /\ t \in Inside(k) /\ Inside(k)' = Inside(k) \ {t}
        /\ \A m \in Mems \ {k} : Inside(m)' = Inside(m)
    BY <1>0, <1>9 DEF FutexPut, Inside, Go
  <2>2. count[k] = Cardinality(Inside(k)) /\ k \in inTable
    BY <1>0, <2>1 DEF CountsInside, FutexCounted
  <2>3. /\ Cardinality(Inside(k)') = count[k] - 1 /\ count[k] \in 1 .. Cardinality(Threads)
        /\ Cardinality(Inside(k)') = 0 <=> Inside(k)' = {}
    <3>1. Cardinality(Inside(k) \ {t}) = Cardinality(Inside(k)) - 1 /\ IsFiniteSet(Inside(k) \ {t})
      BY <2>1, InsideFinite, FS_RemoveElement
    <3>2. Cardinality(Inside(k)) # 0
      BY <2>1, InsideFinite
    <3>3. Cardinality(Inside(k) \ {t}) = 0 <=> Inside(k) \ {t} = {}
      BY <3>1, FS_EmptySet
    <3>. QED
      BY <3>1, <3>2, <3>3, <2>1, <2>2, InsideFinite
  <2>4. count' \in [Mems -> 0 .. Cardinality(Threads)] /\ count'[k] = count[k] - 1
        /\ \A m \in Mems \ {k} : count'[m] = count[m]
    <3>1. count[k] - 1 \in 0 .. Cardinality(Threads)
      BY <2>3, FS_CardinalityType
    <3>. QED
      BY <1>0, <1>9, <3>1 DEF FutexPut, TypeOK
  <2>5. TypeOK'
    BY <1>0, <1>9, <2>4 DEF FutexPut, Go, TypeOK
  <2>6. NoLostFutexWake'
    BY <1>0, <1>9 DEF FutexPut, NoLostFutexWake, Sleepers, Go
  <2>7. CountsInside'
    BY <2>1, <2>3, <2>4 DEF CountsInside
  <2>8. \A m \in Mems : m \in inTable' <=> Inside(m)' # {}
    BY <1>0, <1>9, <2>1, <2>2, <2>3 DEF FutexPut, FutexCounted
  <2>9. FutexCounted'
    BY <1>9, <2>7, <2>8 DEF FutexPut, FutexCounted, CountsInside
  <2>10. LockHeld'
    BY <1>0, <1>9 DEF FutexPut, LockHeld, Holding, Go
  <2>. QED
    BY <2>5, <2>6, <2>7, <2>9, <2>10
<1>. QED
  BY <1>1, <1>2, <1>3, <1>4, <1>5, <1>6, <1>7, <1>8, <1>9 DEF Step

\* The invariant is inductive.
LEMMA NextInv == Inv /\ [Next]_vars => Inv'
<1>. SUFFICES ASSUME Inv, [Next]_vars PROVE Inv'
  OBVIOUS
<1>1. CASE UNCHANGED vars
  BY <1>1 DEF vars, Inv, FutexesSound, TypeOK, NoLostFutexWake, Sleepers, FutexCounted, Inside,
     LockHeld, CountsInside
<1>2. CASE Next
  BY <1>2, StepInv DEF Next
<1>. QED
  BY <1>1, <1>2

-----------------------------------------------------------------------------
(* The results *)

\* Types; nobody sleeps through the wake for a store that changed the word; a
\* futex is in its bucket exactly while somebody is between futex_get and
\* futex_put, counts all of them, and is never used after it was freed.
THEOREM NoWakeIsLost == Spec => []FutexesSound
<1>1. Inv => FutexesSound
  BY DEF Inv
<1>. QED
  BY <1>1, InitInv, NextInv, PTL DEF Spec
=============================================================================
