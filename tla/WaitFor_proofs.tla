--------------------------- MODULE WaitFor_proofs ---------------------------
(* Proofs about WaitFor for any number of threads and locks: types, who      *)
(* holds what, and that neither a notify nor a signal is missed.             *)
EXTENDS WaitFor, TLAPS

-----------------------------------------------------------------------------
(* The inductive invariant *)

Outside  == {"idle", "asleep", "woken", "expired"}
Awaiting == {"sleep", "asleep", "woken", "expired", "clear", "clearexpired"}
Looking  == {"trylock", "busy", "notify"}

\* A thread in an operation is about a lock, and holds it unless it sleeps.
OperationHasLock ==
  \A t \in Thread : pc[t] # "idle" =>
    on[t] \in Lock /\ (pc[t] \notin Outside => holder[on[t]] = t)

\* waiting_lock is published exactly around the sleep, and says what for.
PublishedAroundSleep ==
  \A t \in Thread : waiting[t] = IF pc[t] \in Awaiting THEN on[t] ELSE None

\* A sender holds pids_lock and has a target; while it looks at what the
\* target sleeps on it holds waiting_cond_lock.
SenderHoldsLocks ==
  \A t \in Thread : pc[t] \in Delivering =>
    /\ on[t] = PidsLock
    /\ target[t] \in Thread
    /\ pc[t] \in Looking => condLock[target[t]] = t /\ waiting[target[t]] # None

\* What trylock got is held, and is not the sender's own pids_lock.
TriedIsHeld ==
  \A t \in Thread : pc[t] = "notify" /\ ~mine[t] =>
    holder[waiting[target[t]]] = t /\ waiting[target[t]] # PidsLock

\* tty_ioctl's second lock.
IoctlHoldsPids == \A t \in Thread : pc[t] = "ioctlboth" => holder[PidsLock] = t

LockDiscipline ==
  /\ TypeOK /\ OperationHasLock /\ PublishedAroundSleep /\ SenderHoldsLocks
  /\ TriedIsHeld /\ IoctlHoldsPids
  /\ \A t \in Thread : pc[t] = "produce" => items[on[t]] < MaxItems

\* Whoever goes to sleep has seen that there is nothing.
NothingForSleepers ==
  \A t \in Thread : pc[t] \in {"wait", "publish", "sleep", "asleep"} => items[on[t]] = 0

\* From its test of pending on, a waiter that has a signal was missed or is
\* still being delivered to.
SignalFollowed ==
  Interrupted => \A u \in Thread : pc[u] \in {"publish", "sleep", "asleep"} /\ pending[u] =>
    \/ missed[u]
    \/ \E t \in Thread :
         target[t] = u /\ pc[t] \in {"retry", "trylock", "busy", "notify"}
-----------------------------------------------------------------------------
(* Types and locks *)

\* Assigning one value of a function to the Booleans.
LEMMA BooleanUpdate ==
  ASSUME NEW D, NEW f \in [D -> BOOLEAN], NEW x \in D, NEW b \in BOOLEAN
  PROVE  [f EXCEPT ![x] = b] \in [D -> BOOLEAN]
OBVIOUS

\* No lock is held at first.
LEMMA DisciplineInit == Init => LockDiscipline
BY WaitForAssumption
   DEF Init, LockDiscipline, TypeOK, OperationHasLock, PublishedAroundSleep,
       SenderHoldsLocks, TriedIsHeld, IoctlHoldsPids, PC, Delivering, Awaiting

\* Each action takes and gives locks in step with its pc.
LEMMA DisciplineStep == LockDiscipline /\ [Next]_vars => LockDiscipline'
<1>. SUFFICES ASSUME LockDiscipline, [Next]_vars
              PROVE  LockDiscipline'
  OBVIOUS
<1>. USE WaitForAssumption
     DEF LockDiscipline, TypeOK, OperationHasLock, PublishedAroundSleep,
         SenderHoldsLocks, TriedIsHeld, IoctlHoldsPids, PC, Outside, Awaiting,
         Looking, Delivering, Goto
<1>1. ASSUME NEW t \in Thread, Check(t) PROVE LockDiscipline'
  BY <1>1 DEF Check
<1>2. ASSUME NEW t \in Thread, TestPending(t) PROVE LockDiscipline'
  BY <1>2 DEF TestPending
<1>3. ASSUME NEW t \in Thread, Publish(t) PROVE LockDiscipline'
  BY <1>3 DEF Publish
<1>4. ASSUME NEW t \in Thread, Sleep(t) PROVE LockDiscipline'
  BY <1>4 DEF Sleep, Release
<1>5. ASSUME NEW t \in Thread, Reacquire(t) PROVE LockDiscipline'
  BY <1>5 DEF Reacquire, Free
<1>6. ASSUME NEW t \in Thread, Clear(t) PROVE LockDiscipline'
  BY <1>6 DEF Clear
<1>7. ASSUME NEW t \in Thread, Leave(t) PROVE LockDiscipline'
  BY <1>7 DEF Leave, Release
<1>8. ASSUME NEW t \in Thread, Receive(t) PROVE LockDiscipline'
  BY <1>8 DEF Receive
<1>9. ASSUME NEW t \in Thread, Produce(t) PROVE LockDiscipline'
  BY <1>9 DEF Produce, NotifyAnd, Sleepers
<1>10. ASSUME NEW t \in Thread, IoctlPids(t) PROVE LockDiscipline'
  BY <1>10 DEF IoctlPids, Acquire, Free
<1>11. ASSUME NEW t \in Thread, IoctlDone(t) PROVE LockDiscipline'
  BY <1>11 DEF IoctlDone
<1>12. ASSUME NEW t \in Thread, SetPending(t) PROVE LockDiscipline'
  BY <1>12 DEF SetPending
<1>13. ASSUME NEW t \in Thread, LookAtTarget(t) PROVE LockDiscipline'
  <2>1. target[t] \in Thread
    BY <1>13 DEF LookAtTarget, Delivered
  <2>2. CASE (waiting[target[t]] = None)
    <3>1. missed' = [missed EXCEPT ![target[t]] = @ \/ AboutToSleep(target[t])]
      BY <1>13, <2>2 DEF LookAtTarget, Delivered
    <3>2. missed' \in [Thread -> BOOLEAN]
      BY <3>1, <2>1, BooleanUpdate DEF AboutToSleep
    <3>3. QED
      BY <1>13, <2>1, <2>2, <3>2 DEF LookAtTarget, Delivered
  <2>3. CASE ~ (waiting[target[t]] = None)
    BY <1>13, <2>1, <2>3 DEF LookAtTarget, Delivered
  <2>. QED
    BY <2>2, <2>3
<1>14. ASSUME NEW t \in Thread, TryLock(t) PROVE LockDiscipline'
  <2>1. target[t] \in Thread /\ waiting[target[t]] \in Lock
    BY <1>14 DEF TryLock, Free
  <2>2. CASE (holder[waiting[target[t]]] = None)
    <3>1. mine' = [mine EXCEPT ![t] = FALSE]
      BY <1>14, <2>2 DEF TryLock, Free
    <3>2. mine' \in [Thread -> BOOLEAN]
      BY <3>1, <2>1, BooleanUpdate DEF AboutToSleep
    <3>3. QED
      BY <1>14, <2>1, <2>2, <3>2 DEF TryLock, Free
  <2>3. CASE ~ (holder[waiting[target[t]]] = None)
    BY <1>14, <2>1, <2>3 DEF TryLock, Free
  <2>. QED
    BY <2>2, <2>3
<1>15. ASSUME NEW t \in Thread, WhoseLock(t) PROVE LockDiscipline'
  <2>1. target[t] \in Thread
    BY <1>15 DEF WhoseLock
  <2>2. CASE (owner[waiting[target[t]]] = t)
    <3>1. mine' = [mine EXCEPT ![t] = TRUE]
      BY <1>15, <2>2 DEF WhoseLock
    <3>2. mine' \in [Thread -> BOOLEAN]
      BY <3>1, <2>1, BooleanUpdate DEF AboutToSleep
    <3>3. QED
      BY <1>15, <2>1, <2>2, <3>2 DEF WhoseLock
  <2>3. CASE ~ (owner[waiting[target[t]]] = t)
    BY <1>15, <2>1, <2>3 DEF WhoseLock
  <2>. QED
    BY <2>2, <2>3
<1>16. ASSUME NEW t \in Thread, NotifyTarget(t) PROVE LockDiscipline'
  BY <1>16 DEF NotifyTarget, NotifyAnd, Sleepers, Delivered, AboutToSleep
<1>17. ASSUME NEW t \in Thread, KillDone(t) PROVE LockDiscipline'
  BY <1>17 DEF KillDone, Release
<1>18. ASSUME NEW t \in Thread, TimeOut(t) PROVE LockDiscipline'
  BY <1>18 DEF TimeOut
<1>19. ASSUME NEW t \in Thread, WakeUp(t) PROVE LockDiscipline'
  BY <1>19 DEF WakeUp
<1>20. ASSUME NEW t \in Thread, NEW l \in Lock, ConsumeStart(t, l) PROVE LockDiscipline'
  BY <1>20 DEF ConsumeStart, Start, Acquire, Free
<1>21. ASSUME NEW t \in Thread, NEW l \in Lock, ProduceStart(t, l) PROVE LockDiscipline'
  BY <1>21 DEF ProduceStart, Start, Acquire, Free
<1>22. ASSUME NEW t \in Thread, NEW l \in Lock, IoctlStart(t, l) PROVE LockDiscipline'
  BY <1>22 DEF IoctlStart, Start, Acquire, Free
<1>23. ASSUME NEW t \in Thread, NEW u \in Thread, KillStart(t, u) PROVE LockDiscipline'
  BY <1>23 DEF KillStart, Start, Acquire, Free
<1>24. CASE UNCHANGED vars
  BY <1>24 DEF vars
<1>. QED
  BY <1>1, <1>2, <1>3, <1>4, <1>5, <1>6, <1>7, <1>8, <1>9, <1>10, <1>11,
     <1>12, <1>13, <1>14, <1>15, <1>16, <1>17, <1>18, <1>19, <1>20, <1>21, <1>22, <1>23, <1>24 DEF Next, Continue
-----------------------------------------------------------------------------
(* Waits that miss nothing *)

\* A step that makes a condition true leaves nobody asleep on it.
LEMMA SleepersStep == LockDiscipline /\ NothingForSleepers /\ [Next]_vars => NothingForSleepers'
<1>. SUFFICES ASSUME LockDiscipline, NothingForSleepers, [Next]_vars
              PROVE  NothingForSleepers'
  OBVIOUS
<1>. USE WaitForAssumption DEF NothingForSleepers, LockDiscipline, TypeOK, OperationHasLock,
           PublishedAroundSleep, Outside, Awaiting, Goto, PC
<1>1. ASSUME NEW t \in Thread, Check(t) PROVE NothingForSleepers'
  BY <1>1 DEF Check
<1>2. ASSUME NEW t \in Thread, TestPending(t) PROVE NothingForSleepers'
  BY <1>2 DEF TestPending
<1>3. ASSUME NEW t \in Thread, Publish(t) PROVE NothingForSleepers'
  BY <1>3 DEF Publish
<1>4. ASSUME NEW t \in Thread, Sleep(t) PROVE NothingForSleepers'
  BY <1>4 DEF Sleep, Release
<1>5. ASSUME NEW t \in Thread, Reacquire(t) PROVE NothingForSleepers'
  BY <1>5 DEF Reacquire, Free
<1>6. ASSUME NEW t \in Thread, Clear(t) PROVE NothingForSleepers'
  BY <1>6 DEF Clear
<1>7. ASSUME NEW t \in Thread, Leave(t) PROVE NothingForSleepers'
  BY <1>7 DEF Leave, Release
<1>8. ASSUME NEW t \in Thread, Receive(t) PROVE NothingForSleepers'
  BY <1>8 DEF Receive
<1>9. ASSUME NEW t \in Thread, Produce(t) PROVE NothingForSleepers'
  BY <1>9 DEF Produce, NotifyAnd, Sleepers
<1>10. ASSUME NEW t \in Thread, IoctlPids(t) PROVE NothingForSleepers'
  BY <1>10 DEF IoctlPids, Acquire, Free
<1>11. ASSUME NEW t \in Thread, IoctlDone(t) PROVE NothingForSleepers'
  BY <1>11 DEF IoctlDone
<1>12. ASSUME NEW t \in Thread, SetPending(t) PROVE NothingForSleepers'
  BY <1>12 DEF SetPending
<1>13. ASSUME NEW t \in Thread, LookAtTarget(t) PROVE NothingForSleepers'
  BY <1>13 DEF LookAtTarget, Delivered, AboutToSleep
<1>14. ASSUME NEW t \in Thread, TryLock(t) PROVE NothingForSleepers'
  BY <1>14 DEF TryLock, Free
<1>15. ASSUME NEW t \in Thread, WhoseLock(t) PROVE NothingForSleepers'
  BY <1>15 DEF WhoseLock
<1>16. ASSUME NEW t \in Thread, NotifyTarget(t) PROVE NothingForSleepers'
  BY <1>16 DEF NotifyTarget, NotifyAnd, Sleepers, Delivered, AboutToSleep
<1>17. ASSUME NEW t \in Thread, KillDone(t) PROVE NothingForSleepers'
  BY <1>17 DEF KillDone, Release
<1>18. ASSUME NEW t \in Thread, TimeOut(t) PROVE NothingForSleepers'
  BY <1>18 DEF TimeOut
<1>19. ASSUME NEW t \in Thread, WakeUp(t) PROVE NothingForSleepers'
  BY <1>19 DEF WakeUp
<1>20. ASSUME NEW t \in Thread, NEW l \in Lock, ConsumeStart(t, l) PROVE NothingForSleepers'
  BY <1>20 DEF ConsumeStart, Start, Acquire, Free
<1>21. ASSUME NEW t \in Thread, NEW l \in Lock, ProduceStart(t, l) PROVE NothingForSleepers'
  BY <1>21 DEF ProduceStart, Start, Acquire, Free
<1>22. ASSUME NEW t \in Thread, NEW l \in Lock, IoctlStart(t, l) PROVE NothingForSleepers'
  BY <1>22 DEF IoctlStart, Start, Acquire, Free
<1>23. ASSUME NEW t \in Thread, NEW u \in Thread, KillStart(t, u) PROVE NothingForSleepers'
  BY <1>23 DEF KillStart, Start, Acquire, Free
<1>24. CASE UNCHANGED vars
  BY <1>24 DEF vars
<1>. QED
  BY <1>1, <1>2, <1>3, <1>4, <1>5, <1>6, <1>7, <1>8, <1>9, <1>10, <1>11,
     <1>12, <1>13, <1>14, <1>15, <1>16, <1>17, <1>18, <1>19, <1>20, <1>21, <1>22, <1>23, <1>24 DEF Next, Continue

\* A signal that has been posted is followed by its wake-up.
LEMMA SignalStep == LockDiscipline /\ SignalFollowed /\ [Next]_vars => SignalFollowed'
<1>. SUFFICES ASSUME LockDiscipline, SignalFollowed, [Next]_vars
              PROVE  SignalFollowed'
  OBVIOUS
<1>. USE WaitForAssumption DEF SignalFollowed, LockDiscipline, TypeOK, PublishedAroundSleep,
           SenderHoldsLocks, Awaiting, Looking, Delivering, Goto, PC
<1>1. ASSUME NEW t \in Thread, Check(t) PROVE SignalFollowed'
  BY <1>1 DEF Check
<1>2. ASSUME NEW t \in Thread, TestPending(t) PROVE SignalFollowed'
  BY <1>2 DEF TestPending
<1>3. ASSUME NEW t \in Thread, Publish(t) PROVE SignalFollowed'
  BY <1>3 DEF Publish
<1>4. ASSUME NEW t \in Thread, Sleep(t) PROVE SignalFollowed'
  BY <1>4 DEF Sleep, Release
<1>5. ASSUME NEW t \in Thread, Reacquire(t) PROVE SignalFollowed'
  BY <1>5 DEF Reacquire, Free
<1>6. ASSUME NEW t \in Thread, Clear(t) PROVE SignalFollowed'
  BY <1>6 DEF Clear
<1>7. ASSUME NEW t \in Thread, Leave(t) PROVE SignalFollowed'
  BY <1>7 DEF Leave, Release
<1>8. ASSUME NEW t \in Thread, Receive(t) PROVE SignalFollowed'
  BY <1>8 DEF Receive
<1>9. ASSUME NEW t \in Thread, Produce(t) PROVE SignalFollowed'
  BY <1>9 DEF Produce, NotifyAnd, Sleepers
<1>10. ASSUME NEW t \in Thread, IoctlPids(t) PROVE SignalFollowed'
  BY <1>10 DEF IoctlPids, Acquire, Free
<1>11. ASSUME NEW t \in Thread, IoctlDone(t) PROVE SignalFollowed'
  BY <1>11 DEF IoctlDone
<1>12. ASSUME NEW t \in Thread, SetPending(t) PROVE SignalFollowed'
  BY <1>12 DEF SetPending
<1>13. ASSUME NEW t \in Thread, LookAtTarget(t) PROVE SignalFollowed'
  <2>1. CASE waiting[target[t]] = None
    <3>1. target[t] \in Thread /\ pc[target[t]] \notin {"sleep", "asleep"}
      BY <1>13, <2>1 DEF LookAtTarget, OperationHasLock
    <3>2. missed' = [missed EXCEPT ![target[t]] = @ \/ AboutToSleep(target[t])]
      BY <1>13, <2>1 DEF LookAtTarget, Delivered
    <3>3. pc[target[t]] = "publish" => missed'[target[t]]
      BY <3>1, <3>2 DEF AboutToSleep
    <3>4. \A u \in Thread : missed[u] => missed'[u]
      BY <3>1, <3>2
    <3>5. QED
      BY <1>13, <2>1, <3>1, <3>3, <3>4 DEF LookAtTarget
  <2>2. CASE waiting[target[t]] # None
    BY <1>13, <2>2 DEF LookAtTarget
  <2>3. QED
    BY <2>1, <2>2
<1>14. ASSUME NEW t \in Thread, TryLock(t) PROVE SignalFollowed'
  BY <1>14 DEF TryLock, Free
<1>15. ASSUME NEW t \in Thread, WhoseLock(t) PROVE SignalFollowed'
  BY <1>15 DEF WhoseLock
<1>16. ASSUME NEW t \in Thread, NotifyTarget(t) PROVE SignalFollowed'
  BY <1>16 DEF NotifyTarget, NotifyAnd, Sleepers, Delivered, AboutToSleep
<1>17. ASSUME NEW t \in Thread, KillDone(t) PROVE SignalFollowed'
  BY <1>17 DEF KillDone, Release
<1>18. ASSUME NEW t \in Thread, TimeOut(t) PROVE SignalFollowed'
  BY <1>18 DEF TimeOut
<1>19. ASSUME NEW t \in Thread, WakeUp(t) PROVE SignalFollowed'
  BY <1>19 DEF WakeUp
<1>20. ASSUME NEW t \in Thread, NEW l \in Lock, ConsumeStart(t, l) PROVE SignalFollowed'
  BY <1>20 DEF ConsumeStart, Start, Acquire, Free
<1>21. ASSUME NEW t \in Thread, NEW l \in Lock, ProduceStart(t, l) PROVE SignalFollowed'
  BY <1>21 DEF ProduceStart, Start, Acquire, Free
<1>22. ASSUME NEW t \in Thread, NEW l \in Lock, IoctlStart(t, l) PROVE SignalFollowed'
  BY <1>22 DEF IoctlStart, Start, Acquire, Free
<1>23. ASSUME NEW t \in Thread, NEW u \in Thread, KillStart(t, u) PROVE SignalFollowed'
  BY <1>23 DEF KillStart, Start, Acquire, Free
<1>24. CASE UNCHANGED vars
  BY <1>24 DEF vars
<1>. QED
  BY <1>1, <1>2, <1>3, <1>4, <1>5, <1>6, <1>7, <1>8, <1>9, <1>10, <1>11,
     <1>12, <1>13, <1>14, <1>15, <1>16, <1>17, <1>18, <1>19, <1>20, <1>21, <1>22, <1>23, <1>24 DEF Next, Continue

-----------------------------------------------------------------------------
(* The theorems *)

\* Spec is never out of its types, whoever is woken or signalled.
THEOREM TypeCorrect == Spec => []TypeOK
<1>1. LockDiscipline => TypeOK
  BY DEF LockDiscipline
<1>2. QED
  BY DisciplineInit, DisciplineStep, <1>1, PTL DEF Spec

\* A critical section is left by its own thread only: deliver_signal's trylock
\* and its `if (!mine) unlock' free no mutex under somebody else, and what it
\* looks at under waiting_cond_lock stays (kernel/user-signal.c:45-61).
THEOREM CriticalSections == Spec => []LocksHeld
<1>1. LockDiscipline => LocksHeld
  BY WaitForAssumption
     DEF LockDiscipline, LocksHeld, TypeOK, OperationHasLock, SenderHoldsLocks, TriedIsHeld,
         IoctlHoldsPids, Outside, Looking, Delivering
<1>2. QED
  BY DisciplineInit, DisciplineStep, <1>1, PTL DEF Spec

\* Nobody sleeps on what is there: wait_for gives up the lock and sleeps in one
\* step, and every producer notifies under it (util/sync.c).
THEOREM NotifiesArrive == Spec => []NoLostNotify
<1>1. Init => NothingForSleepers
  BY DEF Init, NothingForSleepers
<1>2. NothingForSleepers => NoLostNotify
  BY DEF NothingForSleepers, NoLostNotify
<1>3. QED
  BY DisciplineInit, DisciplineStep, SleepersStep, <1>1, <1>2, PTL DEF Spec

\* A signal finds its sleeper, unless it went by between the test of pending and
\* the sleep (util/sync.c, kernel/user-signal.c).
THEOREM SignalsArrive == Spec => []SignalWakes
<1>1. Init => SignalFollowed
  BY DEF Init, SignalFollowed
<1>2. SignalFollowed => SignalWakes
  BY DEF SignalFollowed, SignalWakes
<1>3. QED
  BY DisciplineInit, DisciplineStep, SignalStep, <1>1, <1>2, PTL DEF Spec
=============================================================================
