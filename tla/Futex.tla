------------------------------- MODULE Futex -------------------------------
(***************************************************************************)
(* Futexes: kernel/futex.c.  Threads of one or more address spaces wait on *)
(* and wake the word at an address.  A struct futex lives in the hash      *)
(* table while its reference count says that somebody is between futex_get *)
(* and futex_put; futex_lock is held there but for the time in wait_for.   *)
(* The guest's side is a store to the word, then a wake.                   *)
(***************************************************************************)
EXTENDS Naturals, FiniteSets

CONSTANTS Threads,
          Mems,       \* address spaces
          MemOf,      \* MemOf[t]: current->mem
          Words,      \* values a word may have
          NoThread    \* the owner of a free lock

ASSUME FutexAssumption ==
    /\ IsFiniteSet(Threads) /\ NoThread \notin Threads
    /\ MemOf \in [Threads -> Mems] /\ Words # {}

VARIABLES word,       \* word[m]: the value at the address, in each space
          lock,       \* owner of futex_lock
          count,      \* count[m]: refcount of the futex of the space, 0 if none
          inTable,    \* spaces whose futex is on the chain of its bucket
          pc, val,    \* what a thread does, and the value it waits on
          pending,    \* threads with a signal pending
          stored,     \* threads that have stored and not yet woken
          freedUse    \* a futex was used after futex_put freed it

vars == <<word, lock, count, inTable, pc, val, pending, stored, freedUse>>

Sleepers(m) == {t \in Threads : MemOf[t] = m /\ pc[t] = "asleep"}
Inside(m) == {t \in Threads : MemOf[t] = m /\ pc[t] \in {"wait", "wake", "asleep", "up", "put"}}
Go(t, where) == pc' = [pc EXCEPT ![t] = where]

Init ==
    /\ word = [m \in Mems |-> CHOOSE w \in Words : TRUE]
    /\ lock = NoThread /\ count = [m \in Mems |-> 0] /\ inTable = {}
    /\ pc = [t \in Threads |-> "guest"]
    /\ val = [t \in Threads |-> CHOOSE w \in Words : TRUE]
    /\ pending = {} /\ stored = {} /\ freedUse = FALSE

\* The guest changes the word without any lock of the kernel; it is to wake
\* those who wait for another value.
Store(t) ==
    LET m == MemOf[t] IN
    /\ pc[t] = "guest" /\ t \notin stored
    /\ \E w \in Words \ {word[m]} : word' = [word EXCEPT ![m] = w]
    /\ stored' = stored \cup {t}
    /\ UNCHANGED <<lock, count, inTable, pc, val, pending, freedUse>>

\* A slip: one that is found is not counted.
FutexFound(t) ==
    LET m == MemOf[t] IN
    /\ lock = NoThread /\ lock' = t
    /\ count' = [count EXCEPT ![m] = IF m \in inTable THEN @ ELSE 1]
    /\ inTable' = inTable \cup {m}

\* futex_get: the futex found under the space and address is counted, else one
\* is made with a count of one; either way the lock stays held.
FutexGet(t) ==
    LET m == MemOf[t] IN
    /\ lock = NoThread /\ lock' = t
    /\ count' = [count EXCEPT ![m] = IF m \in inTable THEN @ + 1 ELSE 1]
    /\ inTable' = inTable \cup {m}

WaitCall(t) ==
    /\ pc[t] = "guest" /\ t \notin stored
    /\ FutexGet(t)
    /\ \E w \in Words : val' = [val EXCEPT ![t] = w]
    /\ Go(t, "wait")
    /\ UNCHANGED <<word, pending, stored, freedUse>>

WakeCall(t) ==
    /\ pc[t] = "guest"
    /\ FutexGet(t) /\ Go(t, "wake")
    /\ UNCHANGED <<word, val, pending, stored, freedUse>>

\* A slip: the word is not compared again under the lock.
WaitUnchecked(t) ==
    /\ pc[t] = "wait"
    /\ IF t \notin pending THEN Go(t, "asleep") /\ lock' = NoThread
       ELSE Go(t, "put") /\ UNCHANGED lock
    /\ UNCHANGED <<word, count, inTable, val, pending, stored, freedUse>>

\* futex_load and the comparison; then wait_for, which does not sleep with a
\* signal pending, and gives futex_lock up while it does.
WaitChecks(t) ==
    LET m == MemOf[t] IN
    /\ pc[t] = "wait"
    /\ IF word[m] = val[t] /\ t \notin pending
       THEN Go(t, "asleep") /\ lock' = NoThread
       ELSE Go(t, "put") /\ UNCHANGED lock
    /\ UNCHANGED <<word, count, inTable, val, pending, stored, freedUse>>

\* notify_once wakes one of those who sleep, notify all of them.
FutexWake(t) ==
    LET m == MemOf[t] IN
    /\ pc[t] = "wake"
    /\ \/ \E u \in Sleepers(m) : pc' = [pc EXCEPT ![u] = "up", ![t] = "put"]
       \/ pc' = [u \in Threads |-> IF u \in Sleepers(m) THEN "up"
                                   ELSE IF u = t THEN "put" ELSE pc[u]]
    /\ stored' = IF \E u \in Sleepers(m) : pc'[u] = "asleep" /\ val[u] # word[m]
                 THEN stored ELSE stored \ {t}
    /\ UNCHANGED <<word, lock, count, inTable, val, pending, freedUse>>

\* A sleeper is woken, by a signal, or by a timeout: sys_futex never reads the
\* guest's timespec, so any timeout is one of zero.
Rouse(t) ==
    /\ pc[t] = "asleep" /\ Go(t, "up")
    /\ UNCHANGED <<word, lock, count, inTable, val, pending, stored, freedUse>>

Signal(t) ==
    /\ t \notin pending /\ pending' = pending \cup {t}
    /\ UNCHANGED <<word, lock, count, inTable, pc, val, stored, freedUse>>

SignalTaken(t) ==
    /\ pc[t] = "guest" /\ t \in pending /\ pending' = pending \ {t}
    /\ UNCHANGED <<word, lock, count, inTable, pc, val, stored, freedUse>>

WaitRelocks(t) ==
    /\ pc[t] = "up" /\ lock = NoThread /\ lock' = t /\ Go(t, "put")
    /\ freedUse' = (freedUse \/ MemOf[t] \notin inTable)
    /\ UNCHANGED <<word, count, inTable, val, pending, stored>>

\* futex_put: the last one out takes the futex off its chain and frees it.
FutexPut(t) ==
    LET m == MemOf[t] IN
    /\ pc[t] = "put" /\ lock = t
    /\ count' = [count EXCEPT ![m] = @ - 1]
    /\ inTable' = IF count[m] = 1 THEN inTable \ {m} ELSE inTable
    /\ lock' = NoThread /\ Go(t, "guest")
    /\ UNCHANGED <<word, val, pending, stored, freedUse>>

Step(t) ==
    \/ Store(t) \/ WaitCall(t) \/ WakeCall(t) \/ WaitChecks(t) \/ FutexWake(t)
    \/ Rouse(t) \/ Signal(t) \/ SignalTaken(t) \/ WaitRelocks(t) \/ FutexPut(t)

Next == \E t \in Threads : Step(t)
Spec == Init /\ [][Next]_vars
-----------------------------------------------------------------------------
TypeOK ==
    /\ word \in [Mems -> Words] /\ lock \in Threads \cup {NoThread}
    /\ count \in [Mems -> 0 .. Cardinality(Threads)] /\ inTable \subseteq Mems
    /\ pc \in [Threads -> {"guest", "wait", "wake", "asleep", "up", "put"}]
    /\ val \in [Threads -> Words] /\ {pending, stored} \subseteq SUBSET Threads
    /\ freedUse \in BOOLEAN

\* A thread sleeps on a value the word no longer has only while somebody who
\* stored since has still to wake: the load and the decision to sleep are one
\* under futex_lock (kernel/futex.c:66-75), which the waker takes as well.
NoLostFutexWake ==
    \A m \in Mems : \A t \in Sleepers(m) :
        word[m] # val[t] => \E u \in stored : MemOf[u] = m

\* A futex is in the table exactly while somebody uses it, counts everybody who
\* does, and is not used after it was freed.
FutexCounted ==
    /\ ~freedUse
    /\ \A m \in Mems :
          /\ m \in inTable <=> Inside(m) # {}
          /\ m \in inTable => count[m] = Cardinality(Inside(m))

\* No sleeper misses the wake for a word that changed, and an entry of the
\* table is there exactly for those who use it (kernel/futex.c).
FutexesSound == TypeOK /\ NoLostFutexWake /\ FutexCounted
=============================================================================
