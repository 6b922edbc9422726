------------------------------ MODULE Signals ------------------------------
(***************************************************************************)
(* Signal bookkeeping of kernel/user-signal.c: how a signal travels from   *)
(* send_signal through the queued and pending sets of a task to a handler  *)
(* frame or to do_exit_group, while threads are being cloned, change their *)
(* masks, fault and exit.                                                  *)
(*                                                                         *)
(* A critical section under sighand->lock is one action.  The two places   *)
(* that work outside that lock keep their steps apart: the forced delivery *)
(* of SIGSEGV/SIGILL in handle_interrupt, whose unlocked `pending |=` is a *)
(* data race, and sys_clone, which copies the parent's signal state long   *)
(* before it links the child into the thread group.  A thread that waits   *)
(* in a system call is woken at once here; how is the subject of WaitFor.  *)
(***************************************************************************)
EXTENDS Naturals, FiniteSets, Sequences

CONSTANTS
  Task,           \* task structures; each is allocated at most once
  Root,           \* the task that runs at the start, leader of its group
  Sig,            \* signal numbers in use
  Kill,           \* SIGKILL_
  Unblockable,    \* SIGKILL_ and SIGSTOP_
  DefaultIgnored, \* the signals whose default action is to do nothing
  Synchronous,    \* SIGSEGV_ and SIGILL_, forced by handle_interrupt
  Masks,          \* the masks the guest passes to sigprocmask
  Dispositions,   \* subset of {"dfl", "ign", "call"} the guest installs
  Waits,          \* subset of {"heeding", "deaf"}, the waits of system calls
  MaxFrames,      \* bound: signal frames remembered per task
  None

ASSUME SignalsAssumption ==
  /\ Root \in Task
  /\ Sig \subseteq Nat /\ IsFiniteSet(Sig)
  /\ Kill \in Unblockable
  /\ Unblockable \subseteq Sig
  /\ DefaultIgnored \subseteq Sig \ Unblockable
  /\ Synchronous \subseteq Sig \ Unblockable
  /\ Masks \subseteq SUBSET Sig
  /\ Dispositions \subseteq {"dfl", "ign", "call"}
  /\ Waits \subseteq {"heeding", "deaf"}
  /\ MaxFrames \in Nat
  /\ None \notin Sig \cup Task

VARIABLES
  pc,        \* what each task's thread is doing
  sighand,   \* task->sighand; a sighand is named after the task it was made for
  action,    \* sighand->action, reduced to SIG_DFL_, SIG_IGN_ and a handler
  group,     \* task->group, named after its leader
  threads,   \* group->threads
  doingExit, \* group->doing_group_exit
  blocked, queued, pending,
  frames,    \* the masks saved in the signal frames on the guest's stack
  child,     \* the task an unfinished sys_clone of this task has created, or None
  fault,     \* signal handle_interrupt is forcing on the task, or None
  loaded,    \* value of pending read by an unfinished unlocked `pending |=`
  lost,      \* history: signals overwritten by that race
  escaped,   \* history: threads a group exit missed, and why
  freedUse   \* history: send_signal locked a sighand that had been freed

taskVars == <<group, threads, sighand, child>>
ghosts   == <<lost, escaped, freedUse>>
vars == <<pc, sighand, action, group, threads, doingExit, blocked, queued,
          pending, frames, child, fault, loaded, lost, escaped, freedUse>>

\* A thread about to wait in a call that heeds signals is "heeding", then asleep,
\* or has missed the signal that came before it slept (util/sync.c:45-46, and
\* any call of the host that blocks).  A deaf one waits on whatever comes:
\* eventfd.c:33 and :57 and time.c:220 ignore what wait_for returns, and the
\* parent of a vfork waits without signals (fork.c:167).
Waiting == {"heeding", "asleep", "missed", "deaf"}
PC == {"unused", "new", "user", "clone", "rmw", "ret", "exitgroup",
       "exiting", "gone"} \cup Waiting

\* Threads that still hold their reference on task->sighand.
Holding == {"user", "clone", "rmw", "ret", "exitgroup"} \cup Waiting
\* Threads on their way out: they will never look at a signal again.
Leaving == {"exitgroup", "exiting", "gone"}

Least(S) == CHOOSE s \in S : \A r \in S : s <= r

\* signal_action: what receiving sig means under sighand h.
SignalAction(h, sig) ==
  IF sig \notin Unblockable /\ action[h][sig] = "ign"  THEN "IGNORE"
  ELSE IF sig \notin Unblockable /\ action[h][sig] = "call" THEN "CALL_HANDLER"
  ELSE IF sig \in DefaultIgnored THEN "IGNORE" ELSE "KILL"

Init ==
  /\ pc        = [t \in Task |-> IF t = Root THEN "user" ELSE "unused"]
  /\ sighand   = [t \in Task |-> t]
  /\ action    = [h \in Task |-> [s \in Sig |-> "dfl"]]
  /\ group     = [t \in Task |-> t]
  /\ threads   = [g \in Task |-> IF g = Root THEN {Root} ELSE {}]
  /\ doingExit = [g \in Task |-> FALSE]
  /\ blocked   = [t \in Task |-> {}]
  /\ queued    = [t \in Task |-> {}]
  /\ pending   = [t \in Task |-> {}]
  /\ frames    = [t \in Task |-> <<>>]
  /\ child     = [t \in Task |-> None]
  /\ fault     = [t \in Task |-> None]
  /\ loaded    = [t \in Task |-> {}]
  /\ lost      = [t \in Task |-> {}]
  /\ escaped   = [t \in Task |-> {}]
  /\ freedUse  = FALSE

-----------------------------------------------------------------------------
(* Sending *)

\* deliver_signal interrupts whoever sleeps and heeds signals.
Woken(p) == IF p \in {"asleep", "missed"} THEN "ret" ELSE p

\* The pid table still leads to u and u is not a zombie.
Reachable(u) ==
  /\ pc[u] # "unused"
  /\ pc[u] = "gone" => u = group[u] /\ threads[u] # {}

\* Nobody holds a reference on h any more: sighand_release has freed it.
Freed(h) == \A u \in Task : sighand[u] = h => pc[u] \notin Holding

\* A slip: the mask is not looked at.
SendUnmasked(u, sig) ==
  /\ Reachable(u) /\ ~Freed(sighand[u])
  /\ SignalAction(sighand[u], sig) # "IGNORE"
  /\ pending' = [pending EXCEPT ![u] = @ \cup {sig}]
  /\ UNCHANGED <<pc, taskVars, action, doingExit, blocked, queued, frames, fault,
                 loaded, ghosts>>

\* send_signal(u, sig), from a syscall of any task, the timer thread, a tty or
\* an exiting child.  The early return for zombies makes no step.
SendSignal(u, sig) ==
  /\ Reachable(u)
  /\ IF Freed(sighand[u])
     THEN freedUse' = TRUE /\ UNCHANGED <<pc, queued, pending>>
     ELSE /\ SignalAction(sighand[u], sig) # "IGNORE"
          /\ IF sig \in blocked[u] \ Unblockable
             THEN queued' = [queued EXCEPT ![u] = @ \cup {sig}] /\ UNCHANGED <<pc, pending>>
             ELSE /\ pending' = [pending EXCEPT ![u] = @ \cup {sig}]
                  /\ pc' = [pc EXCEPT ![u] = Woken(@)] /\ UNCHANGED queued
          /\ UNCHANGED freedUse
  /\ UNCHANGED <<taskVars, action, doingExit, blocked, frames, fault, loaded,
                 lost, escaped>>

-----------------------------------------------------------------------------
(* System calls of the running task; each ends in handle_interrupt's call of *)
(* receive_signals, the step from "ret".                                     *)

\* Two slips: unblocked signals stay in queued; or they are taken out of queued
\* and not put into pending.
SetMaskOnly(t, mask) ==
  LET newlyBlocked == mask \ blocked[t] IN
  /\ blocked' = [blocked EXCEPT ![t] = mask]
  /\ pending' = [pending EXCEPT ![t] = @ \ newlyBlocked]
  /\ queued'  = [queued EXCEPT ![t] = @ \cup (pending[t] \cap newlyBlocked)]
  /\ UNCHANGED escaped

SetMaskDropping(t, mask) ==
  LET newlyBlocked == mask \ blocked[t] IN
  /\ blocked' = [blocked EXCEPT ![t] = mask]
  /\ pending' = [pending EXCEPT ![t] = @ \ newlyBlocked]
  /\ queued'  = [queued EXCEPT ![t] = (@ \cap mask) \cup (pending[t] \cap newlyBlocked)]
  /\ UNCHANGED escaped

\* do_sigprocmask_unlocked with the mask the `how` argument produces.
SetMask(t, mask) ==
  LET unblocked   == blocked[t] \ mask
      newlyBlocked == mask \ blocked[t]
      due   == pending[t] \cup (queued[t] \cap unblocked)
      kept  == queued[t] \ unblocked
  IN  /\ blocked' = [blocked EXCEPT ![t] = mask]
      /\ pending' = [pending EXCEPT ![t] = due \ newlyBlocked]
      /\ queued'  = [queued EXCEPT ![t] = kept \cup (due \cap newlyBlocked)]
      /\ escaped' = [escaped EXCEPT ![t] =
                       IF Kill \in due \cap newlyBlocked THEN @ \cup {"parked"}
                       ELSE @]

Sigprocmask(t) ==
  /\ pc[t] = "user"
  /\ pc' = [pc EXCEPT ![t] = "ret"]
  /\ \E set \in Masks :
       \/ SetMask(t, blocked[t] \cup set)  \* SIG_BLOCK_
       \/ SetMask(t, blocked[t] \ set)     \* SIG_UNBLOCK_
       \/ SetMask(t, set)                  \* SIG_SETMASK_
  /\ UNCHANGED <<taskVars, action, doingExit, frames, fault, loaded, lost, freedUse>>

\* sys_rt_sigreturn: the mask comes back from the innermost frame.
Sigreturn(t) ==
  /\ pc[t] = "user"
  /\ frames[t] # <<>>
  /\ pc' = [pc EXCEPT ![t] = "ret"]
  /\ SetMask(t, Head(frames[t]))
  /\ frames' = [frames EXCEPT ![t] = Tail(@)]
  /\ UNCHANGED <<taskVars, action, doingExit, fault, loaded, lost, freedUse>>

\* do_sigaction; pending signals keep waiting under the new disposition.
Sigaction(t) ==
  /\ pc[t] = "user"
  /\ pc' = [pc EXCEPT ![t] = "ret"]
  /\ \E sig \in Sig \ Unblockable, d \in Dispositions :
       action' = [action EXCEPT ![sighand[t]][sig] = d]
  /\ UNCHANGED <<taskVars, doingExit, blocked, queued, pending, frames, fault,
                 loaded, ghosts>>

\* Any other system call that does not wait, or INT_TIMER after 100000
\* instructions: no guest code runs on without one of them.
Interrupt(t) ==
  /\ pc[t] = "user"
  /\ pc' = [pc EXCEPT ![t] = "ret"]
  /\ UNCHANGED <<taskVars, action, doingExit, blocked, queued, pending, frames,
                 fault, loaded, ghosts>>

-----------------------------------------------------------------------------
(* Waiting: a call may sleep for as long as nobody wakes it. *)

WaitCall(t) ==
  /\ pc[t] = "user"
  /\ \E wait \in Waits : pc' = [pc EXCEPT ![t] = wait]
  /\ UNCHANGED <<taskVars, action, doingExit, blocked, queued, pending, frames,
                 fault, loaded, ghosts>>

\* Nothing looks at pending again before the thread sleeps.
FallAsleep(t) ==
  /\ pc[t] = "heeding"
  /\ pc' = [pc EXCEPT ![t] = IF pending[t] = {} THEN "asleep" ELSE "missed"]
  /\ UNCHANGED <<taskVars, action, doingExit, blocked, queued, pending, frames,
                 fault, loaded, ghosts>>

\* What was waited for, or a timeout.
WaitEnds(t) ==
  /\ pc[t] \in {"asleep", "missed", "deaf"}
  /\ pc' = [pc EXCEPT ![t] = "ret"]
  /\ UNCHANGED <<taskVars, action, doingExit, blocked, queued, pending, frames,
                 fault, loaded, ghosts>>

-----------------------------------------------------------------------------
(* Forced delivery: deliver_signal(current, SIGSEGV_) without sighand->lock. *)

\* A slip: forget which signal the fault is.
FaultLoadNothing(t) ==
  /\ pc[t] = "user"
  /\ pc' = [pc EXCEPT ![t] = "rmw"]
  /\ loaded' = [loaded EXCEPT ![t] = pending[t]]
  /\ UNCHANGED <<taskVars, action, doingExit, blocked, queued, pending, frames,
                 fault, ghosts>>

FaultLoad(t) ==
  /\ pc[t] = "user"
  /\ \E sig \in Synchronous : fault' = [fault EXCEPT ![t] = sig]
  /\ pc' = [pc EXCEPT ![t] = "rmw"]
  /\ loaded' = [loaded EXCEPT ![t] = pending[t]]
  /\ UNCHANGED <<taskVars, action, doingExit, blocked, queued, pending, frames, ghosts>>

\* The two racing read-modify-writes leave the union, or one side's update.
FaultStore(t) ==
  /\ pc[t] = "rmw"
  /\ pc' = [pc EXCEPT ![t] = "ret"]
  /\ \E result \in {pending[t] \cup {fault[t]}, loaded[t] \cup {fault[t]}}
                   \cup (IF pending[t] # loaded[t] THEN {pending[t]} ELSE {}) :
       /\ pending' = [pending EXCEPT ![t] = result]
       /\ lost' = [lost EXCEPT ![t] = @ \cup ((pending[t] \cup {fault[t]}) \ result)]
       /\ escaped' = [escaped EXCEPT ![t] =
                        IF Kill \in pending[t] \ result THEN @ \cup {"lost"} ELSE @]
  /\ fault' = [fault EXCEPT ![t] = None]
  /\ loaded' = [loaded EXCEPT ![t] = {}]
  /\ UNCHANGED <<taskVars, action, doingExit, blocked, queued, frames, freedUse>>

-----------------------------------------------------------------------------
(* Receiving *)

\* The frames pushed for the handlers in `calls`, innermost first: signals are
\* taken in ascending order and each frame saves the mask at that moment.
NewFrames(old, calls) ==
  LET n == Cardinality(calls)
      Before(i) == {c \in calls : Cardinality({d \in calls : d < c}) < n - i}
  IN  [i \in 1 .. n |-> old \cup Before(i)]

\* The guest's stack is finite: only the innermost MaxFrames are remembered.
Push(new, old) ==
  LET all == new \o old
  IN  SubSeq(all, 1, IF Len(all) <= MaxFrames THEN Len(all) ELSE MaxFrames)

\* A slip: a fatal signal is taken and the thread goes on.
ReceiveAndGoOn(t) ==
  /\ pc[t] = "ret"
  /\ pending' = [pending EXCEPT ![t] = {}]
  /\ pc' = [pc EXCEPT ![t] = "user"]
  /\ UNCHANGED <<taskVars, action, doingExit, blocked, queued, frames, fault, loaded,
                 ghosts>>

\* receive_signals: one pass over the pending signals in ascending order, which
\* a fatal signal cuts short.
ReceiveSignals(t) ==
  LET h     == sighand[t]
      fatal == {s \in pending[t] : SignalAction(h, s) = "KILL"}
      taken == IF fatal = {} THEN pending[t]
               ELSE {s \in pending[t] : s <= Least(fatal)}
      calls == {s \in taken : SignalAction(h, s) = "CALL_HANDLER"}
  IN  /\ pc[t] = "ret"
      /\ pending' = [pending EXCEPT ![t] = @ \ taken]
      /\ blocked' = [blocked EXCEPT ![t] = @ \cup calls]
      /\ frames'  = [frames EXCEPT ![t] = Push(NewFrames(blocked[t], calls), @)]
      /\ pc' = [pc EXCEPT ![t] = IF fatal = {} THEN "user" ELSE "exitgroup"]
      /\ UNCHANGED <<taskVars, action, doingExit, queued, fault, loaded, ghosts>>

-----------------------------------------------------------------------------
(* Cloning: task_create_ copies the whole parent, copy_task comes later. *)

CloneCreate(t, c) ==
  /\ pc[t] = "user"
  /\ pc[c] = "unused"
  /\ pc'      = [pc EXCEPT ![t] = "clone", ![c] = "new"]
  /\ sighand' = [sighand EXCEPT ![c] = sighand[t]]
  /\ group'   = [group EXCEPT ![c] = group[t]]
  /\ child'   = [child EXCEPT ![t] = c]
  /\ blocked' = [blocked EXCEPT ![c] = blocked[t]]
  /\ queued'  = [queued EXCEPT ![c] = queued[t]]
  /\ pending' = [pending EXCEPT ![c] = pending[t]]
  /\ frames'  = [frames EXCEPT ![c] = frames[t]]
  /\ UNCHANGED <<threads, action, doingExit, fault, loaded, ghosts>>

\* copy_task and task_start for the child the caller has just created.
CloneAttach(t, c) ==
  /\ pc[t] = "clone"
  /\ child[t] = c
  /\ child' = [child EXCEPT ![t] = None]
  /\ pc' = [pc EXCEPT ![t] = "ret", ![c] = "user"]
  /\ \/ /\ threads' = [threads EXCEPT ![group[t]] = @ \cup {c}]   \* CLONE_THREAD_
        /\ escaped' = [escaped EXCEPT ![c] =
                         IF doingExit[group[t]] THEN @ \cup {"late"} ELSE @]
        /\ UNCHANGED <<group, sighand, action>>
     \/ /\ group'   = [group EXCEPT ![c] = c]
        /\ threads' = [threads EXCEPT ![c] = {c}]
        /\ \/ UNCHANGED <<sighand, action>>                       \* CLONE_SIGHAND_
           \/ /\ sighand' = [sighand EXCEPT ![c] = c]
              /\ action'  = [action EXCEPT ![c] = action[sighand[t]]]
        /\ UNCHANGED escaped
  /\ UNCHANGED <<doingExit, blocked, queued, pending, frames, fault, loaded,
                 lost, freedUse>>

-----------------------------------------------------------------------------
(* Exiting *)

\* sys_exit_group.
ExitGroupCall(t) ==
  /\ pc[t] = "user"
  /\ pc' = [pc EXCEPT ![t] = "exitgroup"]
  /\ UNCHANGED <<taskVars, action, doingExit, blocked, queued, pending, frames,
                 fault, loaded, ghosts>>

\* A slip: the leader is spared.
DoExitGroupButLeader(t) ==
  /\ pc[t] = "exitgroup"
  /\ doingExit' = [doingExit EXCEPT ![group[t]] = TRUE]
  /\ pending' = [u \in Task |-> IF u \in threads[group[t]] \ {group[t]}
                                THEN pending[u] \cup {Kill} ELSE pending[u]]
  /\ pc' = [u \in Task |-> IF u = t THEN "exiting"
                           ELSE IF u \in threads[group[t]] THEN Woken(pc[u]) ELSE pc[u]]
  /\ UNCHANGED <<taskVars, action, blocked, queued, frames, fault, loaded, ghosts>>


\* do_exit_group: SIGKILL to everybody on group->threads, under group->lock,
\* then do_exit up to sighand_release.
DoExitGroup(t) ==
  /\ pc[t] = "exitgroup"
  /\ doingExit' = [doingExit EXCEPT ![group[t]] = TRUE]
  /\ pending' = [u \in Task |-> IF u \in threads[group[t]]
                                THEN pending[u] \cup {Kill} ELSE pending[u]]
  /\ pc' = [u \in Task |-> IF u = t THEN "exiting"
                           ELSE IF u \in threads[group[t]] THEN Woken(pc[u]) ELSE pc[u]]
  /\ UNCHANGED <<taskVars, action, blocked, queued, frames, fault, loaded, ghosts>>

\* sys_exit: do_exit of this thread alone, up to sighand_release.
ExitCall(t) ==
  /\ pc[t] = "user"
  /\ pc' = [pc EXCEPT ![t] = "exiting"]
  /\ UNCHANGED <<taskVars, action, doingExit, blocked, queued, pending, frames,
                 fault, loaded, ghosts>>

\* The rest of do_exit: exit_tgroup, and a leader waits to become a zombie.
ExitFinish(t) ==
  /\ pc[t] = "exiting"
  /\ pc' = [pc EXCEPT ![t] = "gone"]
  /\ threads' = [threads EXCEPT ![group[t]] = @ \ {t}]
  /\ UNCHANGED <<group, sighand, child, action, doingExit, blocked, queued,
                 pending, frames, fault, loaded, ghosts>>

-----------------------------------------------------------------------------
\* Steps a running thread takes sooner or later on its own.  The end of a wait is
\* none of them: an eventfd may never be written, a vfork child never exit.
Progress(t) ==
  \/ Interrupt(t)
  \/ FallAsleep(t)
  \/ FaultStore(t)
  \/ ReceiveSignals(t)
  \/ \E c \in Task : CloneAttach(t, c)
  \/ DoExitGroup(t)
  \/ ExitFinish(t)

Next ==
  \/ \E u \in Task, sig \in Sig : SendSignal(u, sig)
  \/ \E t \in Task :
       \/ Progress(t)
       \/ WaitCall(t)
       \/ WaitEnds(t)
       \/ Sigprocmask(t)
       \/ Sigreturn(t)
       \/ Sigaction(t)
       \/ FaultLoad(t)
       \/ ExitGroupCall(t)
       \/ ExitCall(t)
       \/ \E c \in Task : CloneCreate(t, c)

Spec == Init /\ [][Next]_vars

\* The host scheduler runs every runnable thread, and the pthread mutexes
\* are taken to be free of starvation.
Fairness == \A t \in Task : WF_vars(Progress(t))
FairSpec == Spec /\ Fairness

-----------------------------------------------------------------------------
TypeOK ==
  /\ pc \in [Task -> PC]
  /\ sighand \in [Task -> Task]
  /\ action \in [Task -> [Sig -> {"dfl", "ign", "call"}]]
  /\ group \in [Task -> Task]
  /\ threads \in [Task -> SUBSET Task]
  /\ doingExit \in [Task -> BOOLEAN]
  /\ blocked \in [Task -> SUBSET Sig]
  /\ queued \in [Task -> SUBSET Sig]
  /\ pending \in [Task -> SUBSET Sig]
  /\ frames \in [Task -> Seq(SUBSET Sig)]
  /\ child \in [Task -> Task \cup {None}]
  /\ fault \in [Task -> Synchronous \cup {None}]
  /\ \A t \in Task : pc[t] = "rmw" => fault[t] # None
  /\ loaded \in [Task -> SUBSET Sig]
  /\ lost \in [Task -> SUBSET Sig]
  /\ escaped \in [Task -> SUBSET {"parked", "lost", "late"}]
  /\ freedUse \in BOOLEAN

-----------------------------------------------------------------------------
(* Safety *)

\* A signal waits in task->queued only while it is blocked: whatever unblocks
\* it (sigprocmask, sigreturn) moves it on, so no signal is forgotten there.
QueuedAreBlocked == \A t \in Task : queued[t] \subseteq blocked[t]

\* A blocked signal never interrupts the task: receive_signals takes everything
\* in task->pending without looking at the mask, so only SIGKILL/SIGSTOP and
\* the fault being forced right now may be pending and blocked at once (a fatal
\* signal may leave such a fault behind in a task that is leaving).
PendingAreDeliverable ==
  \A t \in Task :
    pending[t] \cap blocked[t] \subseteq
      Unblockable \cup (IF pc[t] \in {"ret"} \cup Leaving THEN Synchronous ELSE {})

\* What makes PendingAreDeliverable inductive: the value an unfinished unlocked
\* `pending |=` has read obeys it as well.
LoadedAreDeliverable ==
  \A t \in Task : pc[t] = "rmw" => loaded[t] \cap blocked[t] \subseteq Unblockable

MaskDiscipline == QueuedAreBlocked /\ PendingAreDeliverable /\ LoadedAreDeliverable

\* do_exit_group reaches every thread of the group: each is leaving, or has
\* SIGKILL pending, or is one that a named race let slip.
ExitGroupReachesAll ==
  \A g \in Task : doingExit[g] =>
    \A t \in threads[g] :
      pc[t] \in Leaving \/ Kill \in pending[t] \/ escaped[t] # {}

\* A signal sent to a task leaves its sets only when the task itself receives
\* it, from pending; the one exception is the race of the unlocked `pending |=`.
SignalsConserved ==
  [][\A t \in Task : \A s \in (queued[t] \cup pending[t])
                              \ (queued'[t] \cup pending'[t]) :
       \/ s \in pending[t] /\ pc[t] = "ret" /\ pc'[t] \in {"user", "exitgroup"}
       \/ s \in lost'[t]]_vars


\* How tasks, groups and unfinished clones hang together; this is what makes
\* ExitGroupReachesAll inductive.
ThreadsBelong ==
  \A g \in Task : \A t \in threads[g] :
    group[t] = g /\ pc[t] \notin {"unused", "new", "gone"}

\* The leader of a group in use has been started before.
LeadersStarted ==
  /\ \A t \in Task : pc[t] # "unused" => pc[group[t]] \notin {"unused", "new"}
  /\ \A g \in Task : doingExit[g] => pc[g] \notin {"unused", "new"}

\* A task that is being cloned belongs to exactly one caller of sys_clone.
ClonesOwnTheirChild ==
  /\ \A t \in Task : pc[t] = "clone" =>
       /\ child[t] \in Task /\ pc[child[t]] = "new"
       /\ group[child[t]] = group[t]
  /\ \A t, u \in Task : pc[t] = "clone" /\ pc[u] = "clone" /\ child[t] = child[u]
                         => t = u

GroupsWellFormed == ThreadsBelong /\ LeadersStarted /\ ClonesOwnTheirChild

-----------------------------------------------------------------------------
(* What the comments say of the code, and the code does not do *)

\* exit.c: "kill everyone else in the group".
KillsEveryoneElse ==
  \A g \in Task : doingExit[g] =>
    \A t \in threads[g] : pc[t] \in Leaving \/ Kill \in pending[t]

\* task.h: queued is "where blocked signals go when they're sent"; SIGKILL and
\* SIGSTOP are not blockable, so they have no business there.
UnblockableNeverQueued == \A t \in Task : queued[t] \cap Unblockable = {}

\* task.h: the fields of a task are "private to the thread executing this task
\* and need no locking"; send_signal follows task->sighand from other threads
\* and may find it released.
SighandStaysValid == ~freedUse

\* user-signal.h: "send a signal": what was sent is still there to be received.
NoSignalOverwritten == \A t \in Task : lost[t] = {}
=============================================================================
