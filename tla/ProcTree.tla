----------------------------- MODULE ProcTree ------------------------------
(***************************************************************************)
(* The process tree: pid allocation (kernel/task.c), fork and vfork        *)
(* (kernel/fork.c), exit and wait4 (kernel/exit.c), sessions and process   *)
(* groups (kernel/group.c).                                                *)
(*                                                                         *)
(* What happens under pids_lock is one action; the parts of clone and exit *)
(* that run outside it are steps of their own.  A thread group is named    *)
(* after its leader, because struct tgroup lives as long as the leader's   *)
(* struct task.  When the code follows a pointer to a task or a group that *)
(* has been freed, or a NULL, `wild` records which one it was and the      *)
(* behaviour stops: nothing can be said of the program after that.         *)
(***************************************************************************)
EXTENDS Naturals, Sequences, FiniteSets

CONSTANTS
  Task,       \* task structures; each is allocated at most once
  Init1,      \* the first process, whose pid is 1
  MaxPid,     \* MAX_PID: pids are 0 .. MaxPid
  CloneKinds, \* subset of {"fork", "vfork", "thread", "fault"}
  Calls,      \* subset of {"exec", "wait", "setpgid", "setsid"}
  AnyChild,   \* the (dword_t) -1 of wait4
  None

Pid == 0 .. MaxPid

ASSUME ProcTreeAssumption ==
  /\ Init1 \in Task
  /\ MaxPid \in Nat \ {0}
  /\ CloneKinds \subseteq {"fork", "vfork", "thread", "fault"}
  /\ Calls \subseteq {"exec", "wait", "setpgid", "setsid"}
  /\ None \notin Task /\ None \notin Pid /\ None # AnyChild
  /\ None \notin {"vfork", "exiting", "group"}
  /\ AnyChild \notin Pid

VARIABLES
  pc,
  freed,     \* the structure has been given back to malloc
  pid, parent, group,
  children,  \* the list headed by task->children, newest first
  zombie, vforkDone,
  threads,   \* group->threads
  sid, pgid, \* of a group
  sessionOf, \* the pid on whose session ring the group is linked, or None
  pgroupOf,  \* likewise for the ring of the process group
  table,     \* pids[p].task
  curPid,
  newTask,   \* the child a sys_clone is making or waiting for, or None
  kind,      \* what that sys_clone was asked for
  last,      \* do_exit's group_dead
  asked, waitId, \* what wait4 was asked for, and its variable id
  halted,    \* halt_system has run
  wild

kin   == <<parent, children>>
rings == <<sid, pgid, sessionOf, pgroupOf>>
pids  == <<pid, table, curPid>>
clone == <<newTask, kind>>
waits == <<asked, waitId>>
vars  == <<pc, freed, pids, kin, group, zombie, vforkDone, threads, rings, clone,
           last, waits, halted, wild>>

Init ==
  LET rootOr(x, y) == [t \in Task |-> IF t = Init1 THEN x ELSE y] IN
  /\ pc        = rootOr("user", "unused")
  /\ freed     = rootOr(FALSE, FALSE)
  /\ pid       = rootOr(1, None)
  /\ parent    = rootOr(None, None)
  /\ group     = [t \in Task |-> t]
  /\ children  = rootOr(<<>>, <<>>)
  /\ zombie    = rootOr(FALSE, FALSE)
  /\ vforkDone = rootOr(FALSE, FALSE)
  /\ threads   = rootOr({Init1}, {})
  /\ sid       = rootOr(1, None)
  /\ pgid      = rootOr(1, None)
  /\ sessionOf = rootOr(1, None)
  /\ pgroupOf  = rootOr(1, None)
  /\ table     = [p \in Pid |-> IF p = 1 THEN Init1 ELSE None]
  /\ curPid    = 1
  /\ newTask   = rootOr(None, None)
  /\ kind      = rootOr(None, None)
  /\ last      = rootOr(FALSE, FALSE)
  /\ asked     = rootOr(None, None)
  /\ waitId    = rootOr(None, None)
  /\ halted    = FALSE
  /\ wild      = None

-----------------------------------------------------------------------------
Goto(t, next) == pc' = [pc EXCEPT ![t] = next]

\* Undefined behaviour: follow a pointer that no longer leads anywhere.
GoWild(why) ==
  /\ wild' = why
  /\ UNCHANGED <<pc, freed, pids, kin, group, zombie, vforkDone, threads, rings,
                 clone, last, waits, halted>>

\* c is on p's list of children, by its task->siblings.
OnList(p, c) == \E i \in DOMAIN children[p] : children[p][i] = c

\* The heads of the list that t is linked on.
Heads(t) == {p \in Task : OnList(p, t)}

\* list_remove(&t->siblings) writes to both neighbours of t.
NeighbourFreed(t) ==
  \E p \in Heads(t) : freed[p] /\ t \in {children[p][1], children[p][Len(children[p])]}

\* The list after list_remove; a task has one link, so it is there at most once.
Without(list, t) ==
  IF \A i \in DOMAIN list : list[i] # t THEN list
  ELSE LET at == CHOOSE i \in DOMAIN list : list[i] = t
       IN  SubSeq(list, 1, at - 1) \o SubSeq(list, at + 1, Len(list))

\* A slip: the pid table keeps its pointer.
DestroyKeepingPid(t) ==
  /\ freed' = [freed EXCEPT ![t] = TRUE]
  /\ children' = [p \in Task |-> Without(children[p], t)]
  /\ UNCHANGED pids

\* task_destroy.
Destroy(t) ==
  /\ freed'    = [freed EXCEPT ![t] = TRUE]
  /\ table'    = [table EXCEPT ![pid[t]] = None]
  /\ children' = [p \in Task |-> Without(children[p], t)]
  /\ UNCHANGED <<pid, curPid>>

-----------------------------------------------------------------------------
(* Pids *)

\* A slip: a pid is free as soon as its task is.
TaskGone(p) == table[p] = None

PidEmpty(p) ==
  /\ table[p] = None
  /\ \A g \in Task : p \notin {sessionOf[g], pgroupOf[g]}

\* How far the search of task_create_ goes past curPid before it meets p.
Distance(p) == (p + MaxPid - curPid) % (MaxPid + 1)

\* task_create_(t) under pids_lock.  With no empty pid its loop never ends.
CreateTask(t, c) ==
  /\ pc[t] = "user"
  /\ pc[c] = "unused"
  /\ \E k \in CloneKinds : kind' = [kind EXCEPT ![t] = k]
  /\ \E p \in {q \in Pid : PidEmpty(q)} :
       /\ \A q \in Pid : PidEmpty(q) => Distance(p) <= Distance(q)
       /\ curPid' = p
       /\ pid' = [pid EXCEPT ![c] = p]
       /\ table' = [table EXCEPT ![p] = c]
  /\ group'   = [group EXCEPT ![c] = group[t]]
  /\ newTask' = [newTask EXCEPT ![t] = c]
  /\ parent'  = [parent EXCEPT ![c] = parent[t]]  \* *task = *parent, for now
  /\ pc' = [pc EXCEPT ![t] = "link", ![c] = "new"]
  /\ UNCHANGED <<freed, children, zombie, vforkDone, threads, rings, last, waits,
                 halted, wild>>

\* A slip: the list gets the pointer that was copied from the parent's task.
LinkCopied(t) ==
  /\ pc[t] = "link"
  /\ parent' = [parent EXCEPT ![newTask[t]] = t]
  /\ children' = [children EXCEPT ![t] = <<parent[newTask[t]]>> \o @]
  /\ Goto(t, "copy")
  /\ UNCHANGED <<freed, pids, group, zombie, vforkDone, threads, rings, clone, last,
                 waits, halted, wild>>

\* The rest of task_create_, without the lock.
LinkChild(t) ==
  /\ pc[t] = "link"
  /\ parent' = [parent EXCEPT ![newTask[t]] = t]
  /\ children' = [children EXCEPT ![t] = <<newTask[t]>> \o @]
  /\ Goto(t, "copy")
  /\ UNCHANGED <<freed, pids, group, zombie, vforkDone, threads, rings, clone, last,
                 waits, halted, wild>>

\* copy_task joins the thread group or, with tgroup_copy, makes a new one.
JoinGroup(t, c, how) ==
  IF how = "thread"
  THEN /\ threads' = [threads EXCEPT ![group[t]] = @ \cup {c}]
       /\ UNCHANGED <<group, rings>>
  ELSE /\ threads' = [threads EXCEPT ![c] = {c}]
       /\ group' = [group EXCEPT ![c] = c]
       /\ sid'  = [sid EXCEPT ![c] = sid[group[t]]]
       /\ pgid' = [pgid EXCEPT ![c] = pgid[group[t]]]
       /\ sessionOf' = [sessionOf EXCEPT ![c] = sessionOf[group[t]]]
       /\ pgroupOf'  = [pgroupOf EXCEPT ![c] = pgroupOf[group[t]]]

CopyTask(t) ==
  /\ pc[t] = "copy"
  /\ kind[t] # "fault"
  /\ JoinGroup(t, newTask[t], kind[t])
  /\ pc' = [pc EXCEPT ![t] = IF kind[t] = "vfork" THEN "vfork" ELSE "user",
                      ![newTask[t]] = "user"]
  /\ newTask' = IF kind[t] = "vfork" THEN newTask ELSE [newTask EXCEPT ![t] = None]
  /\ kind' = [kind EXCEPT ![t] = None]
  /\ UNCHANGED <<freed, pids, kin, zombie, vforkDone, last, waits, halted, wild>>

\* copy_task fails, for want of memory or, when the child has joined its group
\* already, because ptid or ctid cannot be written; task_destroy does not take
\* the child out of the group, nor the group out of the rings.
CopyTaskFails(t) ==
  LET c == newTask[t] IN
  /\ pc[t] = "copy"
  /\ kind[t] = "fault"
  /\ \/ UNCHANGED <<threads, group, rings>>
     \/ \E how \in {"thread", "fork"} : JoinGroup(t, c, how)
  /\ Destroy(c)
  /\ pc' = [pc EXCEPT ![t] = "user", ![c] = "gone"]
  /\ newTask' = [newTask EXCEPT ![t] = None]
  /\ kind' = [kind EXCEPT ![t] = None]
  /\ UNCHANGED <<parent, zombie, vforkDone, last, waits, halted, wild>>

\* The parent of a vfork sleeps on the child's vfork_lock and vfork_cond.
VforkReturn(t) ==
  LET c == newTask[t] IN
  /\ pc[t] = "vfork"
  /\ IF freed[c] THEN GoWild("vfork")
     ELSE /\ vforkDone[c]
          /\ Goto(t, "user")
          /\ newTask' = [newTask EXCEPT ![t] = None]
          /\ UNCHANGED <<freed, pids, kin, group, zombie, vforkDone, threads, rings,
                         kind, last, waits, halted, wild>>

\* sys_execve, as far as the process tree is concerned.
Exec(t) ==
  /\ "exec" \in Calls
  /\ pc[t] = "user"
  /\ ~vforkDone[t]
  /\ vforkDone' = [vforkDone EXCEPT ![t] = TRUE]
  /\ UNCHANGED <<pc, freed, pids, kin, group, zombie, threads, rings, clone, last,
                 waits, halted, wild>>

-----------------------------------------------------------------------------
(* Exit *)

\* A slip: the leader's exit counts as the group's.
LeaveWithLeader(t) ==
  /\ pc[t] = "user"
  /\ threads' = [threads EXCEPT ![group[t]] = @ \ {t}]
  /\ last' = [last EXCEPT ![t] = group[t] = t]
  /\ Goto(t, IF group[t] = t THEN "left" ELSE "unlinked")
  /\ UNCHANGED <<freed, pids, kin, group, zombie, vforkDone, rings, clone, waits,
                 halted, wild>>

\* list_remove(&t->group_links), or the walk over group->threads before it, may
\* meet a thread whose sys_clone failed.
ExitMeetsFreed(t) ==
  /\ pc[t] = "user"
  /\ \E u \in threads[group[t]] : freed[u]
  /\ GoWild("threads")

\* exit_tgroup under group->lock.
ExitLeave(t) ==
  LET g == group[t] IN
  /\ pc[t] = "user"
  /\ threads' = [threads EXCEPT ![g] = @ \ {t}]
  /\ last' = [last EXCEPT ![t] = threads'[g] = {}]
  /\ Goto(t, IF threads'[g] = {} THEN "left" ELSE "unlinked")
  /\ UNCHANGED <<freed, pids, kin, group, zombie, vforkDone, rings, clone, waits,
                 halted, wild>>

\* exit_tgroup under pids_lock, for the last thread only.
ExitUnlink(t) ==
  LET g == group[t] IN
  /\ pc[t] = "left"
  /\ sessionOf' = [sessionOf EXCEPT ![g] = None]
  /\ pgroupOf'  = [pgroupOf EXCEPT ![g] = None]
  /\ Goto(t, "unlinked")
  /\ UNCHANGED <<freed, pids, kin, group, zombie, vforkDone, threads, sid, pgid,
                 clone, last, waits, halted, wild>>

\* vfork_notify, then the exit code and rusage under group->lock.
ExitNotify(t) ==
  /\ pc[t] = "unlinked"
  /\ IF freed[t] \/ freed[group[t]] THEN GoWild("exiting")
     ELSE /\ vforkDone' = [vforkDone EXCEPT ![t] = TRUE]
          /\ Goto(t, "notified")
          /\ UNCHANGED <<freed, pids, kin, group, zombie, threads, rings, clone,
                         last, waits, halted, wild>>

\* notify(&group->child_exit), with `also` moving at the same time.
WakeWaiters(g, t, next) ==
  pc' = [u \in Task |-> IF u = t THEN next
                        ELSE IF pc[u] = "waiting" /\ group[u] = g THEN "woken"
                        ELSE pc[u]]

\* A slip: the children keep their parent.
ReparentNobody(t) == UNCHANGED parent

\* Reparent t's children to the task with pid 1, if that is still alive.
Reparent(t) ==
  LET new == IF table[1] # None /\ ~zombie[table[1]] THEN table[1] ELSE None IN
  parent' = [c \in Task |-> IF OnList(t, c) THEN new ELSE parent[c]]

\* Two slips: only a leader's own exit is reported; and the exiting group's
\* own waiters are woken.
ReportOwnDeath(t) ==
  /\ Reparent(t)
  /\ zombie' = [zombie EXCEPT ![group[t]] = group[t] = t]
  /\ IF parent[group[t]] = None THEN Goto(t, "gone")
     ELSE WakeWaiters(group[parent[group[t]]], t, "gone")
  /\ UNCHANGED halted

ReportToOwnGroup(t) ==
  /\ Reparent(t)
  /\ zombie' = [zombie EXCEPT ![group[t]] = TRUE]
  /\ WakeWaiters(group[t], t, "gone")
  /\ UNCHANGED halted

\* The part of do_exit that only the last thread of a group goes through.
ReportDeath(t) ==
  LET leader == group[t] IN
  /\ Reparent(t)
  /\ IF parent[leader] = None
     THEN halted' = TRUE /\ Goto(t, "gone") /\ UNCHANGED zombie
     ELSE /\ zombie' = [zombie EXCEPT ![leader] = TRUE]
          /\ WakeWaiters(group[parent[leader]], t, "gone")
          /\ UNCHANGED halted

\* The rest of do_exit, under pids_lock.
ExitFinish(t) ==
  LET p == parent[group[t]] IN
  /\ pc[t] = "notified"
  /\ \/ /\ freed[t] \/ freed[group[t]]
        /\ GoWild("exiting")
     \/ /\ ~freed[t] /\ ~freed[group[t]]
        /\ last[t] /\ p # None /\ (freed[p] \/ freed[group[p]])
        /\ GoWild("parent")
     \/ /\ ~freed[t] /\ ~freed[group[t]]
        /\ t # group[t] /\ NeighbourFreed(t)
        /\ GoWild("siblings")
     \/ /\ ~freed[t] /\ ~freed[group[t]]
        /\ ~(last[t] /\ p # None /\ (freed[p] \/ freed[group[p]]))
        /\ ~(t # group[t] /\ NeighbourFreed(t))
        /\ IF last[t] THEN ReportDeath(t)
           ELSE Goto(t, "gone") /\ UNCHANGED <<parent, zombie, halted>>
        /\ IF t = group[t] THEN UNCHANGED <<freed, pids, children>> ELSE Destroy(t)
        /\ UNCHANGED <<group, vforkDone, threads, rings, clone, last, waits, wild>>

-----------------------------------------------------------------------------
(* wait4 *)

IsLeader(t) == group[t] = t

\* wait4 returns, with the zombie z reaped or (z = None) without.
Return(t, z) ==
  IF z # None /\ NeighbourFreed(z) THEN GoWild("siblings")
  ELSE /\ Goto(t, "user")
       /\ asked' = [asked EXCEPT ![t] = None]
       /\ waitId' = [waitId EXCEPT ![t] = None]
       /\ IF z = None THEN UNCHANGED <<freed, pids, children>> ELSE Destroy(z)
       /\ UNCHANGED <<parent, group, zombie, vforkDone, threads, rings, clone, last,
                      halted, wild>>

\* wait_for on child_exit; the loop has left its mark in id.
SleepFor(t, original, id) ==
  /\ Goto(t, "waiting")
  /\ asked' = [asked EXCEPT ![t] = original]
  /\ waitId' = [waitId EXCEPT ![t] = id]
  /\ UNCHANGED <<freed, pids, kin, group, zombie, vforkDone, threads, rings, clone,
                 last, halted, wild>>

\* One pass of wait4's loop for any child of this thread.
ScanAny(t, original, nohang) ==
  LET leaders == {i \in DOMAIN children[t] : IsLeader(children[t][i])}
      zombies == {i \in leaders : zombie[children[t][i]]}
  IN  IF \E i \in DOMAIN children[t] : freed[group[children[t][i]]] THEN GoWild("group")
      ELSE IF zombies # {}
      THEN \E i \in zombies : (\A j \in zombies : i <= j) /\ Return(t, children[t][i])
      ELSE IF children[t] = <<>> \/ nohang THEN Return(t, None)
      ELSE \/ leaders = {} /\ SleepFor(t, original, AnyChild)
           \/ \E i \in leaders : /\ \A j \in leaders : j <= i
                                 /\ SleepFor(t, original, pid[children[t][i]])

\* A slip: reap without asking for a zombie.
ReapPid(t, original, id, nohang) ==
  LET u == table[id] IN
  IF u = None \/ parent[u] = None THEN Return(t, None)
  ELSE IF group[parent[u]] # group[t] THEN Return(t, None)
  ELSE Return(t, group[u])

\* One pass for the child with a certain pid.
ScanPid(t, original, id, nohang) ==
  LET u == table[id] IN
  IF u = None THEN Return(t, None)
  ELSE IF parent[u] = None \/ freed[parent[u]] THEN GoWild("parent")
  ELSE IF freed[group[u]] THEN GoWild("group")
  ELSE IF group[parent[u]] # group[t] THEN Return(t, None)
  ELSE IF zombie[group[u]] THEN Return(t, group[u])
  ELSE IF nohang THEN Return(t, None)
  ELSE SleepFor(t, original, id)

Scan(t, original, id, nohang) ==
  IF id = AnyChild THEN ScanAny(t, original, nohang) ELSE ScanPid(t, original, id, nohang)

Wait4(t) ==
  /\ "wait" \in Calls
  /\ pc[t] = "user"
  /\ \E id \in Pid \cup {AnyChild}, nohang \in BOOLEAN : Scan(t, id, id, nohang)

\* Woken by a notify: goto retry.
WaitAgain(t) ==
  /\ pc[t] = "woken"
  /\ Scan(t, asked[t], waitId[t], FALSE)

\* wait_for returns _EINTR.
WaitInterrupted(t) ==
  /\ pc[t] \in {"waiting", "woken"}
  /\ Return(t, None)

-----------------------------------------------------------------------------
(* Sessions and process groups *)

\* sys_setpgid.  pid_get may return NULL, and the group of a zombie child has left
\* its ring already, so that list_remove meets NULL links.
Setpgid(t, id0, pgid0) ==
  LET id == IF id0 = 0 THEN pid[t] ELSE id0
      pg == IF pgid0 = 0 THEN id ELSE pgid0
      task == table[id]
      g == group[task]
  IN  /\ "setpgid" \in Calls
      /\ pc[t] = "user"
      /\ IF PidEmpty(id) THEN GoWild("setpgid")
         ELSE IF task # None /\ freed[g] THEN GoWild("group")
         ELSE /\ task # None
              /\ id # pg => \E h \in Task : pgroupOf[h] = pg /\ sid[h] = sid[g]
              /\ task = t \/ parent[task] = t
              /\ sid[g] # pid[g]
              /\ pgid[g] # pg
              /\ IF pgroupOf[g] = None THEN GoWild("setpgid")
                 ELSE /\ pgid' = [pgid EXCEPT ![g] = pg]
                      /\ pgroupOf' = [pgroupOf EXCEPT ![g] = id]
                      /\ UNCHANGED <<pc, freed, pids, kin, group, zombie, vforkDone,
                                     threads, sid, sessionOf, clone, last, waits, halted,
                                     wild>>

\* A slip: setsid leaves the group on the ring of its old process group.
SetsidHalf(t) ==
  LET g == group[t] IN
  /\ "setsid" \in Calls
  /\ pc[t] = "user"
  /\ pid[g] \notin {pgid[g], sid[g]}
  /\ sid'  = [sid EXCEPT ![g] = pid[g]]
  /\ pgid' = [pgid EXCEPT ![g] = pid[g]]
  /\ sessionOf' = [sessionOf EXCEPT ![g] = pid[t]]
  /\ UNCHANGED <<pc, freed, pids, kin, group, zombie, vforkDone, threads, pgroupOf,
                 clone, last, waits, halted, wild>>

Setsid(t) ==
  LET g == group[t] IN
  /\ "setsid" \in Calls
  /\ pc[t] = "user"
  /\ pid[g] \notin {pgid[g], sid[g]}
  /\ sid'  = [sid EXCEPT ![g] = pid[g]]
  /\ pgid' = [pgid EXCEPT ![g] = pid[g]]
  /\ sessionOf' = [sessionOf EXCEPT ![g] = pid[t]]
  /\ pgroupOf'  = [pgroupOf EXCEPT ![g] = pid[t]]
  /\ UNCHANGED <<pc, freed, pids, kin, group, zombie, vforkDone, threads, clone, last,
                 waits, halted, wild>>

-----------------------------------------------------------------------------
Step(t) ==
  \/ \E c \in Task : CreateTask(t, c)
  \/ LinkChild(t) \/ CopyTask(t) \/ CopyTaskFails(t) \/ VforkReturn(t) \/ Exec(t)
  \/ ExitMeetsFreed(t) \/ ExitLeave(t) \/ ExitUnlink(t) \/ ExitNotify(t) \/ ExitFinish(t)
  \/ Wait4(t) \/ WaitAgain(t) \/ WaitInterrupted(t)
  \/ \E id, pg \in Pid : Setpgid(t, id, pg)
  \/ Setsid(t)

Next == wild = None /\ ~halted /\ \E t \in Task : Step(t)

Spec == Init /\ [][Next]_vars

-----------------------------------------------------------------------------
PC == {"unused", "new", "user", "link", "copy", "vfork", "left", "unlinked",
       "notified", "gone", "waiting", "woken"}

TypeOK ==
  /\ pc \in [Task -> PC]
  /\ freed \in [Task -> BOOLEAN]
  /\ pid \in [Task -> Pid \cup {None}]
  /\ parent \in [Task -> Task \cup {None}]
  /\ group \in [Task -> Task]
  /\ children \in [Task -> Seq(Task)]
  /\ zombie \in [Task -> BOOLEAN]
  /\ vforkDone \in [Task -> BOOLEAN]
  /\ threads \in [Task -> SUBSET Task]
  /\ sid \in [Task -> Pid \cup {None}] /\ pgid \in [Task -> Pid \cup {None}]
  /\ sessionOf \in [Task -> Pid \cup {None}] /\ pgroupOf \in [Task -> Pid \cup {None}]
  /\ table \in [Pid -> Task \cup {None}]
  /\ curPid \in Pid
  /\ newTask \in [Task -> Task \cup {None}]
  /\ kind \in [Task -> CloneKinds \cup {None}]
  /\ last \in [Task -> BOOLEAN]
  /\ asked \in [Task -> Pid \cup {AnyChild, None}] /\ waitId \in [Task -> Pid \cup {AnyChild, None}]
  /\ halted \in BOOLEAN
  /\ wild \in {None, "vfork", "exiting", "parent", "siblings", "group", "setpgid",
              "threads"}

Allocated(t) == pc[t] # "unused" /\ ~freed[t]

\* The pid table leads to every task that is allocated and to no other, so
\* pid_get_task never returns a freed one and no two tasks share a pid.
PidTableExact ==
  /\ \A t \in Task : Allocated(t) => table[pid[t]] = t
  /\ \A p \in Pid : table[p] # None => Allocated(table[p]) /\ pid[table[p]] = p

\* A thread group that still has threads is on the rings of its session and its
\* process group (without setpgid, and with setsid called by leaders only).
RingsAgree ==
  \A g \in Task : threads[g] # {} => sessionOf[g] = sid[g] /\ pgroupOf[g] = pgid[g]

\* task_create_ never hands out a pid that names a session or a process group
\* with live members: the wraparound search skips such pids.
PidsAreFresh ==
  [][\A p \in Pid : table[p] = None /\ table'[p] # None =>
       \A g \in Task : threads[g] # {} => p \notin {sid[g], pgid[g]}]_vars

\* The death of a thread group is reported to its parent: when the last of its
\* threads is through do_exit the leader is a zombie (or reaped already), unless
\* a failed clone has left a freed thread on group->threads.
DeathIsReported ==
  \A g \in Task :
    /\ pc[g] = "gone"
    /\ group[g] = g
    /\ \A t \in Task : group[t] = g => pc[t] = "gone"
    /\ \A t \in threads[g] : ~freed[t]
    => zombie[g] \/ freed[g] \/ halted

\* A leader becomes a zombie only when no thread of its group is left to run.
ZombiesAreDead == \A g \in Task : zombie[g] => threads[g] = {}

\* Nobody sleeps in wait4 for a child that is a zombie already: a child of its
\* group that is still on the list of the thread that made it.  (A zombie handed
\* over to the first process while that sleeps is missed, see OrphansAreFound.)
NoMissedExit ==
  \A t \in Task : pc[t] = "waiting" /\ waitId[t] \in Pid =>
    LET u == table[waitId[t]] IN
    u # None /\ parent[u] # None /\ ~freed[parent[u]] /\ group[parent[u]] = group[t]
      /\ OnList(parent[u], u) => ~zombie[group[u]]

\* Every allocated task but the first has a parent that is allocated as well:
\* do_exit hands its children on before it is freed.
ParentsAlive ==
  \A t \in Task \ {Init1} : Allocated(t) /\ pc[t] # "new" /\ ~halted =>
    parent[t] # None /\ ~freed[parent[t]]

\* No thread in clone or in do_exit works on a task or group that wait4 has
\* freed (here: as long as the guest makes no threads).
TasksOutliveTheirUse == wild \notin {"vfork", "exiting", "group"}

-----------------------------------------------------------------------------
(* What the comments say of the code, and the code does not do *)

\* task.h: pids_lock "synchronizes obtaining a pointer to a task and freeing that
\* task"; a leader that is not the last thread loses its task before its exit
\* has got as far as pids_lock.
ExitingTaskIsAllocated == wild # "exiting"

\* fork.c: "task might be destroyed by the time we finish": not only its pid is
\* used after that, but vfork_lock and vfork_cond.
VforkChildIsAllocated == wild # "vfork"

\* exit.c: "look for a zombie child": a child that was reparented is one.
OrphansAreFound ==
  \A z \in Task : zombie[z] /\ ~freed[z] /\ parent[z] = Init1 =>
    OnList(Init1, z)

\* exit.c: "no matching zombie found, wait for one": when wait4 was asked for any
\* child and sleeps, no child is a zombie.
AnyMeansAny ==
  \A t \in Task : pc[t] = "waiting" /\ asked[t] = AnyChild =>
    \A i \in DOMAIN children[t] : ~zombie[children[t][i]]

\* user-signal.h: send_group_signal goes "to all processes in a group": it walks
\* the ring of pids[pgid], so every member must be on that ring.
GroupsOnTheirRing ==
  \A g \in Task : threads[g] # {} => pgroupOf[g] = pgid[g]
=============================================================================
