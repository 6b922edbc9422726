-------------------------- MODULE ProcTree_proofs --------------------------
(***************************************************************************)
(* Proofs about ProcTree.                                                  *)
(*                                                                         *)
(* The inductive invariant is a conjunction of parts that speak of the pid *)
(* table, the lists of children, thread groups, threads that are inside    *)
(* clone and threads that are inside do_exit; ProcessInv adds what is true *)
(* only when clone makes processes and never fails.  There is a lemma for  *)
(* each kind of step: it first states what the step does to the variables  *)
(* and to the predicates, then takes the parts one by one.                 *)
(***************************************************************************)
EXTENDS ProcTree, TLAPS

(***************************************************************************)
(* The parts of the invariant                                              *)
(***************************************************************************)
Alive(t) == pc[t] \in {"user", "link", "copy", "vfork", "waiting", "woken"}

InUse(t) == pc[t] \notin {"unused", "new"}

\* A structure that has not been handed out, or is not part of the tree yet.
Blank ==
  /\ \A t \in Task : pc[t] = "unused" => ~freed[t] /\ group[t] = t
  /\ \A t \in Task : ~InUse(t) => ~zombie[t] /\ threads[t] = {}
  /\ \A t, c \in Task : ~InUse(t) => ~OnList(t, c)
  /\ \A t \in Task : pc[t] # "unused" => pid[t] \in Pid

\* The task that clone is making belongs to one maker, who links it on its list.
MakersHold ==
  \A t \in Task : pc[t] \in {"link", "copy"} =>
    /\ newTask[t] \in Task
    /\ pc[newTask[t]] = "new" /\ ~freed[newTask[t]]
    /\ group[newTask[t]] = group[t]
    /\ kind[t] \in CloneKinds

MakersDiffer ==
  \A t, u \in Task :
    pc[t] \in {"link", "copy"} /\ pc[u] \in {"link", "copy"} /\ newTask[t] = newTask[u] => t = u

NewUnlisted == \A t \in Task : pc[t] = "link" => \A p \in Task : ~OnList(p, newTask[t])

NewListed == \A t \in Task : pc[t] = "copy" => OnList(t, newTask[t]) /\ parent[newTask[t]] = t

VforkHolds == \A t \in Task : pc[t] = "vfork" => newTask[t] \in Task /\ pc[newTask[t]] # "unused"

\* group->leader is a leader, from the moment the group exists.
LeadersLead ==
  \A t \in Task : pc[t] # "unused" => InUse(group[t]) /\ group[group[t]] = group[t]

\* group->threads holds the threads that run, and what failed clones left there.
ThreadsExact ==
  /\ \A t \in Task : Alive(t) => t \in threads[group[t]]
  /\ \A g \in Task : \A t \in threads[g] : group[t] = g /\ InUse(t) /\ (Alive(t) \/ freed[t])

\* group_dead means that nobody is left.
LastIsLast ==
  /\ \A t \in Task : last[t] => InUse(t) /\ ~Alive(t) /\ threads[group[t]] = {}
  /\ \A t \in Task : pc[t] = "left" => last[t]

ZombiesLead == \A z \in Task : zombie[z] => group[z] = z

\* When the last thread has left the group, somebody is on the way to report it.
Exiting(t) == pc[t] \in {"left", "unlinked", "notified"}

EmptyIsReported ==
  \A g \in Task : InUse(g) /\ group[g] = g /\ threads[g] = {} =>
    \/ zombie[g] \/ freed[g] \/ halted
    \/ \E t \in Task : Exiting(t) /\ last[t] /\ group[t] = g

Distinct(list) == \A i, j \in DOMAIN list : list[i] = list[j] => i = j

\* The lists of children: a task is at most once on at most one of them.
ListsDistinct == \A p \in Task : Distinct(children[p])

OneList == \A p, q, c \in Task : OnList(p, c) /\ OnList(q, c) => p = q

ListedInTree ==
  \A p, c \in Task : OnList(p, c) =>
    Allocated(c) /\ c # Init1 /\ (group[c] # c => group[c] = group[p])

FirstProcess ==
  /\ parent[Init1] = None /\ group[Init1] = Init1 /\ table[1] = Init1
  /\ InUse(Init1) /\ pid[Init1] = 1 /\ ~freed[Init1] /\ ~zombie[Init1]

WaitsForPid == \A t \in Task : pc[t] \in {"waiting", "woken"} => waitId[t] \in Pid \cup {AnyChild}
                                                               /\ asked[t] \in Pid \cup {AnyChild}

TreeInv ==
  /\ Blank /\ MakersHold /\ MakersDiffer /\ NewUnlisted /\ NewListed /\ VforkHolds
  /\ LeadersLead /\ ThreadsExact /\ LastIsLast /\ ZombiesLead /\ EmptyIsReported
  /\ ListsDistinct /\ OneList /\ ListedInTree /\ FirstProcess /\ WaitsForPid

(* What holds besides when clone makes processes only, and never fails *)

OnlyProcesses == CloneKinds \subseteq {"fork", "vfork"}

OwnGroups == OnlyProcesses => \A t \in Task : pc[t] # "new" => group[t] = t

NewHasMaker ==
  OnlyProcesses => \A t \in Task : pc[t] = "new" =>
    \E m \in Task : pc[m] \in {"link", "copy"} /\ newTask[m] = t

\* Only zombies are freed, and only what has left do_exit is a zombie.
FreedWereZombies ==
  OnlyProcesses => \A t \in Task : (freed[t] => zombie[t]) /\ (zombie[t] => pc[t] = "gone")

ExitingAreLast == OnlyProcesses => \A t \in Task : Exiting(t) => last[t]

\* A task is on its parent's list, or it was handed over to the first process.
ChildrenListed ==
  OnlyProcesses => \A t \in Task \ {Init1} : Allocated(t) /\ InUse(t) =>
    /\ parent[t] \in Task
    /\ parent[t] # Init1 => OnList(parent[t], t) /\ ~zombie[parent[t]]

\* Who sleeps in vfork still has the child.
VforkHasChild ==
  OnlyProcesses => \A t \in Task : pc[t] = "vfork" =>
    OnList(t, newTask[t]) /\ parent[newTask[t]] = t /\ InUse(newTask[t])

ProcessInv ==
  OwnGroups /\ NewHasMaker /\ FreedWereZombies /\ ExitingAreLast /\ ChildrenListed /\ VforkHasChild

\* NoMissedExit, for a sleeper s, a child u and the child's parent x.
NobodyMisses ==
  \A s, u, x \in Task :
    /\ pc[s] = "waiting" /\ waitId[s] \in Pid /\ table[waitId[s]] = u
    /\ parent[u] = x /\ group[x] = group[s] /\ OnList(x, u)
    => ~zombie[group[u]]

\* What the proofs keep needing of TypeOK.
Types ==
  /\ pc \in [Task -> PC] /\ group \in [Task -> Task] /\ newTask \in [Task -> Task \cup {None}]
  /\ parent \in [Task -> Task \cup {None}] /\ threads \in [Task -> SUBSET Task]
  /\ table \in [Pid -> Task \cup {None}]
  /\ None \notin Task /\ 1 \in Pid /\ Init1 \in Task

Inv == TypeOK /\ PidTableExact /\ ZombiesAreDead /\ TreeInv /\ NobodyMisses /\ ProcessInv

(***************************************************************************)
(* Lists and pids                                                          *)
(***************************************************************************)

\* What list_remove leaves of a list, entry by entry.
LEMMA WithoutEntries ==
  ASSUME NEW list \in Seq(Task), NEW t, NEW at \in DOMAIN list, list[at] = t,
         \A i, j \in DOMAIN list : list[i] = list[j] => i = j
  PROVE  /\ Without(list, t) \in Seq(Task)
         /\ DOMAIN Without(list, t) = 1 .. (Len(list) - 1)
         /\ \A k \in 1 .. (Len(list) - 1) :
              Without(list, t)[k] = IF k < at THEN list[k] ELSE list[k + 1]
<1>1. (CHOOSE i \in DOMAIN list : list[i] = t) = at
  OBVIOUS
<1>2. Without(list, t) = SubSeq(list, 1, at - 1) \o SubSeq(list, at + 1, Len(list))
  BY <1>1 DEF Without
<1>3. at \in 1 .. Len(list) /\ Len(list) \in Nat
  OBVIOUS
<1>4. /\ SubSeq(list, 1, at - 1) \in Seq(Task)
      /\ Len(SubSeq(list, 1, at - 1)) = at - 1
      /\ \A k \in 1 .. (at - 1) : SubSeq(list, 1, at - 1)[k] = list[k]
  BY <1>3
<1>5. /\ SubSeq(list, at + 1, Len(list)) \in Seq(Task)
      /\ Len(SubSeq(list, at + 1, Len(list))) = Len(list) - at
      /\ \A k \in 1 .. (Len(list) - at) :
           SubSeq(list, at + 1, Len(list))[k] = list[at + k]
  BY <1>3
<1>6. QED
  <2> DEFINE front == SubSeq(list, 1, at - 1)
             back  == SubSeq(list, at + 1, Len(list))
  <2> HIDE DEF front, back
  <2>1. /\ front \in Seq(Task) /\ back \in Seq(Task)
        /\ Len(front) = at - 1 /\ Len(back) = Len(list) - at
    BY <1>4, <1>5 DEF front, back
  <2>2. /\ front \o back \in Seq(Task)
        /\ DOMAIN (front \o back) = 1 .. (Len(list) - 1)
    BY <2>1, <1>3
  <2>3. ASSUME NEW k \in 1 .. (Len(list) - 1), k < at
        PROVE  (front \o back)[k] = list[k]
    BY <2>1, <2>3, <1>3, <1>4 DEF front
  <2>4. ASSUME NEW k \in 1 .. (Len(list) - 1), ~(k < at)
        PROVE  (front \o back)[k] = list[k + 1]
    <3>1. /\ k - (at - 1) \in 1 .. (Len(list) - at) /\ k > at - 1
          /\ k \in 1 .. (Len(front) + Len(back))
          /\ at + (k - (at - 1)) = k + 1
      BY <2>1, <2>4, <1>3
    <3>2. (front \o back)[k] = back[k - Len(front)]
      BY <2>1, <3>1
    <3>3. back[k - (at - 1)] = list[at + (k - (at - 1))]
      BY <3>1, <1>5 DEF back
    <3>4. QED
      BY <3>1, <3>2, <3>3, <2>1
  <2>5. Without(list, t) = front \o back
    BY <1>2 DEF front, back
  <2>6. QED
    BY <2>2, <2>3, <2>4, <2>5

On(list, c) == \E i \in DOMAIN list : list[i] = c

Lacks(rest, list, t) ==
  /\ rest \in Seq(Task) /\ Distinct(rest)
  /\ \A c : On(rest, c) <=> c # t /\ On(list, c)

\* list_remove takes out t and nothing else.
LEMMA WithoutMembers ==
  ASSUME NEW list \in Seq(Task), NEW t, Distinct(list)
  PROVE  Lacks(Without(list, t), list, t)
<1>1. CASE \A i \in DOMAIN list : list[i] # t
  BY <1>1 DEF Without, Lacks, On
<1>2. ASSUME NEW at \in DOMAIN list, list[at] = t
      PROVE  Lacks(Without(list, t), list, t)
  <2> DEFINE w == Without(list, t)
  <2>1. /\ w \in Seq(Task) /\ DOMAIN w = 1 .. (Len(list) - 1)
        /\ \A k \in 1 .. (Len(list) - 1) : w[k] = IF k < at THEN list[k] ELSE list[k + 1]
    BY <1>2, WithoutEntries DEF Distinct
  <2> HIDE DEF w
  <2>2. at \in 1 .. Len(list) /\ Len(list) \in Nat /\ DOMAIN list = 1 .. Len(list)
    OBVIOUS
  <2> DEFINE old(k) == IF k < at THEN k ELSE k + 1
  <2>a. \A k \in DOMAIN w : old(k) \in DOMAIN list /\ old(k) # at /\ w[k] = list[old(k)]
    BY <2>1, <2>2
  <2>b. \A i, j \in DOMAIN w : old(i) = old(j) => i = j
    BY <2>1, <2>2
  <2> HIDE DEF old
  <2>3. Distinct(w)
    BY <2>a, <2>b DEF Distinct
  <2>4. ASSUME NEW c, NEW i \in DOMAIN w, w[i] = c
        PROVE  c # t /\ \E j \in DOMAIN list : list[j] = c
    BY <2>a, <2>4, <1>2 DEF Distinct
  <2>5. ASSUME NEW c, c # t, NEW i \in DOMAIN list, list[i] = c
        PROVE  \E j \in DOMAIN w : w[j] = c
    <3>1. CASE i < at
      BY <2>1, <2>2, <2>5, <3>1
    <3>2. CASE i > at
      <4>1. i - 1 \in DOMAIN w /\ w[i - 1] = list[i]
        BY <2>1, <2>2, <3>2
      <4>2. QED
        BY <4>1, <2>5
    <3>3. QED
      BY <2>2, <2>5, <1>2, <3>1, <3>2
  <2>6. QED
    BY <2>1, <2>3, <2>4, <2>5 DEF w, Lacks, On
<1>3. QED
  BY <1>1, <1>2

\* list_add puts c in front.
LEMMA ConsMembers ==
  ASSUME NEW list \in Seq(Task), NEW c \in Task, Distinct(list), ~On(list, c)
  PROVE  /\ Distinct(<<c>> \o list)
         /\ \A q : On(<<c>> \o list, q) <=> q = c \/ On(list, q)
<1> DEFINE new == <<c>> \o list
<1>1. Len(list) \in Nat /\ DOMAIN list = 1 .. Len(list) /\ DOMAIN new = 1 .. (Len(list) + 1)
  OBVIOUS
<1>2. new[1] = c /\ \A i \in 1 .. Len(list) : i + 1 \in DOMAIN new /\ new[i + 1] = list[i]
  OBVIOUS
<1>3. \A i \in DOMAIN new : i # 1 => i - 1 \in DOMAIN list /\ new[i] = list[i - 1]
  OBVIOUS
<1> HIDE DEF new
<1>4. ASSUME NEW i \in DOMAIN new, NEW j \in DOMAIN new, new[i] = new[j]
      PROVE  i = j
  <2>1. CASE i = 1 \/ j = 1
    BY <1>2, <1>3, <1>4, <2>1 DEF On
  <2>2. CASE i # 1 /\ j # 1
    <3>1. i - 1 = j - 1
      BY <1>3, <1>4, <2>2 DEF Distinct
    <3>2. QED
      BY <1>1, <3>1
  <2>3. QED
    BY <2>1, <2>2
<1>5. ASSUME NEW q
      PROVE  On(new, q) <=> q = c \/ On(list, q)
  <2>1. On(new, q) => q = c \/ On(list, q)
    BY <1>2, <1>3 DEF On
  <2>2. q = c => On(new, q)
    <3>1. 1 \in DOMAIN new
      BY <1>1
    <3>2. QED
      BY <1>2, <3>1 DEF On
  <2>3. On(list, q) => On(new, q)
    BY <1>1, <1>2 DEF On
  <2>4. QED
    BY <2>1, <2>2, <2>3
<1>6. QED
  BY <1>4, <1>5 DEF new, Distinct

\* task_destroy takes t off its list, out of the pid table, and frees it.
LEMMA DestroyFacts ==
  ASSUME Inv, NEW t \in Task, Destroy(t)
  PROVE  /\ children' \in [Task -> Seq(Task)]
         /\ \A p \in Task : Distinct(children'[p])
         /\ \A p, c \in Task : OnList(p, c)' <=> OnList(p, c) /\ c # t
<1>1. \A p \in Task : children[p] \in Seq(Task) /\ Distinct(children[p])
  BY DEF Inv, TreeInv, TypeOK, ListsDistinct
<1>2. children' = [p \in Task |-> Without(children[p], t)]
  BY DEF Destroy
<1>3. \A p \in Task : Lacks(children'[p], children[p], t)
  BY <1>1, <1>2, WithoutMembers
<1>4. children' \in [Task -> Seq(Task)] /\ \A p \in Task : Distinct(children'[p])
  BY <1>2, <1>3 DEF Lacks
<1>5. \A p, c \in Task : OnList(p, c)' <=> OnList(p, c) /\ c # t
  BY <1>3 DEF Lacks, On, OnList
<1>6. QED
  BY <1>4, <1>5

(***************************************************************************)
(* What the steps do to the tree                                           *)
(***************************************************************************)
tree == <<pc, freed, pid, parent, group, children, zombie, threads, table, newTask,
          kind, last, asked, waitId, halted>>

Returns(t) ==
  /\ Goto(t, "user")
  /\ asked' = [asked EXCEPT ![t] = None]
  /\ waitId' = [waitId EXCEPT ![t] = None]
  /\ UNCHANGED <<parent, group, zombie, vforkDone, threads, rings, clone, last, halted,
                 wild>>

\* z is a child of t, or the leader of a task whose parent is in the group of t.
Claims(t, z) ==
  \/ OnList(t, z)
  \/ \E u \in Task : /\ Allocated(u) /\ group[u] = z /\ parent[u] # None
                     /\ group[parent[u]] = group[t]

\* The code follows a pointer to what has been freed.
WaitGoesWild == \E why \in {"group", "parent", "siblings"} : GoWild(why)

\* wait4 finds a freed pointer, returns, reaps a zombie, or goes to sleep for
\* any child or for one that is no zombie.
LEMMA WaitOutcomes ==
  ASSUME Inv, NEW t \in Task, Wait4(t) \/ WaitAgain(t) \/ WaitInterrupted(t)
  PROVE  /\ pc[t] \in {"user", "waiting", "woken"}
         /\ \/ WaitGoesWild
            \/ Returns(t) /\ UNCHANGED <<freed, pids, children>>
            \/ \E z \in Task : /\ Allocated(z) /\ zombie[z] /\ Claims(t, z)
                              /\ Returns(t) /\ Destroy(z)
            \/ \E original, id \in Pid \cup {AnyChild} :
                 /\ SleepFor(t, original, id)
                 /\ id \in Pid /\ table[id] # None => ~zombie[group[table[id]]]
<1>1. ASSUME NEW z \in Task, Allocated(z), zombie[z], Return(t, z)
      PROVE  \/ WaitGoesWild
             \/ Returns(t) /\ Destroy(z)
  BY <1>1, ProcTreeAssumption DEF Return, WaitGoesWild, Returns
<1>2. ASSUME Return(t, None)
      PROVE  Returns(t) /\ UNCHANGED <<freed, pids, children>>
  BY <1>2 DEF Return, Returns
<1>3. ASSUME NEW why \in {"group", "parent"}, GoWild(why)
      PROVE  WaitGoesWild
  BY <1>3 DEF WaitGoesWild
<1>4. ASSUME NEW original \in Pid \cup {AnyChild}, NEW nohang \in BOOLEAN, pc[t] # "unused",
             ScanAny(t, original, nohang)
      PROVE  \/ WaitGoesWild
             \/ Returns(t) /\ UNCHANGED <<freed, pids, children>>
             \/ \E z \in Task : /\ Allocated(z) /\ zombie[z] /\ Claims(t, z)
                              /\ Returns(t) /\ Destroy(z)
             \/ \E id \in Pid \cup {AnyChild} :
                 /\ SleepFor(t, original, id)
                 /\ id \in Pid /\ table[id] # None => ~zombie[group[table[id]]]
  <2> DEFINE leaders == {i \in DOMAIN children[t] : IsLeader(children[t][i])}
             zombies == {i \in leaders : zombie[children[t][i]]}
  <2>1. \A i \in DOMAIN children[t] :
          children[t][i] \in Task /\ Allocated(children[t][i]) /\ Claims(t, children[t][i])
    BY DEF Inv, TreeInv, TypeOK, ListedInTree, OnList, Claims
  <2>2. CASE \E i \in DOMAIN children[t] : freed[group[children[t][i]]]
    BY <1>3, <1>4, <2>2 DEF ScanAny
  <2>3. CASE zombies # {} /\ \E i \in zombies : Return(t, children[t][i])
    BY <1>1, <2>1, <2>3
  <2>4. CASE Return(t, None)
    BY <1>2, <2>4
  <2>5. CASE SleepFor(t, original, AnyChild)
    BY <2>5, ProcTreeAssumption
  <2>6. ASSUME NEW i \in leaders, zombies = {}, SleepFor(t, original, pid[children[t][i]])
        PROVE  \E id \in Pid \cup {AnyChild} :
                 /\ SleepFor(t, original, id)
                 /\ id \in Pid /\ table[id] # None => ~zombie[group[table[id]]]
    <3> DEFINE c == children[t][i]
    <3>1. c \in Task /\ Allocated(c) /\ group[c] = c /\ ~zombie[c]
      BY <2>1, <2>6 DEF IsLeader
    <3>2. pid[c] \in Pid /\ table[pid[c]] = c
      BY <3>1 DEF Inv, TreeInv, Blank, PidTableExact, Allocated
    <3>3. QED
      BY <3>1, <3>2, <2>6
  <2>7. QED
    BY <1>4, <2>2, <2>3, <2>4, <2>5, <2>6 DEF ScanAny
<1>5. ASSUME NEW original \in Pid \cup {AnyChild}, NEW id \in Pid, NEW nohang \in BOOLEAN,
             ScanPid(t, original, id, nohang)
      PROVE  \/ WaitGoesWild
             \/ Returns(t) /\ UNCHANGED <<freed, pids, children>>
             \/ \E z \in Task : /\ Allocated(z) /\ zombie[z] /\ Claims(t, z)
                              /\ Returns(t) /\ Destroy(z)
             \/ /\ SleepFor(t, original, id)
                /\ id \in Pid /\ table[id] # None => ~zombie[group[table[id]]]
  <2> DEFINE u == table[id]
  <2>1. CASE u = None
    BY <1>2, <1>5, <2>1 DEF ScanPid
  <2>2. CASE u \in Task
    <3>1. group[u] \in Task /\ u # None
      BY <2>2, ProcTreeAssumption DEF Inv, TypeOK
    <3>2. CASE /\ zombie[group[u]] /\ ~freed[group[u]] /\ Return(t, group[u])
               /\ parent[u] # None /\ group[parent[u]] = group[t]
      <4>1. Allocated(group[u]) /\ Allocated(u)
        BY <2>2, <3>1, <3>2 DEF Allocated, Inv, TreeInv, Blank, InUse, PidTableExact
      <4>2. Claims(t, group[u])
        BY <2>2, <3>2, <4>1 DEF Claims
      <4>3. QED
        BY <1>1, <3>1, <3>2, <4>1, <4>2
    <3>3. QED
      BY <1>2, <1>3, <1>5, <3>1, <3>2 DEF ScanPid
  <2>3. QED
    BY <2>1, <2>2 DEF Inv, TypeOK
<1>6. ASSUME NEW original \in Pid \cup {AnyChild}, NEW id \in Pid \cup {AnyChild},
             NEW nohang \in BOOLEAN, pc[t] # "unused", Scan(t, original, id, nohang)
      PROVE  \/ WaitGoesWild
             \/ Returns(t) /\ UNCHANGED <<freed, pids, children>>
             \/ \E z \in Task : /\ Allocated(z) /\ zombie[z] /\ Claims(t, z)
                              /\ Returns(t) /\ Destroy(z)
             \/ \E i \in Pid \cup {AnyChild} :
                 /\ SleepFor(t, original, i)
                 /\ i \in Pid /\ table[i] # None => ~zombie[group[table[i]]]
  BY <1>4, <1>5, <1>6 DEF Scan
<1>7. CASE Wait4(t)
  BY <1>6, <1>7 DEF Wait4
<1>8. CASE WaitAgain(t)
  <2>1. asked[t] \in Pid \cup {AnyChild} /\ waitId[t] \in Pid \cup {AnyChild}
    BY <1>8 DEF WaitAgain, Inv, TreeInv, WaitsForPid
  <2>2. QED
    BY <1>6, <1>8, <2>1 DEF WaitAgain
<1>9. CASE WaitInterrupted(t)
  BY <1>2, <1>9 DEF WaitInterrupted
<1>10. QED
  BY <1>7, <1>8, <1>9

\* What joining a group does, whichever way: c is in the group of t or leads one.
LEMMA JoinFacts ==
  ASSUME Inv, NEW t \in Task, NEW c \in Task, NEW how, ~InUse(c), group[c] = group[t],
         JoinGroup(t, c, how)
  PROVE  /\ \A x \in Task : x # c => group'[x] = group[x]
         /\ group'[c] \in {c, group[t]}
         /\ threads'[group'[c]] = threads[group'[c]] \cup {c}
         /\ \A g \in Task : g # group'[c] => threads'[g] = threads[g]
         /\ how # "thread" => group'[c] = c
<1>1. /\ group \in [Task -> Task] /\ threads \in [Task -> SUBSET Task]
      /\ threads[c] = {} /\ group[t] \in Task
  BY DEF Inv, TypeOK, TreeInv, Blank
<1>2. CASE how = "thread"
  BY <1>1, <1>2 DEF JoinGroup
<1>3. CASE how # "thread"
  BY <1>1, <1>3 DEF JoinGroup
<1>4. QED
  BY <1>2, <1>3


\* A step that leaves the tree alone.
LEMMA QuietStep ==
  ASSUME Inv, TypeOK', UNCHANGED tree
  PROVE  Inv'
<1> USE DEF Inv, TreeInv, ProcessInv, Types, tree, OnList, Alive, InUse, Exiting
<1>1. PidTableExact'
  BY DEF PidTableExact, Allocated
<1>2. ZombiesAreDead'
  BY DEF ZombiesAreDead
<1>3. Blank'
  BY DEF Blank, LeadersLead
<1>4. MakersHold'
  BY DEF MakersHold, Blank
<1>5. MakersDiffer'
  BY DEF MakersDiffer, MakersHold
<1>6. NewUnlisted'
  BY DEF NewUnlisted, MakersHold
<1>7. NewListed'
  BY DEF NewListed, MakersHold
<1>8. VforkHolds'
  BY DEF VforkHolds
<1>9. LeadersLead'
  BY DEF LeadersLead, Blank
<1>10. ThreadsExact'
  BY DEF ThreadsExact, Blank
<1>11. LastIsLast'
  BY DEF LastIsLast, Blank
<1>12. ZombiesLead'
  BY DEF ZombiesLead, Blank
<1>13. EmptyIsReported'
  BY DEF EmptyIsReported, Blank, LeadersLead
<1>14. ListsDistinct'
  BY DEF ListsDistinct
<1>15. OneList'
  BY DEF OneList
<1>16. ListedInTree'
  BY DEF ListedInTree, Allocated, Blank
<1>17. FirstProcess'
  BY DEF FirstProcess
<1>18. WaitsForPid'
  BY DEF WaitsForPid
<1>19. NobodyMisses'
  BY DEF NobodyMisses
<1>20. OwnGroups'
  BY DEF OwnGroups
<1>21. NewHasMaker'
  BY DEF NewHasMaker
<1>22. FreedWereZombies'
  BY DEF FreedWereZombies
<1>23. ExitingAreLast'
  BY DEF ExitingAreLast
<1>24. ChildrenListed'
  BY DEF ChildrenListed, Allocated, Blank
<1>25. VforkHasChild'
  BY DEF VforkHasChild, VforkHolds
<1> QED
  BY <1>1, <1>2, <1>3, <1>4, <1>5, <1>6, <1>7, <1>8, <1>9, <1>10, <1>11, <1>12, <1>13, <1>14,
     <1>15, <1>16, <1>17, <1>18, <1>19, <1>20, <1>21, <1>22, <1>23, <1>24, <1>25

\* task_create_ takes an empty pid for a structure nothing leads to yet.
LEMMA CreateStep ==
  ASSUME Inv, TypeOK', NEW t \in Task, NEW c \in Task, CreateTask(t, c)
  PROVE  Inv'
<1> USE DEF Inv, TreeInv, ProcessInv, Types
<1>1. /\ pc[t] = "user" /\ pc[c] = "unused" /\ t # c
      /\ pc' = [pc EXCEPT ![t] = "link", ![c] = "new"]
      /\ group' = [group EXCEPT ![c] = group[t]]
      /\ newTask' = [newTask EXCEPT ![t] = c]
      /\ parent'  = [parent EXCEPT ![c] = parent[t]]
      /\ kind'[t] \in CloneKinds /\ \A x \in Task \ {t} : kind'[x] = kind[x]
      /\ UNCHANGED <<freed, children, zombie, threads, last, asked, waitId, halted>>
  BY DEF CreateTask, waits, TypeOK
<1>2. /\ \A p, q \in Task : OnList(p, q)' <=> OnList(p, q)
      /\ \A x \in Task : /\ Alive(x)' <=> Alive(x)
                         /\ InUse(x)' <=> InUse(x)
                         /\ Exiting(x)' <=> Exiting(x)
      /\ ~InUse(c) /\ ~Alive(c) /\ ~Exiting(c) /\ Alive(t) /\ InUse(t)
  BY <1>1 DEF OnList, Alive, InUse, Exiting, TypeOK
<1>3. PICK p \in Pid : /\ table[p] = None
                       /\ pid' = [pid EXCEPT ![c] = p]
                       /\ table' = [table EXCEPT ![p] = c]
  BY DEF CreateTask, PidEmpty
<1>4. Types /\ pid \in [Task -> Pid \cup {None}] /\ waitId' \in [Task -> Pid \cup {AnyChild, None}]
  BY <1>1, ProcTreeAssumption DEF TypeOK, Pid
<1>5. PidTableExact'
  BY <1>1, <1>2, <1>3, <1>4 DEF PidTableExact, Allocated, Blank
<1>6. ZombiesAreDead'
  BY <1>1, <1>2, <1>3, <1>4 DEF ZombiesAreDead
<1>7. Blank'
  BY <1>1, <1>2, <1>3, <1>4 DEF Blank, LeadersLead
<1>8. MakersHold'
  BY <1>1, <1>2, <1>3, <1>4 DEF MakersHold, Blank
<1>9. MakersDiffer'
  BY <1>1, <1>2, <1>3, <1>4 DEF MakersDiffer, MakersHold
<1>10. NewUnlisted'
  BY <1>1, <1>2, <1>3, <1>4 DEF NewUnlisted, MakersHold, ListedInTree, Allocated, Blank
<1>11. NewListed'
  BY <1>1, <1>2, <1>3, <1>4 DEF NewListed, MakersHold
<1>12. VforkHolds'
  BY <1>1, <1>2, <1>3, <1>4 DEF VforkHolds
<1>13. LeadersLead'
  BY <1>1, <1>2, <1>3, <1>4 DEF LeadersLead, Blank
<1>14. ThreadsExact'
  BY <1>1, <1>2, <1>3, <1>4 DEF ThreadsExact, Blank
<1>15. LastIsLast'
  BY <1>1, <1>2, <1>3, <1>4 DEF LastIsLast, Blank
<1>16. ZombiesLead'
  BY <1>1, <1>2, <1>3, <1>4 DEF ZombiesLead, Blank
<1>17. EmptyIsReported'
  <2> SUFFICES ASSUME NEW g \in Task, InUse(g)', group'[g] = g, threads'[g] = {}
               PROVE  (\/ zombie[g] \/ freed[g] \/ halted
                       \/ \E x \in Task : Exiting(x) /\ last[x] /\ group[x] = g)'
    BY DEF EmptyIsReported
  <2>1. group[g] = g /\ threads[g] = {} /\ InUse(g) /\ g # c
    BY <1>1, <1>2, <1>4 DEF Blank
  <2>2. CASE \E x \in Task : Exiting(x) /\ last[x] /\ group[x] = g
    BY <1>1, <1>2, <1>4, <2>2
  <2>3. CASE zombie[g] \/ freed[g] \/ halted
    BY <1>1, <1>2, <1>4, <2>3
  <2> QED
    BY <2>1, <2>2, <2>3 DEF EmptyIsReported
<1>18. ListsDistinct'
  BY <1>1, <1>2, <1>3, <1>4 DEF ListsDistinct
<1>19. OneList'
  BY <1>1, <1>2, <1>3, <1>4 DEF OneList
<1>20. ListedInTree'
  <2>1. \A q, x \in Task : OnList(q, x) => Allocated(x)' /\ x # c /\ q # c
    BY <1>1, <1>2, <1>4 DEF Allocated, ListedInTree, Blank
  <2>2. \A q, x \in Task : OnList(q, x) => (group'[x] # x => group'[x] = group'[q])
    BY <1>1, <1>4, <2>1 DEF ListedInTree
  <2> QED
    BY <1>2, <2>1, <2>2 DEF ListedInTree
<1>21. FirstProcess'
  BY <1>1, <1>2, <1>3, <1>4 DEF FirstProcess
<1>22. WaitsForPid'
  BY <1>1, <1>2, <1>3, <1>4 DEF WaitsForPid
<1>23. NobodyMisses'
  BY <1>1, <1>2, <1>3, <1>4 DEF NobodyMisses, ListedInTree, Allocated, Blank
<1>24. OwnGroups'
  BY <1>1, <1>2, <1>3, <1>4 DEF OwnGroups
<1>25. NewHasMaker'
  BY <1>1, <1>2, <1>3, <1>4 DEF NewHasMaker
<1>26. FreedWereZombies'
  BY <1>1, <1>2, <1>3, <1>4 DEF FreedWereZombies
<1>27. ExitingAreLast'
  BY <1>1, <1>2, <1>3, <1>4 DEF ExitingAreLast
<1>28. ChildrenListed'
  BY <1>1, <1>2, <1>3, <1>4 DEF ChildrenListed, Allocated, Blank
<1>29. VforkHasChild'
  BY <1>1, <1>2, <1>3, <1>4 DEF VforkHasChild, VforkHolds
<1> QED
  BY <1>5, <1>6, <1>7, <1>8, <1>9, <1>10, <1>11, <1>12, <1>13, <1>14, <1>15, <1>16, <1>17, <1>18,
     <1>19, <1>20, <1>21, <1>22, <1>23, <1>24, <1>25, <1>26, <1>27, <1>28, <1>29

\* The new task is linked on its maker's list, without pids_lock.
LEMMA LinkStep ==
  ASSUME Inv, TypeOK', NEW t \in Task, LinkChild(t)
  PROVE  Inv'
<1> USE DEF Inv, TreeInv, ProcessInv, Types
<1> DEFINE c == newTask[t]
<1>1. /\ c = newTask[t] /\ pc[t] = "link" /\ c \in Task /\ pc[c] = "new" /\ ~freed[c]
      /\ group[c] = group[t] /\ \A p \in Task : ~OnList(p, c)
      /\ c # t /\ c # Init1 /\ Alive(t) /\ InUse(t) /\ ~InUse(c) /\ ~Alive(c) /\ ~Exiting(c)
      /\ t \in threads[group[t]]
  BY DEF LinkChild, MakersHold, NewUnlisted, FirstProcess, InUse, Alive, Exiting, ThreadsExact
<1>2. /\ pc' = [pc EXCEPT ![t] = "copy"]
      /\ parent' = [parent EXCEPT ![c] = t]
      /\ UNCHANGED <<freed, pid, table, group, zombie, threads, newTask, kind, last,
                     asked, waitId, halted>>
      /\ children' = [children EXCEPT ![t] = <<c>> \o @]
  BY DEF LinkChild, Goto, pids, clone, waits
<1> HIDE DEF c
<1>3. /\ \A p \in Task : p # t => children'[p] = children[p]
      /\ children[t] \in Seq(Task) /\ children'[t] = <<c>> \o children[t]
  BY <1>1, <1>2 DEF TypeOK
<1>4. \A x \in Task : /\ Alive(x)' <=> Alive(x)
                      /\ InUse(x)' <=> InUse(x)
                      /\ Exiting(x)' <=> Exiting(x)
  BY <1>1, <1>2 DEF Alive, InUse, Exiting, TypeOK
<1>5. /\ Distinct(children'[t])
      /\ \A q : On(children'[t], q) <=> q = c \/ On(children[t], q)
  <2>1. Distinct(children[t]) /\ ~On(children[t], c)
    BY <1>1 DEF ListsDistinct, OnList, On
  <2> QED
    BY <1>1, <1>3, <2>1, ConsMembers
<1>6. \A p, q \in Task : OnList(p, q)' <=> OnList(p, q) \/ (p = t /\ q = c)
  BY <1>3, <1>5 DEF OnList, On
<1>7. Types
  BY ProcTreeAssumption DEF TypeOK, Pid
<1>8. PidTableExact'
  BY <1>1, <1>2, <1>3, <1>4, <1>5, <1>6, <1>7 DEF PidTableExact, Allocated, Blank
<1>9. ZombiesAreDead'
  BY <1>1, <1>2, <1>3, <1>4, <1>5, <1>6, <1>7 DEF ZombiesAreDead
<1>10. Blank'
  BY <1>1, <1>2, <1>3, <1>4, <1>5, <1>6, <1>7 DEF Blank, LeadersLead
<1>11. MakersHold'
  BY <1>1, <1>2, <1>3, <1>4, <1>5, <1>6, <1>7 DEF MakersHold, Blank
<1>12. MakersDiffer'
  BY <1>1, <1>2, <1>3, <1>4, <1>5, <1>6, <1>7 DEF MakersDiffer, MakersHold
<1>13. NewUnlisted'
  BY <1>1, <1>2, <1>3, <1>4, <1>5, <1>6, <1>7 DEF NewUnlisted, MakersHold, MakersDiffer
<1>14. NewListed'
  BY <1>1, <1>2, <1>3, <1>4, <1>5, <1>6, <1>7 DEF NewListed, MakersHold, MakersDiffer
<1>15. VforkHolds'
  BY <1>1, <1>2, <1>3, <1>4, <1>5, <1>6, <1>7 DEF VforkHolds
<1>16. LeadersLead'
  BY <1>1, <1>2, <1>3, <1>4, <1>5, <1>6, <1>7 DEF LeadersLead, Blank
<1>17. ThreadsExact'
  BY <1>1, <1>2, <1>3, <1>4, <1>5, <1>6, <1>7 DEF ThreadsExact, Blank
<1>18. LastIsLast'
  BY <1>1, <1>2, <1>3, <1>4, <1>5, <1>6, <1>7 DEF LastIsLast, Blank
<1>19. ZombiesLead'
  BY <1>1, <1>2, <1>3, <1>4, <1>5, <1>6, <1>7 DEF ZombiesLead, Blank
<1>20. EmptyIsReported'
  <2> SUFFICES ASSUME NEW g \in Task, InUse(g)', group'[g] = g, threads'[g] = {}
               PROVE  (\/ zombie[g] \/ freed[g] \/ halted
                       \/ \E x \in Task : Exiting(x) /\ last[x] /\ group[x] = g)'
    BY DEF EmptyIsReported
  <2>1. group[g] = g /\ threads[g] = {} /\ InUse(g) /\ g # c
    BY <1>1, <1>2, <1>4 DEF Blank
  <2>2. CASE \E x \in Task : Exiting(x) /\ last[x] /\ group[x] = g
    BY <1>1, <1>2, <1>4, <2>2
  <2>3. CASE zombie[g] \/ freed[g] \/ halted
    BY <1>1, <1>2, <1>4, <2>3
  <2> QED
    BY <2>1, <2>2, <2>3 DEF EmptyIsReported
<1>21. ListsDistinct'
  BY <1>3, <1>5 DEF ListsDistinct
<1>22. OneList'
  BY <1>1, <1>6 DEF OneList
<1>23. ListedInTree'
  BY <1>1, <1>2, <1>3, <1>4, <1>5, <1>6, <1>7 DEF ListedInTree, Allocated, Blank
<1>24. FirstProcess'
  BY <1>1, <1>2, <1>3, <1>4, <1>5, <1>6, <1>7 DEF FirstProcess
<1>25. WaitsForPid'
  BY <1>1, <1>2, <1>3, <1>4, <1>5, <1>6, <1>7 DEF WaitsForPid
<1>26. NobodyMisses'
  BY <1>1, <1>2, <1>6, <1>7 DEF NobodyMisses, ZombiesAreDead, ListedInTree, Allocated
<1>27. OwnGroups'
  BY <1>1, <1>2, <1>3, <1>4, <1>5, <1>6, <1>7 DEF OwnGroups
<1>28. NewHasMaker'
  BY <1>1, <1>2, <1>3, <1>4, <1>5, <1>6, <1>7 DEF NewHasMaker
<1>29. FreedWereZombies'
  BY <1>1, <1>2, <1>3, <1>4, <1>5, <1>6, <1>7 DEF FreedWereZombies
<1>30. ExitingAreLast'
  BY <1>1, <1>2, <1>3, <1>4, <1>5, <1>6, <1>7 DEF ExitingAreLast
<1>31. ChildrenListed'
  BY <1>1, <1>2, <1>3, <1>4, <1>5, <1>6, <1>7 DEF ChildrenListed, Allocated, Blank
<1>32. VforkHasChild'
  BY <1>1, <1>2, <1>3, <1>4, <1>5, <1>6, <1>7 DEF VforkHasChild, VforkHolds
<1> QED
  BY <1>8, <1>9, <1>10, <1>11, <1>12, <1>13, <1>14, <1>15, <1>16, <1>17, <1>18, <1>19, <1>20,
     <1>21, <1>22, <1>23, <1>24, <1>25, <1>26, <1>27, <1>28, <1>29, <1>30, <1>31, <1>32

\* The child joins its maker's group, or leads one of its own.
LEMMA CopyStep ==
  ASSUME Inv, TypeOK', NEW t \in Task, CopyTask(t)
  PROVE  Inv'
<1> USE DEF Inv, TreeInv, ProcessInv, Types
<1> DEFINE c == newTask[t]
<1>1. /\ c = newTask[t] /\ pc[t] = "copy" /\ c \in Task /\ pc[c] = "new" /\ ~freed[c]
      /\ group[c] = group[t] /\ OnList(t, c) /\ parent[c] = t
      /\ c # t /\ c # Init1 /\ ~InUse(c) /\ ~Alive(c) /\ ~Exiting(c) /\ Alive(t) /\ InUse(t)
      /\ t \in threads[group[t]] /\ group[t] # c /\ group[t] \in Task /\ InUse(group[t])
  BY DEF CopyTask, MakersHold, NewListed, FirstProcess, InUse, Alive, Exiting, ThreadsExact,
         LeadersLead, TypeOK
<1> HIDE DEF c
<1>2. /\ JoinGroup(t, c, kind[t])
      /\ pc' = [pc EXCEPT ![t] = IF kind[t] = "vfork" THEN "vfork" ELSE "user", ![c] = "user"]
      /\ UNCHANGED <<freed, pid, table, parent, children, zombie, last, asked, waitId, halted>>
  BY <1>1 DEF CopyTask, kin, pids, waits
<1>3. /\ \A x \in Task : x # t => newTask'[x] = newTask[x] /\ kind'[x] = kind[x]
      /\ pc'[t] = "vfork" => newTask'[t] = c
  BY <1>1, <1>2 DEF CopyTask, TypeOK
<1>4. /\ pc'[c] = "user" /\ pc'[t] \in {"user", "vfork"}
      /\ \A x \in Task : x \notin {c, t} => pc'[x] = pc[x]
  BY <1>1, <1>2 DEF TypeOK
<1>5. \A x \in Task : /\ Alive(x)' <=> Alive(x) \/ x = c
                      /\ InUse(x)' <=> InUse(x) \/ x = c
                      /\ Exiting(x)' <=> Exiting(x)
  BY <1>1, <1>4 DEF Alive, InUse, Exiting
<1>6. /\ \A x \in Task : x # c => group'[x] = group[x]
      /\ group'[c] \in {c, group[t]}
      /\ threads'[group'[c]] = threads[group'[c]] \cup {c}
      /\ \A g \in Task : g # group'[c] => threads'[g] = threads[g]
      /\ kind[t] # "thread" => group'[c] = c
  BY <1>1, <1>2, JoinFacts
<1>7. \A p, q \in Task : OnList(p, q)' <=> OnList(p, q)
  BY <1>2 DEF OnList
<1>8. Types
  BY ProcTreeAssumption DEF TypeOK, Pid
<1>9. PidTableExact'
  BY <1>1, <1>2, <1>4, <1>8 DEF PidTableExact, Allocated
<1>10. ZombiesAreDead'
  BY <1>1, <1>2, <1>6, <1>8 DEF ZombiesAreDead, Blank
<1>11. Blank'
  BY <1>1, <1>2, <1>4, <1>5, <1>6, <1>7, <1>8 DEF Blank, LeadersLead
<1>12. MakersHold'
  BY <1>1, <1>2, <1>3, <1>4, <1>6, <1>8 DEF MakersHold, MakersDiffer
<1>13. MakersDiffer'
  BY <1>1, <1>3, <1>4, <1>8 DEF MakersDiffer
<1>14. NewUnlisted'
  BY <1>1, <1>3, <1>4, <1>7, <1>8 DEF NewUnlisted, MakersHold
<1>15. NewListed'
  BY <1>1, <1>2, <1>3, <1>4, <1>7, <1>8 DEF NewListed, MakersDiffer, MakersHold
<1>16. VforkHolds'
  BY <1>1, <1>3, <1>4, <1>8 DEF VforkHolds
<1>17. LeadersLead'
  BY <1>1, <1>4, <1>5, <1>6, <1>8 DEF LeadersLead
<1>18. ThreadsExact'
  BY <1>1, <1>2, <1>5, <1>6, <1>8 DEF ThreadsExact
<1>19. LastIsLast'
  <2>1. \A x \in Task : last[x] => x # c /\ group[x] # c /\ group[x] # group[t]
        /\ group'[x] = group[x]
    BY <1>1, <1>6, <1>8 DEF LastIsLast, LeadersLead, InUse
  <2> QED
    BY <1>1, <1>2, <1>4, <1>5, <1>6, <1>8, <2>1 DEF LastIsLast
<1>20. ZombiesLead'
  BY <1>1, <1>2, <1>6, <1>8 DEF ZombiesLead, Blank
<1>21. EmptyIsReported'
  <2> SUFFICES ASSUME NEW g \in Task, InUse(g)', group'[g] = g, threads'[g] = {}
               PROVE  (\/ zombie[g] \/ freed[g] \/ halted
                       \/ \E x \in Task : Exiting(x) /\ last[x] /\ group[x] = g)'
    BY DEF EmptyIsReported
  <2>1. group[g] = g /\ threads[g] = {} /\ InUse(g) /\ g # c
    BY <1>1, <1>2, <1>5, <1>6 DEF Blank
  <2>2. CASE \E x \in Task : Exiting(x) /\ last[x] /\ group[x] = g
    BY <1>1, <1>2, <1>5, <1>6, <2>2
  <2>3. CASE zombie[g] \/ freed[g] \/ halted
    BY <1>1, <1>2, <1>5, <1>6, <2>3
  <2> QED
    BY <2>1, <2>2, <2>3 DEF EmptyIsReported
<1>22. ListsDistinct'
  BY <1>2, <1>8 DEF ListsDistinct
<1>23. OneList'
  BY <1>7, <1>8 DEF OneList
<1>24. ListedInTree'
  BY <1>1, <1>2, <1>4, <1>6, <1>7, <1>8 DEF ListedInTree, Allocated, Blank
<1>25. FirstProcess'
  BY <1>1, <1>2, <1>5, <1>6, <1>8 DEF FirstProcess
<1>26. WaitsForPid'
  BY <1>1, <1>2, <1>4, <1>8 DEF WaitsForPid
<1>27. NobodyMisses'
  <2> SUFFICES ASSUME NEW s \in Task, NEW u \in Task, NEW x \in Task,
                      (/\ pc[s] = "waiting" /\ waitId[s] \in Pid /\ table[waitId[s]] = u
                       /\ parent[u] = x /\ group[x] = group[s] /\ OnList(x, u))'
               PROVE  ~zombie'[group'[u]]
    BY DEF NobodyMisses
  <2>1. /\ s \notin {c, t} /\ pc[s] = "waiting" /\ waitId[s] \in Pid
        /\ table[waitId[s]] = u /\ parent[u] = x
    BY <1>1, <1>2, <1>4, <1>8
  <2>2. CASE u = c
    BY <1>1, <1>2, <1>4, <1>6, <1>7, <1>8, <2>1, <2>2 DEF OneList, ZombiesAreDead, Blank
  <2>3. CASE u # c
    <3>1. OnList(x, u) /\ x # c
      BY <1>1, <1>2, <1>4, <1>6, <1>7, <1>8 DEF Blank
    <3> QED
      BY <1>1, <1>2, <1>4, <1>6, <1>7, <1>8, <2>1, <2>3, <3>1 DEF NobodyMisses
  <2> QED
    BY <2>2, <2>3
<1>28. OwnGroups'
  BY <1>1, <1>4, <1>6, <1>8 DEF OwnGroups, OnlyProcesses, MakersHold
<1>29. NewHasMaker'
  BY <1>1, <1>3, <1>4, <1>8 DEF NewHasMaker, MakersDiffer
<1>30. FreedWereZombies'
  BY <1>1, <1>2, <1>4, <1>8 DEF FreedWereZombies
<1>31. ExitingAreLast'
  BY <1>2, <1>5 DEF ExitingAreLast
<1>32. ChildrenListed'
  BY <1>1, <1>2, <1>4, <1>5, <1>7, <1>8 DEF ChildrenListed, FreedWereZombies, Allocated, Blank
<1>33. VforkHasChild'
  BY <1>1, <1>2, <1>3, <1>4, <1>5, <1>7, <1>8 DEF VforkHasChild, VforkHolds
<1> QED
  BY <1>9, <1>10, <1>11, <1>12, <1>13, <1>14, <1>15, <1>16, <1>17, <1>18, <1>19, <1>20, <1>21,
     <1>22, <1>23, <1>24, <1>25, <1>26, <1>27, <1>28, <1>29, <1>30, <1>31, <1>32, <1>33

\* copy_task fails: the child goes, but what joined a group stays on it.
LEMMA CopyFailsStep ==
  ASSUME Inv, TypeOK', NEW t \in Task, CopyTaskFails(t)
  PROVE  Inv'
<1> USE DEF Inv, TreeInv, ProcessInv, Types
<1> DEFINE c == newTask[t]
<1>1. /\ c = newTask[t] /\ pc[t] = "copy" /\ c \in Task /\ pc[c] = "new" /\ ~freed[c]
      /\ group[c] = group[t] /\ OnList(t, c) /\ parent[c] = t
      /\ c # t /\ c # Init1 /\ ~InUse(c) /\ ~Alive(c) /\ ~Exiting(c) /\ Alive(t) /\ InUse(t)
      /\ t \in threads[group[t]] /\ group[t] # c /\ group[t] \in Task /\ InUse(group[t])
  BY DEF CopyTaskFails, MakersHold, NewListed, FirstProcess, InUse, Alive, Exiting, ThreadsExact,
         LeadersLead, TypeOK
<1> HIDE DEF c
<1>2. /\ UNCHANGED <<threads, group>> \/ \E how : JoinGroup(t, c, how)
      /\ Destroy(c)
      /\ pc' = [pc EXCEPT ![t] = "user", ![c] = "gone"]
      /\ UNCHANGED <<parent, zombie, last, asked, waitId, halted>>
  BY <1>1 DEF CopyTaskFails, waits
<1>3. \A x \in Task : x # t => newTask'[x] = newTask[x] /\ kind'[x] = kind[x]
  BY <1>1 DEF CopyTaskFails, TypeOK
<1>4. /\ pc'[c] = "gone" /\ pc'[t] = "user"
      /\ \A x \in Task : x \notin {c, t} => pc'[x] = pc[x]
  BY <1>1, <1>2 DEF TypeOK
<1>5. \A x \in Task : /\ Alive(x)' <=> Alive(x)
                      /\ InUse(x)' <=> InUse(x) \/ x = c
                      /\ Exiting(x)' <=> Exiting(x)
  BY <1>1, <1>4 DEF Alive, InUse, Exiting
<1>6. /\ \A x \in Task : x # c => group'[x] = group[x]
      /\ group'[c] \in {c, group[t]}
      /\ threads'[group'[c]] \in {threads[group'[c]], threads[group'[c]] \cup {c}}
      /\ group'[c] = c => c \in threads'[c]
      /\ \A g \in Task : g # group'[c] => threads'[g] = threads[g]
  <2>1. CASE UNCHANGED <<threads, group>>
    BY <1>1, <2>1 DEF TypeOK
  <2>2. CASE \E how : JoinGroup(t, c, how)
    <3>1. PICK how : JoinGroup(t, c, how)
      BY <2>2
    <3> QED
      BY <1>1, <3>1, JoinFacts
  <2> QED
    BY <1>2, <2>1, <2>2
<1>7. /\ \A p, q \in Task : OnList(p, q)' <=> OnList(p, q) /\ q # c
      /\ \A p \in Task : Distinct(children'[p])
  BY <1>1, <1>2, DestroyFacts
<1>8. /\ freed'[c] /\ \A x \in Task : x # c => freed'[x] = freed[x]
  BY <1>1, <1>2 DEF Destroy, TypeOK
<1>9. /\ pid[c] \in Pid /\ table[pid[c]] = c /\ pid' = pid
      /\ table'[pid[c]] = None /\ \A p \in Pid : p # pid[c] => table'[p] = table[p]
      /\ None \notin Task /\ 1 \in Pid /\ Init1 \in Task
  BY <1>1, <1>2, ProcTreeAssumption DEF Destroy, PidTableExact, Allocated, Blank, TypeOK, Pid
<1>10. Types
  BY ProcTreeAssumption DEF TypeOK, Pid
<1>11. ~OnlyProcesses
  BY <1>1 DEF CopyTaskFails, MakersHold, OnlyProcesses
<1>12. PidTableExact'
  BY <1>1, <1>2, <1>4, <1>8, <1>9, <1>10 DEF PidTableExact, Allocated, Blank
<1>13. ZombiesAreDead'
  BY <1>1, <1>2, <1>6, <1>10 DEF ZombiesAreDead, Blank
<1>14. Blank'
  BY <1>1, <1>2, <1>4, <1>5, <1>6, <1>7, <1>8, <1>9, <1>10 DEF Blank, LeadersLead
<1>15. MakersHold'
  BY <1>1, <1>2, <1>3, <1>4, <1>6, <1>8, <1>10 DEF MakersHold, MakersDiffer
<1>16. MakersDiffer'
  BY <1>1, <1>3, <1>4, <1>10 DEF MakersDiffer
<1>17. NewUnlisted'
  BY <1>1, <1>3, <1>4, <1>7, <1>10 DEF NewUnlisted, MakersDiffer, MakersHold
<1>18. NewListed'
  BY <1>1, <1>2, <1>3, <1>4, <1>7, <1>10 DEF NewListed, MakersDiffer, MakersHold
<1>19. VforkHolds'
  BY <1>1, <1>3, <1>4, <1>10 DEF VforkHolds
<1>20. LeadersLead'
  BY <1>1, <1>4, <1>5, <1>6, <1>10 DEF LeadersLead
<1>21. ThreadsExact'
  BY <1>1, <1>2, <1>5, <1>6, <1>8, <1>10 DEF ThreadsExact
<1>22. LastIsLast'
  <2>1. \A x \in Task : last[x] => x # c /\ group[x] # c /\ group[x] # group[t]
        /\ group'[x] = group[x]
    BY <1>1, <1>6, <1>10 DEF LastIsLast, LeadersLead, InUse
  <2> QED
    BY <1>1, <1>2, <1>4, <1>5, <1>6, <1>10, <2>1 DEF LastIsLast
<1>23. ZombiesLead'
  BY <1>1, <1>2, <1>6, <1>10 DEF ZombiesLead, Blank
<1>24. EmptyIsReported'
  <2> SUFFICES ASSUME NEW g \in Task, InUse(g)', group'[g] = g, threads'[g] = {}
               PROVE  (\/ zombie[g] \/ freed[g] \/ halted
                       \/ \E x \in Task : Exiting(x) /\ last[x] /\ group[x] = g)'
    BY DEF EmptyIsReported
  <2>1. group[g] = g /\ threads[g] = {} /\ InUse(g) /\ g # c
    BY <1>1, <1>2, <1>5, <1>6, <1>8 DEF Blank
  <2>2. CASE \E x \in Task : Exiting(x) /\ last[x] /\ group[x] = g
    BY <1>1, <1>2, <1>5, <1>6, <1>8, <2>2
  <2>3. CASE zombie[g] \/ freed[g] \/ halted
    BY <1>1, <1>2, <1>5, <1>6, <1>8, <2>3
  <2> QED
    BY <2>1, <2>2, <2>3 DEF EmptyIsReported
<1>25. ListsDistinct'
  BY <1>7 DEF ListsDistinct
<1>26. OneList'
  BY <1>7 DEF OneList
<1>27. ListedInTree'
  BY <1>1, <1>2, <1>4, <1>6, <1>7, <1>8, <1>10 DEF ListedInTree, Allocated, Blank
<1>28. FirstProcess'
  BY <1>1, <1>2, <1>5, <1>6, <1>8, <1>9, <1>10 DEF FirstProcess
<1>29. WaitsForPid'
  BY <1>1, <1>2, <1>4, <1>10 DEF WaitsForPid
<1>30. NobodyMisses'
  <2> SUFFICES ASSUME NEW s \in Task, NEW u \in Task, NEW x \in Task,
                      (/\ pc[s] = "waiting" /\ waitId[s] \in Pid /\ table[waitId[s]] = u
                       /\ parent[u] = x /\ group[x] = group[s] /\ OnList(x, u))'
               PROVE  ~zombie'[group'[u]]
    BY DEF NobodyMisses
  <2>1. /\ s \notin {c, t} /\ pc[s] = "waiting" /\ waitId[s] \in Pid
        /\ table[waitId[s]] = u /\ parent[u] = x
    BY <1>1, <1>2, <1>4, <1>9, <1>10
  <2>2. CASE u = c
    BY <1>1, <1>2, <1>4, <1>6, <1>7, <1>9, <1>10, <2>1, <2>2 DEF OneList, ZombiesAreDead, Blank
  <2>3. CASE u # c
    <3>1. OnList(x, u) /\ x # c
      BY <1>1, <1>2, <1>4, <1>6, <1>7, <1>9, <1>10 DEF Blank
    <3> QED
      BY <1>1, <1>2, <1>4, <1>6, <1>7, <1>9, <1>10, <2>1, <2>3, <3>1 DEF NobodyMisses
  <2> QED
    BY <2>2, <2>3
<1>31. OwnGroups'
  BY <1>11 DEF OwnGroups
<1>32. NewHasMaker'
  BY <1>11 DEF NewHasMaker
<1>33. FreedWereZombies'
  BY <1>11 DEF FreedWereZombies
<1>34. ExitingAreLast'
  BY <1>11 DEF ExitingAreLast
<1>35. ChildrenListed'
  BY <1>11 DEF ChildrenListed
<1>36. VforkHasChild'
  BY <1>11 DEF VforkHasChild
<1> QED
  BY <1>12, <1>13, <1>14, <1>15, <1>16, <1>17, <1>18, <1>19, <1>20, <1>21, <1>22, <1>23, <1>24,
     <1>25, <1>26, <1>27, <1>28, <1>29, <1>30, <1>31, <1>32, <1>33, <1>34, <1>35, <1>36

\* A parent that slept in vfork goes on.
LEMMA VforkStep ==
  ASSUME Inv, TypeOK', NEW t \in Task, VforkReturn(t), ~UNCHANGED tree
  PROVE  Inv'
<1> USE DEF Inv, TreeInv, ProcessInv, Types
<1>1. /\ pc[t] = "vfork" /\ pc' = [pc EXCEPT ![t] = "user"]
      /\ newTask' = [newTask EXCEPT ![t] = None]
      /\ UNCHANGED <<freed, pid, table, parent, group, children, zombie, threads, kind, last,
                     asked, waitId, halted>>
  BY DEF VforkReturn, GoWild, Goto, tree, kin, pids, clone, waits
<1>2. \A x \in Task : /\ Alive(x)' <=> Alive(x)
                      /\ InUse(x)' <=> InUse(x)
                      /\ Exiting(x)' <=> Exiting(x)
  BY <1>1 DEF Alive, InUse, Exiting, TypeOK
<1>3. \A p, q \in Task : OnList(p, q)' <=> OnList(p, q)
  BY <1>1 DEF OnList
<1>4. Types
  BY ProcTreeAssumption DEF TypeOK, Pid
<1>5. PidTableExact'
  BY <1>1, <1>2, <1>3, <1>4 DEF PidTableExact, Allocated, Blank
<1>6. ZombiesAreDead'
  BY <1>1, <1>2, <1>3, <1>4 DEF ZombiesAreDead
<1>7. Blank'
  BY <1>1, <1>2, <1>3, <1>4 DEF Blank, LeadersLead
<1>8. MakersHold'
  BY <1>1, <1>2, <1>3, <1>4 DEF MakersHold, Blank
<1>9. MakersDiffer'
  BY <1>1, <1>2, <1>3, <1>4 DEF MakersDiffer, MakersHold
<1>10. NewUnlisted'
  BY <1>1, <1>2, <1>3, <1>4 DEF NewUnlisted, MakersHold
<1>11. NewListed'
  BY <1>1, <1>2, <1>3, <1>4 DEF NewListed, MakersHold
<1>12. VforkHolds'
  BY <1>1, <1>2, <1>3, <1>4 DEF VforkHolds
<1>13. LeadersLead'
  BY <1>1, <1>2, <1>3, <1>4 DEF LeadersLead, Blank
<1>14. ThreadsExact'
  BY <1>1, <1>2, <1>3, <1>4 DEF ThreadsExact, Blank
<1>15. LastIsLast'
  BY <1>1, <1>2, <1>3, <1>4 DEF LastIsLast, Blank
<1>16. ZombiesLead'
  BY <1>1, <1>2, <1>3, <1>4 DEF ZombiesLead, Blank
<1>17. EmptyIsReported'
  BY <1>1, <1>2, <1>3, <1>4 DEF EmptyIsReported, Blank, LeadersLead
<1>18. ListsDistinct'
  BY <1>1, <1>2, <1>3, <1>4 DEF ListsDistinct
<1>19. OneList'
  BY <1>1, <1>2, <1>3, <1>4 DEF OneList
<1>20. ListedInTree'
  BY <1>1, <1>2, <1>3, <1>4 DEF ListedInTree, Allocated, Blank
<1>21. FirstProcess'
  BY <1>1, <1>2, <1>3, <1>4 DEF FirstProcess
<1>22. WaitsForPid'
  BY <1>1, <1>2, <1>3, <1>4 DEF WaitsForPid
<1>23. NobodyMisses'
  BY <1>1, <1>2, <1>3, <1>4 DEF NobodyMisses
<1>24. OwnGroups'
  BY <1>1, <1>2, <1>3, <1>4 DEF OwnGroups
<1>25. NewHasMaker'
  BY <1>1, <1>2, <1>3, <1>4 DEF NewHasMaker
<1>26. FreedWereZombies'
  BY <1>1, <1>2, <1>3, <1>4 DEF FreedWereZombies
<1>27. ExitingAreLast'
  BY <1>1, <1>2, <1>3, <1>4 DEF ExitingAreLast
<1>28. ChildrenListed'
  BY <1>1, <1>2, <1>3, <1>4 DEF ChildrenListed, Allocated, Blank
<1>29. VforkHasChild'
  BY <1>1, <1>2, <1>3, <1>4 DEF VforkHasChild, VforkHolds
<1> QED
  BY <1>5, <1>6, <1>7, <1>8, <1>9, <1>10, <1>11, <1>12, <1>13, <1>14, <1>15, <1>16, <1>17, <1>18,
     <1>19, <1>20, <1>21, <1>22, <1>23, <1>24, <1>25, <1>26, <1>27, <1>28, <1>29

\* exit_tgroup: whoever leaves the group empty is last.
LEMMA LeaveStep ==
  ASSUME Inv, TypeOK', NEW t \in Task, ExitLeave(t)
  PROVE  Inv'
<1> USE DEF Inv, TreeInv, ProcessInv, Types
<1>1. /\ pc[t] = "user" /\ Alive(t) /\ InUse(t) /\ ~Exiting(t)
      /\ group[t] \in Task /\ threads' = [threads EXCEPT ![group[t]] = @ \ {t}]
      /\ UNCHANGED <<freed, pid, table, parent, group, children, zombie, newTask, kind,
                     asked, waitId, halted>>
  BY DEF ExitLeave, kin, pids, clone, waits, TypeOK, Alive, InUse, Exiting
<1>2. /\ \A x \in Task : x # t => pc'[x] = pc[x] /\ last'[x] = last[x]
      /\ last'[t] <=> threads'[group[t]] = {}
      /\ pc'[t] = IF threads'[group[t]] = {} THEN "left" ELSE "unlinked"
  <2> DEFINE empty == threads'[group[t]] = {}
  <2>1. /\ last' = [last EXCEPT ![t] = empty]
        /\ pc' = [pc EXCEPT ![t] = IF empty THEN "left" ELSE "unlinked"]
    BY DEF ExitLeave, Goto
  <2>2. empty \in BOOLEAN
    OBVIOUS
  <2> HIDE DEF empty
  <2>3. /\ \A x \in Task : x # t => pc'[x] = pc[x] /\ last'[x] = last[x]
        /\ last'[t] = empty
        /\ pc'[t] = IF empty THEN "left" ELSE "unlinked"
    BY <2>1 DEF TypeOK
  <2> QED
    BY <2>2, <2>3 DEF empty
<1>3. \A x \in Task : /\ Alive(x)' <=> Alive(x) /\ x # t
                      /\ InUse(x)' <=> InUse(x)
                      /\ Exiting(x)' <=> Exiting(x) \/ x = t
  BY <1>1, <1>2 DEF Alive, InUse, Exiting
<1>4. \A p, q \in Task : OnList(p, q)' <=> OnList(p, q)
  BY <1>1 DEF OnList
<1>5. Types
  BY ProcTreeAssumption DEF TypeOK, Pid
<1>6. /\ threads'[group[t]] = threads[group[t]] \ {t}
      /\ \A g \in Task : g # group[t] => threads'[g] = threads[g]
  BY <1>1, <1>5
<1>7. PidTableExact'
  BY <1>1, <1>2, <1>3, <1>4, <1>5, <1>6 DEF PidTableExact, Allocated, Blank
<1>8. ZombiesAreDead'
  BY <1>1, <1>2, <1>3, <1>4, <1>5, <1>6 DEF ZombiesAreDead
<1>9. Blank'
  BY <1>1, <1>2, <1>3, <1>4, <1>5, <1>6 DEF Blank, LeadersLead
<1>10. MakersHold'
  BY <1>1, <1>2, <1>3, <1>4, <1>5, <1>6 DEF MakersHold, Blank
<1>11. MakersDiffer'
  BY <1>1, <1>2, <1>3, <1>4, <1>5, <1>6 DEF MakersDiffer, MakersHold
<1>12. NewUnlisted'
  BY <1>1, <1>2, <1>3, <1>4, <1>5, <1>6 DEF NewUnlisted, MakersHold
<1>13. NewListed'
  BY <1>1, <1>2, <1>3, <1>4, <1>5, <1>6 DEF NewListed, MakersHold
<1>14. VforkHolds'
  BY <1>1, <1>2, <1>3, <1>4, <1>5, <1>6 DEF VforkHolds
<1>15. LeadersLead'
  BY <1>1, <1>2, <1>3, <1>4, <1>5, <1>6 DEF LeadersLead, Blank
<1>16. ThreadsExact'
  BY <1>1, <1>2, <1>3, <1>4, <1>5, <1>6 DEF ThreadsExact, Blank
<1>17. LastIsLast'
  BY <1>1, <1>2, <1>3, <1>4, <1>5, <1>6 DEF LastIsLast, Blank
<1>18. ZombiesLead'
  BY <1>1, <1>2, <1>3, <1>4, <1>5, <1>6 DEF ZombiesLead, Blank
<1>19. EmptyIsReported'
  BY <1>1, <1>2, <1>3, <1>4, <1>5, <1>6 DEF EmptyIsReported, Blank, LeadersLead
<1>20. ListsDistinct'
  BY <1>1, <1>2, <1>3, <1>4, <1>5, <1>6 DEF ListsDistinct
<1>21. OneList'
  BY <1>1, <1>2, <1>3, <1>4, <1>5, <1>6 DEF OneList
<1>22. ListedInTree'
  BY <1>1, <1>2, <1>3, <1>4, <1>5, <1>6 DEF ListedInTree, Allocated, Blank
<1>23. FirstProcess'
  BY <1>1, <1>2, <1>3, <1>4, <1>5, <1>6 DEF FirstProcess
<1>24. WaitsForPid'
  BY <1>1, <1>2, <1>3, <1>4, <1>5, <1>6 DEF WaitsForPid
<1>25. NobodyMisses'
  BY <1>1, <1>2, <1>3, <1>4, <1>5, <1>6 DEF NobodyMisses
<1>26. OwnGroups'
  BY <1>1, <1>2, <1>3, <1>4, <1>5, <1>6 DEF OwnGroups
<1>27. NewHasMaker'
  BY <1>1, <1>2, <1>3, <1>4, <1>5, <1>6 DEF NewHasMaker
<1>28. FreedWereZombies'
  BY <1>1, <1>2, <1>3, <1>4, <1>5, <1>6 DEF FreedWereZombies
<1>29. ExitingAreLast'
  <2>1. OnlyProcesses => threads[group[t]] \subseteq {t} /\ group[t] = t
    BY <1>1, <1>5 DEF OwnGroups, ThreadsExact, InUse
  <2> QED
    BY <1>2, <1>3, <1>6, <2>1 DEF ExitingAreLast
<1>30. ChildrenListed'
  BY <1>1, <1>2, <1>3, <1>4, <1>5, <1>6 DEF ChildrenListed, Allocated, Blank
<1>31. VforkHasChild'
  BY <1>1, <1>2, <1>3, <1>4, <1>5, <1>6 DEF VforkHasChild, VforkHolds
<1> QED
  BY <1>7, <1>8, <1>9, <1>10, <1>11, <1>12, <1>13, <1>14, <1>15, <1>16, <1>17, <1>18, <1>19,
     <1>20, <1>21, <1>22, <1>23, <1>24, <1>25, <1>26, <1>27, <1>28, <1>29, <1>30, <1>31

\* The steps of do_exit that change rings and vfork's mark, and no pointer.
LEMMA MovesStep ==
  ASSUME Inv, TypeOK', NEW t \in Task, ExitUnlink(t) \/ ExitNotify(t), ~UNCHANGED tree
  PROVE  Inv'
<1> USE DEF Inv, TreeInv, ProcessInv, Types
<1>1. /\ pc[t] \in {"left", "unlinked"} /\ pc'[t] \in {"unlinked", "notified"}
      /\ \A x \in Task : x # t => pc'[x] = pc[x]
      /\ UNCHANGED <<freed, pid, table, parent, group, children, zombie, threads, newTask, kind,
                     last, asked, waitId, halted>>
  BY DEF ExitUnlink, ExitNotify, GoWild, Goto, tree, kin, pids, clone, waits, TypeOK
<1>2. \A x \in Task : /\ Alive(x)' <=> Alive(x)
                      /\ InUse(x)' <=> InUse(x)
                      /\ Exiting(x)' <=> Exiting(x)
  BY <1>1 DEF Alive, InUse, Exiting
<1>3. \A p, q \in Task : OnList(p, q)' <=> OnList(p, q)
  BY <1>1 DEF OnList
<1>4. Types
  BY ProcTreeAssumption DEF TypeOK, Pid
<1>5. PidTableExact'
  BY <1>1, <1>2, <1>3, <1>4 DEF PidTableExact, Allocated, Blank
<1>6. ZombiesAreDead'
  BY <1>1, <1>2, <1>3, <1>4 DEF ZombiesAreDead
<1>7. Blank'
  BY <1>1, <1>2, <1>3, <1>4 DEF Blank, LeadersLead
<1>8. MakersHold'
  BY <1>1, <1>2, <1>3, <1>4 DEF MakersHold, Blank
<1>9. MakersDiffer'
  BY <1>1, <1>2, <1>3, <1>4 DEF MakersDiffer, MakersHold
<1>10. NewUnlisted'
  BY <1>1, <1>2, <1>3, <1>4 DEF NewUnlisted, MakersHold
<1>11. NewListed'
  BY <1>1, <1>2, <1>3, <1>4 DEF NewListed, MakersHold
<1>12. VforkHolds'
  BY <1>1, <1>2, <1>3, <1>4 DEF VforkHolds
<1>13. LeadersLead'
  BY <1>1, <1>2, <1>3, <1>4 DEF LeadersLead, Blank
<1>14. ThreadsExact'
  BY <1>1, <1>2, <1>3, <1>4 DEF ThreadsExact, Blank
<1>15. LastIsLast'
  BY <1>1, <1>2, <1>3, <1>4 DEF LastIsLast, Blank
<1>16. ZombiesLead'
  BY <1>1, <1>2, <1>3, <1>4 DEF ZombiesLead, Blank
<1>17. EmptyIsReported'
  BY <1>1, <1>2, <1>3, <1>4 DEF EmptyIsReported, Blank, LeadersLead
<1>18. ListsDistinct'
  BY <1>1, <1>2, <1>3, <1>4 DEF ListsDistinct
<1>19. OneList'
  BY <1>1, <1>2, <1>3, <1>4 DEF OneList
<1>20. ListedInTree'
  BY <1>1, <1>2, <1>3, <1>4 DEF ListedInTree, Allocated, Blank
<1>21. FirstProcess'
  BY <1>1, <1>2, <1>3, <1>4 DEF FirstProcess
<1>22. WaitsForPid'
  BY <1>1, <1>2, <1>3, <1>4 DEF WaitsForPid
<1>23. NobodyMisses'
  BY <1>1, <1>2, <1>3, <1>4 DEF NobodyMisses
<1>24. OwnGroups'
  BY <1>1, <1>2, <1>3, <1>4 DEF OwnGroups
<1>25. NewHasMaker'
  BY <1>1, <1>2, <1>3, <1>4 DEF NewHasMaker
<1>26. FreedWereZombies'
  BY <1>1, <1>2, <1>3, <1>4 DEF FreedWereZombies
<1>27. ExitingAreLast'
  BY <1>1, <1>2, <1>3, <1>4 DEF ExitingAreLast
<1>28. ChildrenListed'
  BY <1>1, <1>2, <1>3, <1>4 DEF ChildrenListed, Allocated, Blank
<1>29. VforkHasChild'
  BY <1>1, <1>2, <1>3, <1>4 DEF VforkHasChild, VforkHolds
<1> QED
  BY <1>5, <1>6, <1>7, <1>8, <1>9, <1>10, <1>11, <1>12, <1>13, <1>14, <1>15, <1>16, <1>17, <1>18,
     <1>19, <1>20, <1>21, <1>22, <1>23, <1>24, <1>25, <1>26, <1>27, <1>28, <1>29

\* The rest of do_exit: children move to the first process, the death of the
\* group is reported and its parent's waiters woken, a thread is freed.
LEMMA FinishStep ==
  ASSUME Inv, TypeOK', NEW t \in Task, ExitFinish(t), ~UNCHANGED tree
  PROVE  Inv'
<1> USE DEF Inv, TreeInv, ProcessInv, Types
<1> DEFINE g == group[t]
<1>1. /\ g = group[t] /\ pc[t] = "notified" /\ InUse(t) /\ Exiting(t) /\ ~Alive(t)
      /\ ~freed[t] /\ g \in Task
      /\ InUse(g) /\ group[g] = g
  BY DEF ExitFinish, GoWild, tree, kin, pids, clone, waits, InUse, Exiting, Alive, LeadersLead,
     TypeOK
<1>2. /\ IF last[t] THEN ReportDeath(t)
         ELSE Goto(t, "gone") /\ UNCHANGED <<parent, zombie, halted>>
      /\ IF t = g THEN UNCHANGED <<freed, pids, children>> ELSE Destroy(t)
      /\ UNCHANGED <<group, threads, newTask, kind, last, asked, waitId>>
  BY DEF ExitFinish, GoWild, tree, kin, pids, clone, waits
<1> HIDE DEF g
<1>3. /\ pc'[t] = "gone"
      /\ \A x \in Task : x # t => pc'[x] = pc[x] \/ (pc[x] = "waiting" /\ pc'[x] = "woken")
      /\ \A x \in Task : /\ Alive(x)' <=> Alive(x)
                         /\ InUse(x)' <=> InUse(x)
                         /\ Exiting(x)' <=> Exiting(x) /\ x # t
  <2>1. /\ pc'[t] = "gone"
        /\ \A x \in Task : x # t => pc'[x] = pc[x] \/ (pc[x] = "waiting" /\ pc'[x] = "woken")
    BY <1>1, <1>2 DEF ReportDeath, WakeWaiters, Goto, TypeOK
  <2> QED
    BY <1>1, <2>1 DEF Alive, InUse, Exiting
<1>4. /\ \A x \in Task : zombie[x] => zombie'[x]
      /\ \A x \in Task : zombie'[x] => zombie[x] \/ (x = g /\ last[t] /\ parent[g] # None)
      /\ last[t] => zombie'[g] \/ halted'
      /\ halted => halted'
  BY <1>1, <1>2 DEF ReportDeath, TypeOK, g
<1>5. \A x \in Task : ~OnList(t, x) => parent'[x] = parent[x]
  BY <1>2 DEF ReportDeath, Reparent
<1>6. /\ \A p, q \in Task : OnList(p, q)' <=> OnList(p, q) /\ (q # t \/ t = g)
      /\ \A p \in Task : Distinct(children'[p])
  BY <1>2, DestroyFacts DEF ListsDistinct, OnList
<1>7. /\ pid' = pid /\ pid[t] \in Pid /\ table[pid[t]] = t
      /\ \A x \in Task : freed'[x] <=> freed[x] \/ (x = t /\ t # g)
      /\ \A p \in Pid : table'[p] = IF p = pid[t] /\ t # g THEN None ELSE table[p]
  <2>1. pid[t] \in Pid /\ table[pid[t]] = t
    BY <1>1 DEF Blank, PidTableExact, Allocated, InUse
  <2>2. CASE t = g
    BY <1>2, <2>1, <2>2 DEF pids
  <2>3. CASE t # g
    BY <1>2, <2>1, <2>3 DEF Destroy, TypeOK
  <2> QED
    BY <2>1, <2>2, <2>3
<1>8. Types
  BY ProcTreeAssumption DEF TypeOK, Pid
<1>9. /\ last[t] => \A x \in Task : OnList(t, x) => parent'[x] = Init1
      /\ OnlyProcesses => t = g /\ last[t]
  BY <1>1, <1>2, <1>8 DEF ReportDeath, Reparent, FirstProcess, OwnGroups, ExitingAreLast
<1>10. PidTableExact'
  BY <1>1, <1>3, <1>7, <1>8 DEF PidTableExact, Allocated, Blank
<1>11. ZombiesAreDead'
  BY <1>1, <1>2, <1>4 DEF ZombiesAreDead, LastIsLast
<1>12. Blank'
  BY <1>1, <1>2, <1>3, <1>4, <1>6, <1>7, <1>8 DEF Blank, LeadersLead
<1>13. MakersHold'
  BY <1>1, <1>2, <1>3, <1>7, <1>8 DEF MakersHold, Blank
<1>14. MakersDiffer'
  BY <1>2, <1>3 DEF MakersDiffer, MakersHold
<1>15. NewUnlisted'
  BY <1>2, <1>3, <1>6, <1>8 DEF NewUnlisted, MakersHold
<1>16. NewListed'
  BY <1>1, <1>2, <1>3, <1>5, <1>6, <1>8 DEF NewListed, MakersHold, OneList
<1>17. VforkHolds'
  BY <1>1, <1>2, <1>3, <1>8 DEF VforkHolds
<1>18. LeadersLead'
  BY <1>1, <1>2, <1>3, <1>8 DEF LeadersLead, Blank
<1>19. ThreadsExact'
  BY <1>1, <1>2, <1>3, <1>7, <1>8 DEF ThreadsExact, Blank
<1>20. LastIsLast'
  BY <1>1, <1>2, <1>3, <1>8 DEF LastIsLast, Blank
<1>21. ZombiesLead'
  BY <1>1, <1>2, <1>4 DEF ZombiesLead, Blank
<1>22. EmptyIsReported'
  <2> SUFFICES ASSUME NEW h \in Task, InUse(h)', group'[h] = h, threads'[h] = {}
               PROVE  (\/ zombie[h] \/ freed[h] \/ halted
                       \/ \E x \in Task : Exiting(x) /\ last[x] /\ group[x] = h)'
    BY DEF EmptyIsReported
  <2>1. group[h] = h /\ threads[h] = {} /\ InUse(h)
    BY <1>2, <1>3
  <2>2. CASE \E x \in Task : Exiting(x) /\ last[x] /\ group[x] = h
    <3>1. PICK x \in Task : Exiting(x) /\ last[x] /\ group[x] = h
      BY <2>2
    <3>2. CASE x = t
      BY <1>1, <1>4, <3>1, <3>2
    <3>3. CASE x # t
      BY <1>2, <1>3, <3>1, <3>3
    <3> QED
      BY <3>2, <3>3
  <2>3. CASE zombie[h] \/ freed[h] \/ halted
    BY <1>4, <1>7, <2>3
  <2> QED
    BY <2>1, <2>2, <2>3 DEF EmptyIsReported
<1>23. ListsDistinct'
  BY <1>6 DEF ListsDistinct
<1>24. OneList'
  BY <1>6 DEF OneList
<1>25. ListedInTree'
  BY <1>1, <1>2, <1>3, <1>6, <1>7, <1>8 DEF ListedInTree, Allocated, Blank
<1>26. FirstProcess'
  BY <1>1, <1>2, <1>3, <1>4, <1>5, <1>7, <1>8 DEF FirstProcess, ListedInTree
<1>27. WaitsForPid'
  BY <1>1, <1>2, <1>3, <1>8 DEF WaitsForPid
<1>28. NobodyMisses'
  <2> SUFFICES ASSUME NEW s \in Task, NEW u \in Task, NEW x \in Task,
                      (/\ pc[s] = "waiting" /\ waitId[s] \in Pid /\ table[waitId[s]] = u
                       /\ parent[u] = x /\ group[x] = group[s] /\ OnList(x, u))'
               PROVE  ~zombie'[group'[u]]
    BY DEF NobodyMisses
  <2>1. /\ pc[s] = "waiting" /\ waitId[s] \in Pid /\ table[waitId[s]] = u
        /\ OnList(x, u) /\ group[x] = group[s]
    BY <1>2, <1>3, <1>6, <1>7, <1>8
  <2>2. s \in threads[group[s]]
    BY <2>1 DEF ThreadsExact, Alive
  <2>3. parent[u] = x => ~zombie[group[u]]
    BY <2>1 DEF NobodyMisses
  <2>4. CASE ~last[t]
    BY <1>2, <2>3, <2>4
  <2>5. CASE last[t]
    <3>1. group[x] # g /\ x # t
      BY <1>1, <2>1, <2>2, <2>5 DEF LastIsLast
    <3>2. parent[u] = x
      BY <1>5, <2>1, <3>1 DEF OneList
    <3>3. SUFFICES ASSUME zombie'[group'[u]] PROVE FALSE
      OBVIOUS
    <3>4. group[u] = g /\ parent[g] # None
      BY <1>2, <1>4, <1>8, <2>3, <3>2, <3>3
    <3>5. u = g
      BY <2>1, <3>1, <3>4 DEF ListedInTree
    <3>6. WakeWaiters(group[parent[g]], t, "gone")
      BY <1>1, <1>2, <2>5, <3>4 DEF ReportDeath
    <3> QED
      BY <1>1, <2>1, <3>2, <3>5, <3>6 DEF WakeWaiters
  <2> QED
    BY <2>4, <2>5
<1>29. OwnGroups'
  BY <1>1, <1>2, <1>3, <1>8 DEF OwnGroups
<1>30. NewHasMaker'
  BY <1>1, <1>2, <1>3, <1>8 DEF NewHasMaker
<1>31. FreedWereZombies'
  BY <1>1, <1>3, <1>4, <1>7, <1>9 DEF FreedWereZombies
<1>32. ExitingAreLast'
  BY <1>2, <1>3 DEF ExitingAreLast
<1>33. ChildrenListed'
  <2> SUFFICES ASSUME OnlyProcesses, NEW x \in Task \ {Init1}, Allocated(x)', InUse(x)'
               PROVE  /\ parent'[x] \in Task
                      /\ parent'[x] # Init1 =>
                           OnList(parent[x], x)' /\ ~zombie'[parent'[x]]
    BY DEF ChildrenListed
  <2>1. Allocated(x) /\ InUse(x)
    BY <1>1, <1>3, <1>7, <1>9 DEF Allocated, InUse
  <2>2. CASE OnList(t, x)
    BY <1>8, <1>9, <2>2
  <2>3. CASE ~OnList(t, x)
    <3>1. parent'[x] = parent[x] /\ parent[x] \in Task
      BY <1>5, <2>1, <2>3 DEF ChildrenListed
    <3>2. parent[x] # Init1 => OnList(parent[x], x) /\ ~zombie[parent[x]] /\ parent[x] # t
      BY <2>1, <2>3 DEF ChildrenListed
    <3> QED
      BY <1>4, <1>6, <1>9, <3>1, <3>2
  <2> QED
    BY <2>2, <2>3
<1>34. VforkHasChild'
  BY <1>1, <1>2, <1>3, <1>5, <1>6, <1>8, <1>9 DEF VforkHasChild, VforkHolds, OneList
<1> QED
  BY <1>10, <1>11, <1>12, <1>13, <1>14, <1>15, <1>16, <1>17, <1>18, <1>19, <1>20, <1>21, <1>22,
     <1>23, <1>24, <1>25, <1>26, <1>27, <1>28, <1>29, <1>30, <1>31, <1>32, <1>33, <1>34

\* wait4 returns without a child.
LEMMA ReturnStep ==
  ASSUME Inv, TypeOK', NEW t \in Task, pc[t] \in {"user", "waiting", "woken"}, Returns(t),
         UNCHANGED <<freed, pids, children>>
  PROVE  Inv'
<1> USE DEF Inv, TreeInv, ProcessInv, Types
<1>1. /\ pc' = [pc EXCEPT ![t] = "user"] /\ pc[t] \in {"user", "waiting", "woken"}
      /\ asked' = [asked EXCEPT ![t] = None] /\ waitId' = [waitId EXCEPT ![t] = None]
      /\ UNCHANGED <<pid, parent, group, zombie, threads, newTask, kind, last, halted>>
  BY DEF Returns, Goto, clone, pids
<1>2. /\ \A x \in Task : /\ Alive(x)' <=> Alive(x)
                         /\ InUse(x)' <=> InUse(x)
                         /\ Exiting(x)' <=> Exiting(x)
      /\ pc'[t] = "user" /\ \A x \in Task : x # t => pc'[x] = pc[x] /\ waitId'[x] = waitId[x]
                                                    /\ asked'[x] = asked[x]
  BY <1>1 DEF Alive, InUse, Exiting, TypeOK
<1>3. Types
  BY ProcTreeAssumption DEF TypeOK, Pid
<1>4. /\ UNCHANGED <<freed, children, table>>
      /\ \A p, q \in Task : OnList(p, q)' <=> OnList(p, q)
  BY DEF OnList, pids
<1>5. PidTableExact'
  BY <1>1, <1>2, <1>3, <1>4 DEF PidTableExact, Allocated, Blank
<1>6. ZombiesAreDead'
  BY <1>1, <1>2, <1>3, <1>4 DEF ZombiesAreDead
<1>7. Blank'
  BY <1>1, <1>2, <1>3, <1>4 DEF Blank, LeadersLead
<1>8. MakersHold'
  BY <1>1, <1>2, <1>4 DEF MakersHold, Blank
<1>9. MakersDiffer'
  BY <1>1, <1>2, <1>3, <1>4 DEF MakersDiffer, MakersHold
<1>10. NewUnlisted'
  BY <1>1, <1>2, <1>3, <1>4 DEF NewUnlisted, MakersHold
<1>11. NewListed'
  BY <1>1, <1>2, <1>3, <1>4 DEF NewListed, MakersHold
<1>12. VforkHolds'
  BY <1>1, <1>2, <1>3, <1>4 DEF VforkHolds
<1>13. LeadersLead'
  BY <1>1, <1>2, <1>3, <1>4 DEF LeadersLead, Blank
<1>14. ThreadsExact'
  BY <1>1, <1>2, <1>3, <1>4 DEF ThreadsExact, Blank
<1>15. LastIsLast'
  BY <1>1, <1>2, <1>3, <1>4 DEF LastIsLast, Blank
<1>16. ZombiesLead'
  BY <1>1, <1>2, <1>3, <1>4 DEF ZombiesLead, Blank
<1>17. EmptyIsReported'
  BY <1>1, <1>2, <1>3, <1>4 DEF EmptyIsReported, Blank, LeadersLead
<1>18. ListsDistinct'
  BY <1>1, <1>2, <1>3, <1>4 DEF ListsDistinct
<1>19. OneList'
  BY <1>1, <1>2, <1>3, <1>4 DEF OneList
<1>20. ListedInTree'
  BY <1>1, <1>2, <1>3, <1>4 DEF ListedInTree, Allocated, Blank
<1>21. FirstProcess'
  BY <1>1, <1>2, <1>3, <1>4 DEF FirstProcess
<1>22. WaitsForPid'
  BY <1>1, <1>2 DEF WaitsForPid
<1>23. NobodyMisses'
  BY <1>1, <1>2, <1>3, <1>4 DEF NobodyMisses
<1>24. OwnGroups'
  BY <1>1, <1>2, <1>3, <1>4 DEF OwnGroups
<1>25. NewHasMaker'
  BY <1>1, <1>2, <1>3, <1>4 DEF NewHasMaker
<1>26. FreedWereZombies'
  BY <1>1, <1>2, <1>3, <1>4 DEF FreedWereZombies
<1>27. ExitingAreLast'
  BY <1>1, <1>2, <1>3, <1>4 DEF ExitingAreLast
<1>28. ChildrenListed'
  BY <1>1, <1>2, <1>3, <1>4 DEF ChildrenListed, Allocated, Blank
<1>29. VforkHasChild'
  BY <1>1, <1>2, <1>3, <1>4 DEF VforkHasChild, VforkHolds
<1> QED
  BY <1>5, <1>6, <1>7, <1>8, <1>9, <1>10, <1>11, <1>12, <1>13, <1>14, <1>15, <1>16, <1>17, <1>18,
     <1>19, <1>20, <1>21, <1>22, <1>23, <1>24, <1>25, <1>26, <1>27, <1>28, <1>29

\* wait4 returns with a zombie and frees it.
LEMMA ReapStep ==
  ASSUME Inv, TypeOK', NEW t \in Task, pc[t] \in {"user", "waiting", "woken"}, Returns(t),
         NEW z \in Task, Allocated(z), zombie[z], Claims(t, z), Destroy(z)
  PROVE  Inv'
<1> USE DEF Inv, TreeInv, ProcessInv, Types
<1>1. /\ pc' = [pc EXCEPT ![t] = "user"] /\ pc[t] \in {"user", "waiting", "woken"}
      /\ asked' = [asked EXCEPT ![t] = None] /\ waitId' = [waitId EXCEPT ![t] = None]
      /\ UNCHANGED <<pid, parent, group, zombie, threads, newTask, kind, last, halted>>
  BY DEF Returns, Goto, clone, Destroy
<1>2. /\ \A x \in Task : /\ Alive(x)' <=> Alive(x)
                         /\ InUse(x)' <=> InUse(x)
                         /\ Exiting(x)' <=> Exiting(x)
      /\ pc'[t] = "user" /\ \A x \in Task : x # t => pc'[x] = pc[x] /\ waitId'[x] = waitId[x]
                                                    /\ asked'[x] = asked[x]
  BY <1>1 DEF Alive, InUse, Exiting, TypeOK
<1>3. Types
  BY ProcTreeAssumption DEF TypeOK, Pid
<1>4. /\ \A p, q \in Task : OnList(p, q)' <=> OnList(p, q) /\ q # z
      /\ \A p \in Task : Distinct(children'[p])
  BY DestroyFacts
<1>5. InUse(z) /\ ~Alive(z) /\ z # Init1 /\ ~freed[z] /\ pc[z] \notin {"unused", "new"}
  BY DEF Blank, ZombiesLead, ZombiesAreDead, ThreadsExact, FirstProcess, InUse, Allocated
<1>6. /\ freed'[z] /\ \A x \in Task : x # z => freed'[x] = freed[x]
      /\ \A x \in Task : freed[x] => freed'[x]
      /\ pid[z] \in Pid /\ table[pid[z]] = z
      /\ table'[pid[z]] = None /\ \A p \in Pid : p # pid[z] => table'[p] = table[p]
  BY <1>5 DEF Destroy, PidTableExact, Allocated, Blank, TypeOK
<1>7. PidTableExact'
  BY <1>1, <1>2, <1>3, <1>4, <1>5, <1>6 DEF PidTableExact, Allocated, Blank
<1>8. ZombiesAreDead'
  BY <1>1 DEF ZombiesAreDead
<1>9. Blank'
  BY <1>1, <1>2, <1>3, <1>4, <1>5, <1>6 DEF Blank, LeadersLead
<1>10. MakersHold'
  BY <1>1, <1>2, <1>3, <1>5, <1>6 DEF MakersHold, Blank
<1>11. MakersDiffer'
  BY <1>1, <1>2 DEF MakersDiffer, MakersHold
<1>12. NewUnlisted'
  BY <1>1, <1>2, <1>3, <1>4 DEF NewUnlisted, MakersHold
<1>13. NewListed'
  BY <1>1, <1>2, <1>3, <1>4, <1>5 DEF NewListed, MakersHold
<1>14. VforkHolds'
  BY <1>1, <1>2, <1>3 DEF VforkHolds
<1>15. LeadersLead'
  BY <1>1, <1>2, <1>3 DEF LeadersLead, Blank
<1>16. ThreadsExact'
  BY <1>1, <1>2, <1>3, <1>6 DEF ThreadsExact, Blank
<1>17. LastIsLast'
  BY <1>1, <1>2 DEF LastIsLast, Blank
<1>18. ZombiesLead'
  BY <1>1 DEF ZombiesLead, Blank
<1>19. EmptyIsReported'
  <2> SUFFICES ASSUME NEW g \in Task, InUse(g)', group'[g] = g, threads'[g] = {}
               PROVE  (\/ zombie[g] \/ freed[g] \/ halted
                       \/ \E x \in Task : Exiting(x) /\ last[x] /\ group[x] = g)'
    BY DEF EmptyIsReported
  <2>1. group[g] = g /\ threads[g] = {} /\ InUse(g) /\ TRUE
    BY <1>1, <1>2, <1>6 DEF Blank
  <2>2. CASE \E x \in Task : Exiting(x) /\ last[x] /\ group[x] = g
    BY <1>1, <1>2, <1>6, <2>2
  <2>3. CASE zombie[g] \/ freed[g] \/ halted
    BY <1>1, <1>2, <1>6, <2>3
  <2> QED
    BY <2>1, <2>2, <2>3 DEF EmptyIsReported
<1>20. ListsDistinct'
  BY <1>4 DEF ListsDistinct
<1>21. OneList'
  BY <1>4 DEF OneList
<1>22. ListedInTree'
  BY <1>1, <1>2, <1>4, <1>5, <1>6 DEF ListedInTree, Allocated, Blank
<1>23. FirstProcess'
  BY <1>1, <1>2, <1>3, <1>4, <1>5, <1>6 DEF FirstProcess
<1>24. WaitsForPid'
  BY <1>1, <1>2 DEF WaitsForPid
<1>25. NobodyMisses'
  <2> SUFFICES ASSUME NEW s \in Task, NEW u \in Task, NEW x \in Task,
                      (/\ pc[s] = "waiting" /\ waitId[s] \in Pid /\ table[waitId[s]] = u
                       /\ parent[u] = x /\ group[x] = group[s] /\ OnList(x, u))'
               PROVE  ~zombie'[group'[u]]
    BY DEF NobodyMisses
  <2>1. /\ pc[s] = "waiting" /\ waitId[s] \in Pid /\ table[waitId[s]] = u
        /\ OnList(x, u) /\ group[x] = group[s] /\ parent[u] = x
    BY <1>1, <1>2, <1>3, <1>4, <1>6
  <2> QED
    BY <1>1, <2>1 DEF NobodyMisses
<1>26. OwnGroups'
  BY <1>1, <1>2, <1>3, <1>4, <1>5, <1>6 DEF OwnGroups
<1>27. NewHasMaker'
  BY <1>1, <1>2, <1>3, <1>4, <1>5, <1>6 DEF NewHasMaker
<1>28. FreedWereZombies'
  BY <1>1, <1>2, <1>3, <1>4, <1>5, <1>6 DEF FreedWereZombies
<1>29. ExitingAreLast'
  BY <1>1, <1>2, <1>3, <1>4, <1>5, <1>6 DEF ExitingAreLast
<1>30. ChildrenListed'
  BY <1>1, <1>2, <1>3, <1>4, <1>5, <1>6 DEF ChildrenListed, Allocated, Blank
<1>31. VforkHasChild'
  <2> SUFFICES ASSUME OnlyProcesses, NEW m \in Task, pc'[m] = "vfork"
               PROVE  (OnList(m, newTask[m]) /\ parent[newTask[m]] = m /\ InUse(newTask[m]))'
    BY DEF VforkHasChild
  <2> DEFINE c == newTask[m]
  <2>1. m # t /\ pc[m] = "vfork" /\ newTask'[m] = c
    BY <1>1, <1>2
  <2>2. OnList(m, c) /\ parent[c] = m /\ InUse(c) /\ c \in Task
    BY <2>1 DEF VforkHasChild, VforkHolds
  <2>3. ASSUME c = z PROVE FALSE
    <3>1. ~OnList(t, z)
      BY <2>1, <2>2, <2>3 DEF OneList
    <3>2. PICK u \in Task : Allocated(u) /\ group[u] = z /\ group[parent[u]] = group[t]
      BY <3>1 DEF Claims
    <3>3. pc[u] # "new"
      BY <1>5, <3>2 DEF NewHasMaker, MakersHold, OwnGroups, FreedWereZombies
    <3>4. u = z
      BY <3>2, <3>3 DEF OwnGroups
    <3>5. group[m] = m /\ group[t] = t
      BY <1>1, <2>1 DEF OwnGroups
    <3> QED
      BY <2>1, <2>2, <2>3, <3>2, <3>4, <3>5
  <2> QED
    BY <1>1, <1>2, <1>4, <2>1, <2>2, <2>3
<1> QED
  BY <1>7, <1>8, <1>9, <1>10, <1>11, <1>12, <1>13, <1>14, <1>15, <1>16, <1>17, <1>18, <1>19,
     <1>20, <1>21, <1>22, <1>23, <1>24, <1>25, <1>26, <1>27, <1>28, <1>29, <1>30, <1>31

\* wait4 goes to sleep, for no zombie.
LEMMA SleepStep ==
  ASSUME Inv, TypeOK', NEW t \in Task, pc[t] \in {"user", "waiting", "woken"},
         NEW original \in Pid \cup {AnyChild}, NEW id \in Pid \cup {AnyChild},
         SleepFor(t, original, id), id \in Pid /\ table[id] # None => ~zombie[group[table[id]]]
  PROVE  Inv'
<1> USE DEF Inv, TreeInv, ProcessInv, Types
<1>1. /\ pc' = [pc EXCEPT ![t] = "waiting"] /\ pc[t] \in {"user", "waiting", "woken"}
      /\ asked' = [asked EXCEPT ![t] = original] /\ waitId' = [waitId EXCEPT ![t] = id]
      /\ UNCHANGED <<freed, pid, table, parent, group, children, zombie, threads, newTask, kind,
                     last, halted>>
  BY DEF SleepFor, Goto, clone, pids, kin
<1>2. /\ \A x \in Task : /\ Alive(x)' <=> Alive(x)
                         /\ InUse(x)' <=> InUse(x)
                         /\ Exiting(x)' <=> Exiting(x)
      /\ pc'[t] = "waiting" /\ \A x \in Task : x # t => pc'[x] = pc[x] /\ waitId'[x] = waitId[x]
                                                    /\ asked'[x] = asked[x]
      /\ waitId'[t] = id /\ asked'[t] = original
  BY <1>1 DEF Alive, InUse, Exiting, TypeOK
<1>3. Types
  BY ProcTreeAssumption DEF TypeOK, Pid
<1>4. \A p, q \in Task : OnList(p, q)' <=> OnList(p, q)
  BY <1>1 DEF OnList
<1>5. PidTableExact'
  BY <1>1, <1>2, <1>3, <1>4 DEF PidTableExact, Allocated, Blank
<1>6. ZombiesAreDead'
  BY <1>1, <1>2, <1>3, <1>4 DEF ZombiesAreDead
<1>7. Blank'
  BY <1>1, <1>2, <1>3, <1>4 DEF Blank, LeadersLead
<1>8. MakersHold'
  BY <1>1, <1>2, <1>3, <1>4 DEF MakersHold, Blank
<1>9. MakersDiffer'
  BY <1>1, <1>2, <1>3, <1>4 DEF MakersDiffer, MakersHold
<1>10. NewUnlisted'
  BY <1>1, <1>2, <1>3, <1>4 DEF NewUnlisted, MakersHold
<1>11. NewListed'
  BY <1>1, <1>2, <1>3, <1>4 DEF NewListed, MakersHold
<1>12. VforkHolds'
  BY <1>1, <1>2, <1>3, <1>4 DEF VforkHolds
<1>13. LeadersLead'
  BY <1>1, <1>2, <1>3, <1>4 DEF LeadersLead, Blank
<1>14. ThreadsExact'
  BY <1>1, <1>2, <1>3, <1>4 DEF ThreadsExact, Blank
<1>15. LastIsLast'
  BY <1>1, <1>2, <1>3, <1>4 DEF LastIsLast, Blank
<1>16. ZombiesLead'
  BY <1>1, <1>2, <1>3, <1>4 DEF ZombiesLead, Blank
<1>17. EmptyIsReported'
  BY <1>1, <1>2, <1>3, <1>4 DEF EmptyIsReported, Blank, LeadersLead
<1>18. ListsDistinct'
  BY <1>1, <1>2, <1>3, <1>4 DEF ListsDistinct
<1>19. OneList'
  BY <1>1, <1>2, <1>3, <1>4 DEF OneList
<1>20. ListedInTree'
  BY <1>1, <1>2, <1>3, <1>4 DEF ListedInTree, Allocated, Blank
<1>21. FirstProcess'
  BY <1>1, <1>2, <1>3, <1>4 DEF FirstProcess
<1>22. WaitsForPid'
  BY <1>1, <1>2, <1>3, <1>4 DEF WaitsForPid
<1>23. NobodyMisses'
  BY <1>1, <1>2, <1>3, <1>4 DEF NobodyMisses
<1>24. OwnGroups'
  BY <1>1, <1>2, <1>3, <1>4 DEF OwnGroups
<1>25. NewHasMaker'
  BY <1>1, <1>2, <1>3, <1>4 DEF NewHasMaker
<1>26. FreedWereZombies'
  BY <1>1, <1>2, <1>3, <1>4 DEF FreedWereZombies
<1>27. ExitingAreLast'
  BY <1>1, <1>2, <1>3, <1>4 DEF ExitingAreLast
<1>28. ChildrenListed'
  BY <1>1, <1>2, <1>3, <1>4 DEF ChildrenListed, Allocated, Blank
<1>29. VforkHasChild'
  BY <1>1, <1>2, <1>3, <1>4 DEF VforkHasChild, VforkHolds
<1> QED
  BY <1>5, <1>6, <1>7, <1>8, <1>9, <1>10, <1>11, <1>12, <1>13, <1>14, <1>15, <1>16, <1>17, <1>18,
     <1>19, <1>20, <1>21, <1>22, <1>23, <1>24, <1>25, <1>26, <1>27, <1>28, <1>29

\* Types, to begin with.
LEMMA TypeInit == Init => TypeOK
<1> SUFFICES ASSUME Init PROVE TypeOK
  OBVIOUS
<1> USE ProcTreeAssumption DEF Init, Pid
<1>1. 1 \in Pid /\ Init1 \in Task /\ <<>> \in Seq(Task)
  OBVIOUS
<1>2. TypeOK
  BY <1>1 DEF TypeOK, PC
<1> QED
  BY <1>2

\* Every step keeps the types.
LEMMA TypeStep ==
  ASSUME Inv, NEW t \in Task, Step(t)
  PROVE  TypeOK'
<1> USE ProcTreeAssumption DEF Inv, kin, pids, clone, waits, rings, Goto
<1>0. TypeOK /\ PC = PC
  OBVIOUS
<1>1. ASSUME NEW why \in {"vfork", "exiting", "parent", "siblings", "group", "setpgid", "threads"},
             GoWild(why)
      PROVE  TypeOK'
  BY <1>1 DEF GoWild, TypeOK
<1>2. ASSUME NEW c \in Task, CreateTask(t, c)
      PROVE  TypeOK'
  <2>1. PICK k \in CloneKinds : kind' = [kind EXCEPT ![t] = k]
    BY <1>2 DEF CreateTask
  <2>2. PICK p \in Pid : /\ curPid' = p /\ pid' = [pid EXCEPT ![c] = p]
                         /\ table' = [table EXCEPT ![p] = c]
    BY <1>2 DEF CreateTask
  <2>3. pc' = [pc EXCEPT ![t] = "link", ![c] = "new"]
    BY <1>2 DEF CreateTask
  <2>4. pc' \in [Task -> PC]
    BY <2>3 DEF TypeOK, PC
  <2> QED
    BY <1>2, <2>1, <2>2, <2>4 DEF CreateTask, TypeOK
<1>3. CASE LinkChild(t)
  <2>1. newTask[t] \in Task
    BY <1>3 DEF LinkChild, TreeInv, MakersHold
  <2>2. children' \in [Task -> Seq(Task)]
    BY <1>3, <2>1 DEF LinkChild, TypeOK
  <2> QED
    BY <1>3, <2>1, <2>2 DEF LinkChild, TypeOK, PC
<1>4. ASSUME NEW c \in Task, NEW how, JoinGroup(t, c, how)
      PROVE  /\ group' \in [Task -> Task] /\ threads' \in [Task -> SUBSET Task]
             /\ sid' \in [Task -> Pid \cup {None}] /\ pgid' \in [Task -> Pid \cup {None}]
             /\ sessionOf' \in [Task -> Pid \cup {None}] /\ pgroupOf' \in [Task -> Pid \cup {None}]
  <2>0. /\ group \in [Task -> Task] /\ threads \in [Task -> SUBSET Task] /\ group[t] \in Task
        /\ sid \in [Task -> Pid \cup {None}] /\ pgid \in [Task -> Pid \cup {None}]
        /\ sessionOf \in [Task -> Pid \cup {None}] /\ pgroupOf \in [Task -> Pid \cup {None}]
    BY DEF TypeOK
  <2> HIDE DEF Inv
  <2>1. CASE how = "thread"
    BY <1>4, <2>0, <2>1 DEF JoinGroup
  <2>2. CASE how # "thread"
    BY <1>4, <2>0, <2>2 DEF JoinGroup
  <2> QED
    BY <2>1, <2>2
<1>5. ASSUME NEW c \in Task, Destroy(c)
      PROVE  /\ freed' \in [Task -> BOOLEAN] /\ pid' \in [Task -> Pid \cup {None}]
             /\ children' \in [Task -> Seq(Task)] /\ table' \in [Pid -> Task \cup {None}]
             /\ curPid' \in Pid
  BY <1>5, DestroyFacts DEF Destroy, TypeOK
<1>6. CASE CopyTask(t)
  <2>1. newTask[t] \in Task
    BY <1>6 DEF CopyTask, TreeInv, MakersHold
  <2> QED
    BY <1>4, <1>6, <2>1 DEF CopyTask, TypeOK, PC
<1>7. CASE CopyTaskFails(t)
  <2>1. newTask[t] \in Task
    BY <1>7 DEF CopyTaskFails, TreeInv, MakersHold
  <2>2. /\ group' \in [Task -> Task] /\ threads' \in [Task -> SUBSET Task]
        /\ sid' \in [Task -> Pid \cup {None}] /\ pgid' \in [Task -> Pid \cup {None}]
        /\ sessionOf' \in [Task -> Pid \cup {None}] /\ pgroupOf' \in [Task -> Pid \cup {None}]
    BY <1>4, <1>7, <2>1 DEF CopyTaskFails, TypeOK
  <2> QED
    BY <1>5, <1>7, <2>1, <2>2 DEF CopyTaskFails, TypeOK, PC
<1>8. CASE VforkReturn(t)
  <2>1. CASE GoWild("vfork")
    BY <1>1, <2>1
  <2>2. CASE ~GoWild("vfork")
    <3>1. /\ pc' = [pc EXCEPT ![t] = "user"] /\ newTask' = [newTask EXCEPT ![t] = None]
          /\ UNCHANGED <<freed, pids, kin, group, zombie, vforkDone, threads, rings,
                         kind, last, waits, halted, wild>>
      BY <1>8, <2>2 DEF VforkReturn
    <3> QED
      BY <3>1 DEF TypeOK, PC
  <2> QED
    BY <2>1, <2>2
<1>9. CASE Exec(t)
  BY <1>9 DEF Exec, TypeOK
<1>10. CASE ExitMeetsFreed(t)
  BY <1>1, <1>10 DEF ExitMeetsFreed
<1>11. CASE ExitLeave(t)
  <2> DEFINE empty == threads'[group[t]] = {}
  <2>1. /\ last' = [last EXCEPT ![t] = empty]
        /\ pc' = [pc EXCEPT ![t] = IF empty THEN "left" ELSE "unlinked"]
        /\ empty \in BOOLEAN
    BY <1>11 DEF ExitLeave
  <2> HIDE DEF empty
  <2>2. last' \in [Task -> BOOLEAN] /\ pc' \in [Task -> PC]
    BY <2>1 DEF TypeOK, PC
  <2>3. threads' \in [Task -> SUBSET Task]
    BY <1>11 DEF ExitLeave, TypeOK
  <2> QED
    BY <1>11, <2>2, <2>3 DEF ExitLeave, TypeOK
<1>12. CASE ExitUnlink(t)
  BY <1>12 DEF ExitUnlink, TypeOK, PC
<1>13. CASE ExitNotify(t)
  <2>1. CASE GoWild("exiting")
    BY <1>1, <2>1
  <2>2. CASE ~GoWild("exiting")
    <3>1. /\ pc' = [pc EXCEPT ![t] = "notified"]
          /\ vforkDone' = [vforkDone EXCEPT ![t] = TRUE]
          /\ UNCHANGED <<freed, pids, kin, group, zombie, threads, rings, clone,
                         last, waits, halted, wild>>
      BY <1>13, <2>2 DEF ExitNotify
    <3> QED
      BY <3>1 DEF TypeOK, PC
  <2> QED
    BY <2>1, <2>2
<1>14. CASE ExitFinish(t)
  <2>1. CASE \E why \in {"exiting", "parent", "siblings"} : GoWild(why)
    BY <1>1, <2>1
  <2>2. CASE /\ IF last[t] THEN ReportDeath(t)
                ELSE Goto(t, "gone") /\ UNCHANGED <<parent, zombie, halted>>
             /\ IF t = group[t] THEN UNCHANGED <<freed, pids, children>> ELSE Destroy(t)
             /\ UNCHANGED <<group, vforkDone, threads, rings, clone, last, waits, wild>>
    <3>1. /\ freed' \in [Task -> BOOLEAN] /\ pid' \in [Task -> Pid \cup {None}]
          /\ children' \in [Task -> Seq(Task)] /\ table' \in [Pid -> Task \cup {None}]
          /\ curPid' \in Pid
      BY <1>5, <2>2 DEF TypeOK
    <3>2. pc' \in [Task -> PC]
      <4>1. CASE pc' = [pc EXCEPT ![t] = "gone"]
        BY <4>1 DEF TypeOK, PC
      <4>2. CASE \E g \in Task : WakeWaiters(g, t, "gone")
        BY <4>2 DEF TypeOK, WakeWaiters, PC
      <4>3. parent[group[t]] # None => group[parent[group[t]]] \in Task
        BY DEF TypeOK
      <4> QED
        BY <2>2, <4>1, <4>2, <4>3 DEF ReportDeath
    <3>3. zombie' \in [Task -> BOOLEAN] /\ halted' \in BOOLEAN
      <4>1. zombie' = zombie \/ zombie' = [zombie EXCEPT ![group[t]] = TRUE]
        BY <2>2 DEF ReportDeath
      <4>2. halted' = halted \/ halted' = TRUE
        BY <2>2 DEF ReportDeath
      <4> QED
        BY <4>1, <4>2 DEF TypeOK
    <3>4. parent' \in [Task -> Task \cup {None}]
      <4>1. parent' = parent \/ Reparent(t)
        BY <2>2 DEF ReportDeath
      <4>2. parent \in [Task -> Task \cup {None}] /\ 1 \in Pid
            /\ table \in [Pid -> Task \cup {None}]
        BY DEF TypeOK, Pid
      <4>3. CASE Reparent(t)
        <5> DEFINE new == IF table[1] # None /\ ~zombie[table[1]] THEN table[1] ELSE None
        <5>1. new \in Task \cup {None}
          BY <4>2
        <5>2. parent' = [c \in Task |-> IF OnList(t, c) THEN new ELSE parent[c]]
          BY <4>3 DEF Reparent
        <5> HIDE DEF new
        <5> QED
          BY <4>2, <5>1, <5>2
      <4> QED
        BY <4>1, <4>2, <4>3
    <3> QED
      BY <2>2, <3>1, <3>2, <3>3, <3>4 DEF TypeOK
  <2> QED
    BY <1>14, <2>1, <2>2 DEF ExitFinish
<1>15. CASE Wait4(t) \/ WaitAgain(t) \/ WaitInterrupted(t)
  <2>1. CASE WaitGoesWild
    BY <1>1, <2>1 DEF WaitGoesWild
  <2>2. CASE Returns(t) /\ UNCHANGED <<freed, pids, children>>
    BY <2>2 DEF Returns, TypeOK, PC
  <2>3. ASSUME NEW z \in Task, Returns(t), Destroy(z)
        PROVE  TypeOK'
    BY <1>5, <2>3 DEF Returns, TypeOK, PC
  <2>4. ASSUME NEW original \in Pid \cup {AnyChild}, NEW id \in Pid \cup {AnyChild},
               SleepFor(t, original, id)
        PROVE  TypeOK'
    BY <2>4 DEF SleepFor, TypeOK, PC
  <2> QED
    BY <1>15, <2>1, <2>2, <2>3, <2>4, WaitOutcomes
<1>16. ASSUME NEW id \in Pid, NEW pg \in Pid, Setpgid(t, id, pg)
       PROVE  TypeOK'
  <2> DEFINE real == IF id = 0 THEN pid[t] ELSE id
             ring == IF pg = 0 THEN real ELSE pg
  <2>1. pid[t] \in Pid
    BY <1>16 DEF Setpgid, TreeInv, Blank
  <2>2. real \in Pid /\ ring \in Pid
    BY <2>1
  <2> HIDE DEF real, ring
  <2>3. CASE \E why \in {"setpgid", "group"} : GoWild(why)
    BY <1>1, <2>3
  <2>4. CASE ~ \E why \in {"setpgid", "group"} : GoWild(why)
    <3>1. /\ pgid' = [pgid EXCEPT ![group[table[real]]] = ring]
          /\ pgroupOf' = [pgroupOf EXCEPT ![group[table[real]]] = real]
          /\ UNCHANGED <<pc, freed, pids, kin, group, zombie, vforkDone, threads,
                         sid, sessionOf, clone, last, waits, halted, wild>>
      BY <1>16, <2>4 DEF Setpgid, real, ring
    <3> QED
      BY <2>2, <3>1 DEF TypeOK
  <2> QED
    BY <2>3, <2>4
<1>17. CASE Setsid(t)
  BY <1>17 DEF Setsid, TypeOK
<1> QED
  BY <1>2, <1>3, <1>6, <1>7, <1>8, <1>9, <1>10, <1>11, <1>12, <1>13, <1>14, <1>15, <1>16,
     <1>17 DEF Step

\* The first process alone satisfies the invariant.
LEMMA InvInit == Init => Inv
<1> SUFFICES ASSUME Init PROVE Inv
  OBVIOUS
<1> USE ProcTreeAssumption
<1>1. TypeOK
  BY TypeInit
<1>2. /\ \A t \in Task : t # Init1 =>
           /\ pc[t] = "unused" /\ ~freed[t] /\ group[t] = t /\ ~zombie[t]
           /\ threads[t] = {} /\ ~last[t]
      /\ \A t \in Task : children[t] = <<>>
      /\ pc[Init1] = "user" /\ ~freed[Init1] /\ pid[Init1] = 1 /\ parent[Init1] = None
      /\ group[Init1] = Init1 /\ ~zombie[Init1] /\ threads[Init1] = {Init1} /\ ~last[Init1]
      /\ table = [p \in Pid |-> IF p = 1 THEN Init1 ELSE None]
      /\ 1 \in Pid
  BY DEF Init, Pid
<1>3. \A p, c \in Task : ~OnList(p, c)
  BY <1>2 DEF OnList
<1>4. Blank /\ MakersHold /\ MakersDiffer /\ NewUnlisted /\ NewListed /\ VforkHolds
  BY <1>2, <1>3 DEF Blank, MakersHold, MakersDiffer, NewUnlisted, NewListed, VforkHolds, InUse
<1>5. LeadersLead /\ ThreadsExact /\ LastIsLast /\ ZombiesLead /\ EmptyIsReported
  BY <1>2 DEF LeadersLead, ThreadsExact, LastIsLast, ZombiesLead, EmptyIsReported, InUse, Alive
<1>6. ListsDistinct /\ OneList /\ ListedInTree
  BY <1>2, <1>3 DEF ListsDistinct, OneList, ListedInTree, Distinct
<1>7. FirstProcess /\ WaitsForPid /\ NobodyMisses
  BY <1>2, <1>3 DEF FirstProcess, WaitsForPid, NobodyMisses, InUse
<1>8. PidTableExact /\ ZombiesAreDead
  BY <1>2 DEF PidTableExact, ZombiesAreDead, Allocated
<1>9. OwnGroups /\ NewHasMaker /\ FreedWereZombies /\ ExitingAreLast
  BY <1>2 DEF OwnGroups, NewHasMaker, FreedWereZombies, ExitingAreLast, Exiting
<1>10. ChildrenListed /\ VforkHasChild
  BY <1>2 DEF ChildrenListed, VforkHasChild, InUse
<1> QED
  BY <1>1, <1>4, <1>5, <1>6, <1>7, <1>8, <1>9, <1>10 DEF Inv, TreeInv, ProcessInv

\* Every step keeps the invariant.
LEMMA InvStep ==
  ASSUME Inv, [Next]_vars
  PROVE  Inv'
<1>1. CASE UNCHANGED vars
  <2>1. TypeOK' /\ UNCHANGED tree
    BY <1>1 DEF Inv, TypeOK, vars, tree, kin, pids, clone, waits, rings
  <2> QED
    BY <2>1, QuietStep
<1>2. ASSUME NEW t \in Task, Step(t)
      PROVE  Inv'
  <2>1. TypeOK'
    BY <1>2, TypeStep
  <2>2. CASE UNCHANGED tree
    BY <2>1, <2>2, QuietStep
  <2>3. \A why : GoWild(why) => UNCHANGED tree
    BY DEF GoWild, tree, kin, pids, clone, waits
  <2>4. CASE \E c \in Task : CreateTask(t, c)
    BY <2>1, <2>4, CreateStep
  <2>5. CASE LinkChild(t) \/ CopyTask(t) \/ CopyTaskFails(t)
    BY <2>1, <2>5, LinkStep, CopyStep, CopyFailsStep
  <2>6. CASE VforkReturn(t)
    BY <2>1, <2>2, <2>6, VforkStep
  <2>7. CASE Exec(t) \/ ExitMeetsFreed(t) \/ Setsid(t)
    <3>1. UNCHANGED tree
      BY <2>3, <2>7 DEF Exec, ExitMeetsFreed, Setsid, tree, kin, pids, clone, waits
    <3> QED
      BY <2>2, <3>1
  <2>8. CASE ExitLeave(t)
    BY <2>1, <2>8, LeaveStep
  <2>9. CASE ExitUnlink(t) \/ ExitNotify(t)
    BY <2>1, <2>2, <2>9, MovesStep
  <2>10. CASE ExitFinish(t)
    BY <2>1, <2>2, <2>10, FinishStep
  <2>11. CASE Wait4(t) \/ WaitAgain(t) \/ WaitInterrupted(t)
    <3>1. pc[t] \in {"user", "waiting", "woken"}
      BY <2>11, WaitOutcomes
    <3>2. CASE WaitGoesWild
      BY <2>2, <2>3, <3>2 DEF WaitGoesWild
    <3>3. CASE Returns(t) /\ UNCHANGED <<freed, pids, children>>
      BY <2>1, <3>1, <3>3, ReturnStep
    <3>4. ASSUME NEW z \in Task, Allocated(z), zombie[z], Claims(t, z), Returns(t), Destroy(z)
          PROVE  Inv'
      BY <2>1, <3>1, <3>4, ReapStep
    <3>5. ASSUME NEW original \in Pid \cup {AnyChild}, NEW id \in Pid \cup {AnyChild},
                 SleepFor(t, original, id),
                 id \in Pid /\ table[id] # None => ~zombie[group[table[id]]]
          PROVE  Inv'
      BY <2>1, <3>1, <3>5, SleepStep
    <3> QED
      BY <2>11, <3>2, <3>3, <3>4, <3>5, WaitOutcomes
  <2>12. CASE \E id, pg \in Pid : Setpgid(t, id, pg)
    <3>1. UNCHANGED tree
      <4>1. PICK id \in Pid, pg \in Pid : Setpgid(t, id, pg)
        BY <2>12
      <4> QED
        BY <2>3, <4>1 DEF Setpgid, tree, kin, pids, clone, waits
    <3> QED
      BY <2>2, <3>1
  <2> QED
    BY <1>2, <2>4, <2>5, <2>6, <2>7, <2>8, <2>9, <2>10, <2>11, <2>12 DEF Step
<1> QED
  BY <1>1, <1>2 DEF Next

(***************************************************************************)
(* When clone makes processes only                                         *)
(***************************************************************************)

\* A group whose task can be reached is not freed: not even for a task that
\* clone is still making, which borrows the group of its maker.
LEMMA GroupsOutlive ==
  ASSUME OnlyProcesses, Inv, NEW u \in Task, Allocated(u)
  PROVE  ~freed[group[u]]
<1> USE DEF Inv, TreeInv, ProcessInv
<1>1. CASE pc[u] # "new"
  BY <1>1 DEF OwnGroups, Allocated
<1>2. CASE pc[u] = "new"
  <2>1. PICK m \in Task : pc[m] \in {"link", "copy"} /\ newTask[m] = u
    BY <1>2 DEF NewHasMaker
  <2>2. group[u] = m
    BY <2>1 DEF MakersHold, OwnGroups
  <2> QED
    BY <2>1, <2>2 DEF FreedWereZombies
<1> QED
  BY <1>1, <1>2

\* wait4 meets no group that was freed.
LEMMA WaitsMeetNoFreedGroup ==
  ASSUME OnlyProcesses, Inv, NEW t \in Task, Wait4(t) \/ WaitAgain(t) \/ WaitInterrupted(t)
  PROVE  wild' \in {wild, "siblings", "parent"}
<1>1. ASSUME NEW z, Return(t, z)
      PROVE  wild' \in {wild, "siblings", "parent"}
  BY <1>1 DEF Return, GoWild
<1>2. ASSUME NEW original, NEW id, SleepFor(t, original, id)
      PROVE  wild' \in {wild, "siblings", "parent"}
  BY <1>2 DEF SleepFor
<1>3. ASSUME NEW original, NEW nohang, ScanAny(t, original, nohang)
      PROVE  wild' \in {wild, "siblings", "parent"}
  <2>1. \A i \in DOMAIN children[t] :
          children[t][i] \in Task /\ Allocated(children[t][i])
    BY DEF Inv, TreeInv, TypeOK, ListedInTree, OnList
  <2>2. ~ \E i \in DOMAIN children[t] : freed[group[children[t][i]]]
    BY <2>1, GroupsOutlive
  <2> QED
    BY <1>1, <1>2, <1>3, <2>2 DEF ScanAny
<1>4. ASSUME NEW original, NEW id \in Pid, NEW nohang, ScanPid(t, original, id, nohang)
      PROVE  wild' \in {wild, "siblings", "parent"}
  <2>1. table[id] # None => ~freed[group[table[id]]]
    BY GroupsOutlive DEF Inv, TypeOK, PidTableExact
  <2>2. GoWild("parent") => wild' = "parent"
    BY DEF GoWild
  <2> QED
    BY <1>1, <1>2, <1>4, <2>1, <2>2 DEF ScanPid
<1>5. ASSUME NEW original, NEW id \in Pid \cup {AnyChild}, NEW nohang,
             Scan(t, original, id, nohang)
      PROVE  wild' \in {wild, "siblings", "parent"}
  BY <1>3, <1>4, <1>5 DEF Scan
<1>6. CASE Wait4(t)
  BY <1>5, <1>6 DEF Wait4
<1>7. CASE WaitAgain(t)
  BY <1>5, <1>7 DEF WaitAgain, Inv, TreeInv, WaitsForPid
<1>8. CASE WaitInterrupted(t)
  BY <1>1, <1>8 DEF WaitInterrupted
<1> QED
  BY <1>6, <1>7, <1>8

\* Every pointer to a task or a group that a step follows leads to one that is
\* allocated.
LEMMA UseStep ==
  ASSUME OnlyProcesses, Inv, TasksOutliveTheirUse, [Next]_vars
  PROVE  TasksOutliveTheirUse'
<1> USE DEF TasksOutliveTheirUse
<1>1. CASE UNCHANGED vars
  BY <1>1 DEF vars
<1>2. ASSUME NEW t \in Task, Step(t)
      PROVE  TasksOutliveTheirUse'
  <2>1. CASE \E c \in Task : CreateTask(t, c)
    BY <2>1 DEF CreateTask
  <2>2. CASE LinkChild(t) \/ CopyTask(t) \/ CopyTaskFails(t) \/ Exec(t)
    BY <2>2 DEF LinkChild, CopyTask, CopyTaskFails, Exec
  <2>3. CASE ExitLeave(t) \/ ExitUnlink(t) \/ Setsid(t)
    BY <2>3 DEF ExitLeave, ExitUnlink, Setsid
  <2>4. CASE ExitMeetsFreed(t)
    BY <2>4 DEF ExitMeetsFreed, GoWild
  <2>5. CASE VforkReturn(t)
    <3>1. ~freed[newTask[t]]
      BY <2>5 DEF VforkReturn, Inv, TreeInv, ProcessInv, VforkHolds, VforkHasChild,
                  ListedInTree, Allocated
    <3> QED
      BY <2>5, <3>1 DEF VforkReturn
  <2>6. ASSUME pc[t] \in {"unlinked", "notified"}
        PROVE  ~freed[t] /\ ~freed[group[t]]
    BY <2>6 DEF Inv, ProcessInv, OwnGroups, FreedWereZombies
  <2>7. CASE ExitNotify(t)
    BY <2>6, <2>7 DEF ExitNotify
  <2>8. CASE ExitFinish(t)
    BY <2>6, <2>8 DEF ExitFinish, GoWild
  <2>9. CASE Wait4(t) \/ WaitAgain(t) \/ WaitInterrupted(t)
    BY <2>9, WaitsMeetNoFreedGroup
  <2>10. ASSUME NEW id \in Pid, NEW pg \in Pid, Setpgid(t, id, pg)
         PROVE  TasksOutliveTheirUse'
    <3> DEFINE real == IF id = 0 THEN pid[t] ELSE id
               ring == IF pg = 0 THEN real ELSE pg
    <3>1. real \in Pid
      BY <2>10 DEF Setpgid, Inv, TreeInv, Blank
    <3>2. table[real] # None => ~freed[group[table[real]]]
      BY <3>1, GroupsOutlive DEF Inv, TypeOK, PidTableExact
    <3> HIDE DEF real
    <3>3. GoWild("setpgid") \/ UNCHANGED wild
      BY <2>10, <3>2 DEF Setpgid, real
    <3> QED
      BY <3>3 DEF GoWild
  <2> QED
    BY <1>2, <2>1, <2>2, <2>3, <2>4, <2>5, <2>7, <2>8, <2>9, <2>10 DEF Step
<1> QED
  BY <1>1, <1>2 DEF Next

\* Nothing but clone fills an entry of the pid table, and it takes an empty pid.
LEMMA PidsTaken ==
  ASSUME Inv, [Next]_vars, NEW p \in Pid, table[p] = None, table'[p] # None
  PROVE  PidEmpty(p)
<1>0. /\ None \notin Task /\ table \in [Pid -> Task \cup {None}]
  BY ProcTreeAssumption DEF Inv, TypeOK
<1>1. ASSUME NEW c, Destroy(c)
      PROVE  FALSE
  BY <1>0, <1>1 DEF Destroy
<1>2. CASE UNCHANGED table
  BY <1>2
<1>3. ASSUME NEW t \in Task, Step(t), ~UNCHANGED table
      PROVE  PidEmpty(p)
  <2>1. CASE \E c \in Task : CreateTask(t, c)
    BY <1>0, <2>1 DEF CreateTask
  <2>2. \A why : GoWild(why) => UNCHANGED table
    BY DEF GoWild, pids
  <2>3. CASE LinkChild(t) \/ CopyTask(t) \/ VforkReturn(t) \/ Exec(t)
    BY <1>3, <2>2, <2>3 DEF LinkChild, CopyTask, VforkReturn, Exec, pids
  <2>4. CASE ExitMeetsFreed(t) \/ ExitLeave(t) \/ ExitUnlink(t) \/ ExitNotify(t)
    BY <1>3, <2>2, <2>4 DEF ExitMeetsFreed, ExitLeave, ExitUnlink, ExitNotify, pids
  <2>5. CASE CopyTaskFails(t) \/ ExitFinish(t)
    BY <1>1, <1>3, <2>2, <2>5 DEF CopyTaskFails, ExitFinish, pids
  <2>6. CASE Wait4(t) \/ WaitAgain(t) \/ WaitInterrupted(t)
    BY <1>1, <1>3, <2>2, <2>6, WaitOutcomes DEF WaitGoesWild, SleepFor, pids
  <2>7. CASE \E id, pg \in Pid : Setpgid(t, id, pg)
    <3>1. PICK id \in Pid, pg \in Pid : Setpgid(t, id, pg)
      BY <2>7
    <3> QED
      BY <1>3, <2>2, <3>1 DEF Setpgid, pids
  <2>8. CASE Setsid(t)
    BY <1>3, <2>8 DEF Setsid, pids
  <2> QED
    BY <1>3, <2>1, <2>3, <2>4, <2>5, <2>6, <2>7, <2>8 DEF Step
<1> QED
  BY <1>2, <1>3 DEF Next, vars, pids

\* Rings change with their ids, or when the group has no threads left.
LEMMA RingsStep ==
  ASSUME OnlyProcesses, "setpgid" \notin Calls, Inv, RingsAgree, [Next]_vars
  PROVE  RingsAgree'
<1> USE DEF Inv, TreeInv
<1>0. CASE UNCHANGED <<threads, rings>>
  BY <1>0 DEF RingsAgree, rings
<1>1. ASSUME NEW t \in Task, Step(t), ~UNCHANGED <<threads, rings>>
      PROVE  RingsAgree'
  <2>0. /\ group \in [Task -> Task] /\ threads \in [Task -> SUBSET Task]
        /\ sid \in [Task -> Pid \cup {None}] /\ pgid \in [Task -> Pid \cup {None}]
        /\ sessionOf \in [Task -> Pid \cup {None}] /\ pgroupOf \in [Task -> Pid \cup {None}]
    BY DEF TypeOK
  <2>1. \A why : GoWild(why) => UNCHANGED <<threads, rings>>
    BY DEF GoWild
  <2>2. CASE \E c \in Task : CreateTask(t, c)
    BY <1>1, <2>2 DEF CreateTask
  <2>3. CASE LinkChild(t) \/ VforkReturn(t) \/ Exec(t) \/ ExitMeetsFreed(t)
    BY <1>1, <2>1, <2>3 DEF LinkChild, VforkReturn, Exec, ExitMeetsFreed
  <2>4. CASE ExitNotify(t) \/ ExitFinish(t)
    BY <1>1, <2>1, <2>4 DEF ExitNotify, ExitFinish
  <2>5. CASE Wait4(t) \/ WaitAgain(t) \/ WaitInterrupted(t)
    BY <1>1, <2>1, <2>5, WaitOutcomes DEF WaitGoesWild, Returns, SleepFor
  <2>6. CASE \E id, pg \in Pid : Setpgid(t, id, pg)
    BY <2>6 DEF Setpgid
  <2>7. CASE CopyTask(t)
    <3> DEFINE c == newTask[t]
    <3>1. /\ c \in Task /\ JoinGroup(t, c, kind[t]) /\ kind[t] # "thread"
          /\ threads[group[t]] # {}
      BY <2>7 DEF CopyTask, MakersHold, OnlyProcesses, ThreadsExact, Alive
    <3> HIDE DEF c
    <3>2. /\ threads' = [threads EXCEPT ![c] = {c}]
          /\ sid'  = [sid EXCEPT ![c] = sid[group[t]]]
          /\ pgid' = [pgid EXCEPT ![c] = pgid[group[t]]]
          /\ sessionOf' = [sessionOf EXCEPT ![c] = sessionOf[group[t]]]
          /\ pgroupOf'  = [pgroupOf EXCEPT ![c] = pgroupOf[group[t]]]
      BY <3>1 DEF JoinGroup
    <3> QED
      BY <2>0, <3>1, <3>2 DEF RingsAgree
  <2>8. CASE CopyTaskFails(t)
    BY <2>8 DEF CopyTaskFails, MakersHold, OnlyProcesses
  <2>9. CASE ExitLeave(t)
    BY <2>0, <2>9 DEF ExitLeave, RingsAgree, rings
  <2>10. CASE ExitUnlink(t)
    <3>1. threads[group[t]] = {}
      BY <2>10 DEF ExitUnlink, LastIsLast
    <3> QED
      BY <2>0, <2>10, <3>1 DEF ExitUnlink, RingsAgree
  <2>11. CASE Setsid(t)
    <3>1. group[t] = t
      BY <2>11 DEF Setsid, ProcessInv, OwnGroups
    <3> QED
      BY <2>0, <2>11, <3>1 DEF Setsid, RingsAgree
  <2> QED
    BY <1>1, <2>2, <2>3, <2>4, <2>5, <2>6, <2>7, <2>8, <2>9, <2>10, <2>11 DEF Step
<1> QED
  BY <1>0, <1>1 DEF Next, vars

(***************************************************************************)
(* The theorems                                                            *)
(***************************************************************************)

\* The inductive invariant holds: pid table, lists of children, thread groups and
\* the threads inside clone and do_exit agree, whatever the guest's threads do.
THEOREM Invariance == Spec => []Inv
<1>1. Init => Inv
  BY InvInit
<1>2. Inv /\ [Next]_vars => Inv'
  BY InvStep
<1>3. QED
  BY <1>1, <1>2, PTL DEF Spec

\* Variables keep their types: lists hold tasks, the pid table tasks or nothing.
THEOREM TypeCorrect == Spec => []TypeOK
<1>1. Inv => TypeOK
  BY DEF Inv
<1>2. QED
  BY <1>1, Invariance, PTL

\* The pid table leads exactly to the allocated tasks, whatever forks, fails to
\* fork, exits and is reaped.
THEOREM PidsLeadToTasks == Spec => []PidTableExact
<1>1. Inv => PidTableExact
  BY DEF Inv
<1>2. QED
  BY <1>1, Invariance, PTL

\* Only a group without threads has a zombie for its leader.
THEOREM ZombiesHaveNoThreads == Spec => []ZombiesAreDead
<1>1. Inv => ZombiesAreDead
  BY DEF Inv
<1>2. QED
  BY <1>1, Invariance, PTL

\* When the last thread of a group is through do_exit, its death was reported.
THEOREM DeathsAreReported == Spec => []DeathIsReported
<1>1. Inv => DeathIsReported
  <2> SUFFICES ASSUME Inv, NEW g \in Task, pc[g] = "gone", group[g] = g,
                      \A t \in Task : group[t] = g => pc[t] = "gone",
                      \A t \in threads[g] : ~freed[t]
               PROVE  zombie[g] \/ freed[g] \/ halted
    BY DEF DeathIsReported
  <2>1. threads[g] = {}
    <3>1. \A t \in threads[g] : t \in Task /\ group[t] = g /\ Alive(t)
      BY DEF Inv, TreeInv, ThreadsExact, TypeOK
    <3> QED
      BY <3>1 DEF Alive
  <2> QED
    BY <2>1 DEF Inv, TreeInv, EmptyIsReported, InUse, Exiting
<1>2. QED
  BY <1>1, Invariance, PTL

\* Nobody sleeps in wait4 for a zombie that its group made.
THEOREM ExitsAreSeen == Spec => []NoMissedExit
<1>1. Inv => NoMissedExit
  <2> SUFFICES ASSUME Inv, NEW t \in Task, pc[t] = "waiting", waitId[t] \in Pid,
                      NEW u, u = table[waitId[t]], u # None, parent[u] # None,
                      group[parent[u]] = group[t], OnList(parent[u], u)
               PROVE  ~zombie[group[u]]
    BY DEF NoMissedExit
  <2>1. u \in Task
    BY DEF Inv, TypeOK
  <2>2. parent[u] \in Task
    BY <2>1 DEF Inv, TypeOK
  <2> QED
    BY <2>1, <2>2 DEF Inv, NobodyMisses
<1>2. QED
  BY <1>1, Invariance, PTL

\* do_exit hands its children on before it frees a task: as long as clone makes
\* processes, the parent of an allocated task is allocated.
THEOREM ParentsStayAllocated ==
  ASSUME OnlyProcesses
  PROVE  Spec => []ParentsAlive
<1>1. Inv => ParentsAlive
  <2> SUFFICES ASSUME Inv, NEW t \in Task \ {Init1}, Allocated(t), pc[t] # "new"
               PROVE  parent[t] # None /\ ~freed[parent[t]]
    BY DEF ParentsAlive
  <2> USE DEF Inv, ProcessInv, TreeInv
  <2>1. /\ parent[t] \in Task /\ parent[t] # None
        /\ parent[t] # Init1 => ~zombie[parent[t]]
    BY ProcTreeAssumption DEF ChildrenListed, Allocated, InUse
  <2>2. CASE parent[t] = Init1
    BY <2>1, <2>2 DEF FirstProcess
  <2>3. CASE parent[t] # Init1
    BY <2>1, <2>3 DEF FreedWereZombies
  <2> QED
    BY <2>2, <2>3
<1>2. QED
  BY <1>1, Invariance, PTL

\* As long as clone makes processes, no thread in clone, do_exit or wait4 works
\* on a task or a group that was freed under it.
THEOREM TasksAreUsedInTime ==
  ASSUME OnlyProcesses
  PROVE  Spec => []TasksOutliveTheirUse
<1>1. Init => TasksOutliveTheirUse
  BY ProcTreeAssumption DEF Init, TasksOutliveTheirUse
<1>2. Inv /\ TasksOutliveTheirUse /\ [Next]_vars => TasksOutliveTheirUse'
  BY UseStep
<1>3. QED
  BY <1>1, <1>2, Invariance, PTL DEF Spec

\* Without threads and without setpgid, a group with threads is on the rings of
\* its session and of its process group.
THEOREM RingsHoldTheirGroups ==
  ASSUME OnlyProcesses, "setpgid" \notin Calls
  PROVE  Spec => []RingsAgree
<1>1. Init => RingsAgree
  BY DEF Init, RingsAgree
<1>2. Inv /\ RingsAgree /\ [Next]_vars => RingsAgree'
  BY RingsStep
<1>3. QED
  BY <1>1, <1>2, Invariance, PTL DEF Spec

\* The wraparound search of task_create_ hands out no pid that is still the name
\* of a session or process group with threads, under the same conditions.
THEOREM PidsNameNobody ==
  ASSUME OnlyProcesses, "setpgid" \notin Calls
  PROVE  Spec => PidsAreFresh
<1> DEFINE Fresh == \A p \in Pid : table[p] = None /\ table'[p] # None =>
                      \A g \in Task : threads[g] # {} => p \notin {sid[g], pgid[g]}
<1>1. Inv /\ RingsAgree /\ [Next]_vars => [Fresh]_vars
  BY PidsTaken DEF PidEmpty, RingsAgree
<1>2. QED
  BY <1>1, Invariance, RingsHoldTheirGroups, PTL DEF Spec, PidsAreFresh
=============================================================================
