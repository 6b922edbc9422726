--------------------------- MODULE Signals_proofs ---------------------------
(* Proofs about Signals for any number of tasks and any finite set of        *)
(* signals: the type invariant, the discipline that ties the queued and      *)
(* pending sets to the mask, and the reach of do_exit_group.                 *)
EXTENDS Signals, FiniteSetTheorems, TLAPS

-----------------------------------------------------------------------------
(* Facts about the operators receive_signals is built from *)

\* The frames pushed by one pass of receive_signals are masks.
LEMMA NewFramesType ==
  ASSUME NEW old \in SUBSET Sig, NEW calls \in SUBSET Sig
  PROVE  NewFrames(old, calls) \in Seq(SUBSET Sig)
<1>1. IsFiniteSet(calls)
  BY FS_Subset, SignalsAssumption
<1>2. Cardinality(calls) \in Nat
  BY <1>1, FS_CardinalityType
<1>. DEFINE n == Cardinality(calls)
            mask(i) == old \cup {c \in calls : Cardinality({d \in calls : d < c}) < n - i}
            f == [i \in 1 .. n |-> mask(i)]
<1>3. \A i \in 1 .. n : mask(i) \in SUBSET Sig
  OBVIOUS
<1>4. f \in Seq(SUBSET Sig)
  <2>. HIDE DEF mask, n
  <2>. QED
    BY <1>2, <1>3 DEF n
<1>5. NewFrames(old, calls) = f
  BY Zenon DEF NewFrames
<1>. QED
  BY <1>4, <1>5

\* Remembering only the innermost frames leaves a sequence of masks.
LEMMA PushType ==
  ASSUME NEW new \in Seq(SUBSET Sig), NEW old \in Seq(SUBSET Sig)
  PROVE  Push(new, old) \in Seq(SUBSET Sig)
<1>. DEFINE all == new \o old
            n   == IF Len(all) <= MaxFrames THEN Len(all) ELSE MaxFrames
<1>1. all \in Seq(SUBSET Sig)
  OBVIOUS
<1>2. n \in Nat /\ n <= Len(all)
  BY <1>1, SignalsAssumption
<1>3. SubSeq(all, 1, n) \in Seq(SUBSET Sig)
  <2>. HIDE DEF n, all
  <2>1. \A i \in 1 .. n : all[i] \in SUBSET Sig
    BY <1>1, <1>2
  <2>. QED
    BY <1>1, <1>2, <2>1
<1>. QED
  BY <1>3 DEF Push

-----------------------------------------------------------------------------
(* Moving a thread into and out of its wait *)

\* Whoever is woken goes to handle_interrupt; everybody else stays where it is.
Stays(w) == pc'[w] = pc[w] \/ (pc[w] \in {"asleep", "missed"} /\ pc'[w] = "ret")

\* A signal moves no thread but one that sleeps and heeds it.
LEMMA SendSignalWakes ==
  ASSUME TypeOK, NEW u \in Task, NEW sig \in Sig, SendSignal(u, sig)
  PROVE  pc' \in [Task -> PC] /\ \A w \in Task : Stays(w)
<1>0. pc \in [Task -> PC] /\ "ret" \in PC
  BY DEF TypeOK, PC
<1>1. pc' = pc \/ pc' = [pc EXCEPT ![u] = Woken(@)]
  BY DEF SendSignal
<1>. QED
  BY <1>0, <1>1 DEF Woken, Stays

\* A group exit sends its caller out and wakes the threads that sleep.
LEMMA DoExitGroupWakes ==
  ASSUME TypeOK, NEW t \in Task, DoExitGroup(t)
  PROVE  /\ pc' \in [Task -> PC] /\ pc[t] = "exitgroup" /\ pc'[t] = "exiting"
         /\ \A w \in Task \ {t} : Stays(w)
<1>0. pc \in [Task -> PC] /\ "ret" \in PC /\ "exiting" \in PC
  BY DEF TypeOK, PC
<1>1. /\ pc[t] = "exitgroup"
      /\ pc' = [u \in Task |-> IF u = t THEN "exiting"
                                ELSE IF u \in threads[group[t]] THEN Woken(pc[u]) ELSE pc[u]]
  BY DEF DoExitGroup
<1>2. \A u \in Task : Woken(pc[u]) \in PC
  BY <1>0 DEF Woken
<1>. QED
  BY <1>0, <1>1, <1>2 DEF Woken, Stays

\* The steps of a thread that waits in a system call.
WaitStep(t) == WaitCall(t) \/ FallAsleep(t) \/ WaitEnds(t)

\* A wait moves its own thread only, between the call and handle_interrupt.
LEMMA WaitMoves ==
  ASSUME NEW t \in Task, WaitStep(t)
  PROVE  /\ pc[t] \in {"user"} \cup Waiting
         /\ \E next \in {"ret"} \cup Waiting : pc' = [pc EXCEPT ![t] = next]
         /\ UNCHANGED <<taskVars, action, doingExit, blocked, queued, pending, frames,
                        fault, loaded, ghosts>>
<1>1. CASE WaitCall(t)
  BY <1>1, SignalsAssumption DEF WaitCall, Waiting
<1>2. CASE FallAsleep(t)
  BY <1>2 DEF FallAsleep, Waiting
<1>3. CASE WaitEnds(t)
  BY <1>3 DEF WaitEnds, Waiting
<1>. QED
  BY <1>1, <1>2, <1>3 DEF WaitStep

-----------------------------------------------------------------------------
(* Type correctness *)

\* A mask change keeps the four sets it touches well typed.
LEMMA SetMaskType ==
  ASSUME TypeOK, NEW t \in Task, NEW mask \in SUBSET Sig, SetMask(t, mask)
  PROVE  /\ blocked' \in [Task -> SUBSET Sig]
         /\ pending' \in [Task -> SUBSET Sig]
         /\ queued' \in [Task -> SUBSET Sig]
         /\ escaped' \in [Task -> SUBSET {"parked", "lost", "late"}]
BY DEF TypeOK, SetMask

\* Initial states have the right types.
LEMMA InitType == Init => TypeOK
<1>. SUFFICES ASSUME Init PROVE TypeOK
  OBVIOUS
<1>1. frames \in [Task -> Seq(SUBSET Sig)]
  BY DEF Init
<1>2. /\ pc \in [Task -> PC]
      /\ sighand \in [Task -> Task] /\ group \in [Task -> Task]
      /\ threads \in [Task -> SUBSET Task]
      /\ child \in [Task -> Task \cup {None}]
      /\ fault \in [Task -> Synchronous \cup {None}]
      /\ \A t \in Task : pc[t] = "rmw" => fault[t] # None
  BY SignalsAssumption DEF Init, PC
<1>3. action \in [Task -> [Sig -> {"dfl", "ign", "call"}]]
  BY DEF Init
<1>. QED
  BY <1>1, <1>2, <1>3 DEF Init, TypeOK

\* Each action keeps the types.
LEMMA StepType == TypeOK /\ [Next]_vars => TypeOK'
<1>. SUFFICES ASSUME TypeOK, [Next]_vars PROVE TypeOK'
  OBVIOUS
<1>1. ASSUME NEW u \in Task, NEW sig \in Sig, SendSignal(u, sig) PROVE TypeOK'
  <2>1. queued[u] \cup {sig} \in SUBSET Sig /\ pending[u] \cup {sig} \in SUBSET Sig
    BY DEF TypeOK
  <2>2. /\ queued' \in [Task -> SUBSET Sig] /\ pending' \in [Task -> SUBSET Sig]
        /\ freedUse' \in BOOLEAN
    <3>1. CASE Freed(sighand[u])
      BY <1>1, <3>1 DEF SendSignal, TypeOK
    <3>2. CASE ~Freed(sighand[u])
      <4>1. \/ /\ queued' = [queued EXCEPT ![u] = @ \cup {sig}] /\ UNCHANGED pending
            \/ /\ pending' = [pending EXCEPT ![u] = @ \cup {sig}] /\ UNCHANGED queued
        BY <1>1, <3>2 DEF SendSignal
      <4>2. UNCHANGED freedUse
        BY <1>1, <3>2 DEF SendSignal
      <4>3. freedUse' \in BOOLEAN
        BY <4>2 DEF TypeOK
      <4>4. queued \in [Task -> SUBSET Sig] /\ pending \in [Task -> SUBSET Sig]
        BY DEF TypeOK
      <4>. QED
        BY <2>1, <4>1, <4>3, <4>4
    <3>. QED
      BY <3>1, <3>2
  <2>3. pc' \in [Task -> PC] /\ \A w \in Task : pc'[w] = "rmw" => pc[w] = "rmw"
    BY <1>1, SendSignalWakes DEF Stays
  <2>. QED
    BY <1>1, <2>2, <2>3 DEF SendSignal, TypeOK, taskVars
<1>2. ASSUME NEW t \in Task, Interrupt(t) PROVE TypeOK'
  BY <1>2 DEF Interrupt, TypeOK, PC, taskVars, ghosts
<1>3. ASSUME NEW t \in Task, FaultStore(t) PROVE TypeOK'
  <2>1. fault[t] \in Sig
    BY <1>3, SignalsAssumption DEF FaultStore, TypeOK
  <2>2. PICK result \in {pending[t] \cup {fault[t]}, loaded[t] \cup {fault[t]}}
                         \cup (IF pending[t] # loaded[t] THEN {pending[t]} ELSE {}) :
          /\ pending' = [pending EXCEPT ![t] = result]
          /\ lost' = [lost EXCEPT ![t] = @ \cup ((pending[t] \cup {fault[t]}) \ result)]
          /\ escaped' = [escaped EXCEPT ![t] =
                           IF Kill \in pending[t] \ result THEN @ \cup {"lost"} ELSE @]
    BY <1>3 DEF FaultStore
  <2>4. result \in SUBSET Sig
    BY <2>1, <2>2 DEF TypeOK
  <2>3. /\ pending' \in [Task -> SUBSET Sig]
        /\ lost' \in [Task -> SUBSET Sig]
        /\ escaped' \in [Task -> SUBSET {"parked", "lost", "late"}]
    BY <2>1, <2>2, <2>4 DEF TypeOK
  <2>. QED
    BY <1>3, <2>3 DEF FaultStore, TypeOK, PC, taskVars
<1>4. ASSUME NEW t \in Task, ReceiveSignals(t) PROVE TypeOK'
  <2>. DEFINE h     == sighand[t]
              fatal == {s \in pending[t] : SignalAction(h, s) = "KILL"}
              taken == IF fatal = {} THEN pending[t]
                       ELSE {s \in pending[t] : s <= Least(fatal)}
              calls == {s \in taken : SignalAction(h, s) = "CALL_HANDLER"}
  <2>1. calls \in SUBSET Sig /\ taken \in SUBSET Sig
    BY DEF TypeOK
  <2>2. /\ pending' = [pending EXCEPT ![t] = @ \ taken]
        /\ blocked' = [blocked EXCEPT ![t] = @ \cup calls]
        /\ frames' = [frames EXCEPT ![t] = Push(NewFrames(blocked[t], calls), @)]
        /\ pc' = [pc EXCEPT ![t] = IF fatal = {} THEN "user" ELSE "exitgroup"]
        /\ UNCHANGED <<taskVars, action, doingExit, queued, fault, loaded, ghosts>>
    BY <1>4 DEF ReceiveSignals
  <2>. HIDE DEF calls, taken, fatal
  <2>3. Push(NewFrames(blocked[t], calls), frames[t]) \in Seq(SUBSET Sig)
    BY <2>1, NewFramesType, PushType DEF TypeOK
  <2>. QED
    BY <2>1, <2>2, <2>3 DEF TypeOK, PC, taskVars, ghosts
<1>5. ASSUME NEW t \in Task, NEW c \in Task, CloneAttach(t, c) PROVE TypeOK'
  <2>. DEFINE Attach ==
                /\ threads' = [threads EXCEPT ![group[t]] = @ \cup {c}]
                /\ escaped' = [escaped EXCEPT ![c] =
                                 IF doingExit[group[t]] THEN @ \cup {"late"} ELSE @]
                /\ UNCHANGED <<group, sighand, action>>
              NewGroup ==
                /\ group'   = [group EXCEPT ![c] = c]
                /\ threads' = [threads EXCEPT ![c] = {c}]
                /\ \/ UNCHANGED <<sighand, action>>
                   \/ /\ sighand' = [sighand EXCEPT ![c] = c]
                      /\ action'  = [action EXCEPT ![c] = action[sighand[t]]]
                /\ UNCHANGED escaped
  <2>0. Attach \/ NewGroup
    BY <1>5 DEF CloneAttach
  <2>1. ASSUME Attach
        PROVE  /\ threads' \in [Task -> SUBSET Task]
               /\ group' \in [Task -> Task] /\ sighand' \in [Task -> Task]
               /\ escaped' \in [Task -> SUBSET {"parked", "lost", "late"}]
               /\ action' \in [Task -> [Sig -> {"dfl", "ign", "call"}]]
    BY <2>1 DEF TypeOK
  <2>2. ASSUME NewGroup
        PROVE  /\ threads' \in [Task -> SUBSET Task]
               /\ group' \in [Task -> Task] /\ sighand' \in [Task -> Task]
               /\ escaped' \in [Task -> SUBSET {"parked", "lost", "late"}]
               /\ action' \in [Task -> [Sig -> {"dfl", "ign", "call"}]]
    <3>0. sighand[t] \in Task /\ action[sighand[t]] \in [Sig -> {"dfl", "ign", "call"}]
      BY DEF TypeOK
    <3>1. action' \in [Task -> [Sig -> {"dfl", "ign", "call"}]]
      <4>. DEFINE X == [Sig -> {"dfl", "ign", "call"}]
      <4>1. action \in [Task -> X] /\ action[sighand[t]] \in X
        BY <3>0 DEF TypeOK
      <4>2. action' = action \/ action' = [action EXCEPT ![c] = action[sighand[t]]]
        BY <2>2
      <4>. HIDE DEF X
      <4>3. action' \in [Task -> X]
        BY <4>1, <4>2
      <4>. QED
        BY <4>3 DEF X
    <3>2. /\ group' \in [Task -> Task] /\ sighand' \in [Task -> Task]
          /\ threads' \in [Task -> SUBSET Task]
      <4>1. sighand' = sighand \/ sighand' = [sighand EXCEPT ![c] = c]
        BY <2>2
      <4>2. /\ group' = [group EXCEPT ![c] = c]
            /\ threads' = [threads EXCEPT ![c] = {c}]
        BY <2>2
      <4>. HIDE DEF NewGroup, Attach
      <4>3. /\ group \in [Task -> Task] /\ sighand \in [Task -> Task]
            /\ threads \in [Task -> SUBSET Task] /\ {c} \in SUBSET Task
        BY DEF TypeOK
      <4>4. group' \in [Task -> Task] /\ threads' \in [Task -> SUBSET Task]
        BY <4>2, <4>3
      <4>5. sighand' \in [Task -> Task]
        BY <4>1, <4>3
      <4>. QED
        BY <4>4, <4>5
    <3>3. escaped' \in [Task -> SUBSET {"parked", "lost", "late"}]
      BY <2>2 DEF TypeOK
    <3>. QED
      BY <3>1, <3>2, <3>3
  <2>3. /\ pc' \in [Task -> PC] /\ child' \in [Task -> Task \cup {None}]
        /\ \A u \in Task : pc'[u] = "rmw" => fault'[u] # None
    BY <1>5 DEF CloneAttach, TypeOK, PC
  <2>. QED
    <3>. HIDE DEF Attach, NewGroup
    <3>. QED
      BY <1>5, <2>0, <2>1, <2>2, <2>3 DEF CloneAttach, TypeOK
<1>6. ASSUME NEW t \in Task, DoExitGroup(t) PROVE TypeOK'
  <2>1. pc' \in [Task -> PC] /\ \A w \in Task : pc'[w] = "rmw" => pc[w] = "rmw"
    BY <1>6, DoExitGroupWakes DEF Stays
  <2>2. doingExit' \in [Task -> BOOLEAN]
    BY <1>6 DEF DoExitGroup, TypeOK
  <2>3. pending' \in [Task -> SUBSET Sig]
    BY <1>6, SignalsAssumption DEF DoExitGroup, TypeOK
  <2>. QED
    BY <1>6, <2>1, <2>2, <2>3 DEF DoExitGroup, TypeOK, taskVars, ghosts
<1>7. ASSUME NEW t \in Task, ExitFinish(t) PROVE TypeOK'
  BY <1>7 DEF ExitFinish, TypeOK, PC, ghosts
<1>8. ASSUME NEW t \in Task, Sigprocmask(t) PROVE TypeOK'
  <2>1. PICK mask \in SUBSET Sig : SetMask(t, mask)
    BY <1>8, SignalsAssumption DEF Sigprocmask, TypeOK
  <2>. QED
    BY <1>8, <2>1, SetMaskType DEF Sigprocmask, TypeOK, PC, taskVars
<1>9. ASSUME NEW t \in Task, Sigreturn(t) PROVE TypeOK'
  <2>1. Head(frames[t]) \in SUBSET Sig /\ Tail(frames[t]) \in Seq(SUBSET Sig)
    BY <1>9 DEF Sigreturn, TypeOK
  <2>2. SetMask(t, Head(frames[t]))
    BY <1>9 DEF Sigreturn
  <2>. QED
    BY <1>9, <2>1, <2>2, SetMaskType DEF Sigreturn, TypeOK, PC, taskVars
<1>10. ASSUME NEW t \in Task, Sigaction(t) PROVE TypeOK'
  BY <1>10, SignalsAssumption DEF Sigaction, TypeOK, PC, taskVars, ghosts
<1>11. ASSUME NEW t \in Task, FaultLoad(t) PROVE TypeOK'
  <2>1. PICK sig \in Synchronous : fault' = [fault EXCEPT ![t] = sig]
    BY <1>11 DEF FaultLoad
  <2>2. /\ fault' \in [Task -> Synchronous \cup {None}]
        /\ \A u \in Task : pc'[u] = "rmw" => fault'[u] # None
    BY <1>11, <2>1, SignalsAssumption DEF FaultLoad, TypeOK
  <2>. QED
    BY <1>11, <2>2 DEF FaultLoad, TypeOK, PC, taskVars, ghosts
<1>12. ASSUME NEW t \in Task, ExitGroupCall(t) PROVE TypeOK'
  BY <1>12 DEF ExitGroupCall, TypeOK, PC, taskVars, ghosts
<1>13. ASSUME NEW t \in Task, ExitCall(t) PROVE TypeOK'
  BY <1>13 DEF ExitCall, TypeOK, PC, taskVars, ghosts
<1>14. ASSUME NEW t \in Task, NEW c \in Task, CloneCreate(t, c) PROVE TypeOK'
  <2>1. /\ pc' \in [Task -> PC] /\ child' \in [Task -> Task \cup {None}]
        /\ \A u \in Task : pc'[u] = "rmw" => fault'[u] # None
    BY <1>14 DEF CloneCreate, TypeOK, PC
  <2>2. /\ group' \in [Task -> Task] /\ sighand' \in [Task -> Task]
        /\ blocked' \in [Task -> SUBSET Sig] /\ queued' \in [Task -> SUBSET Sig]
        /\ pending' \in [Task -> SUBSET Sig] /\ frames' \in [Task -> Seq(SUBSET Sig)]
    BY <1>14 DEF CloneCreate, TypeOK
  <2>. QED
    BY <1>14, <2>1, <2>2 DEF CloneCreate, TypeOK, ghosts
<1>15. CASE UNCHANGED vars
  BY <1>15 DEF vars, TypeOK
<1>16. ASSUME NEW t \in Task, WaitStep(t) PROVE TypeOK'
  BY <1>16, WaitMoves DEF TypeOK, PC, Waiting, taskVars, ghosts
<1>. QED
  BY <1>1, <1>2, <1>3, <1>4, <1>5, <1>6, <1>7, <1>8, <1>9, <1>10, <1>11, <1>12,
     <1>13, <1>14, <1>15, <1>16 DEF Next, Progress, WaitStep

\* Every variable keeps its type through every interleaving of senders, mask
\* changes, faults, clones and exits.
THEOREM TypeCorrect == Spec => []TypeOK
BY InitType, StepType, PTL DEF Spec

-----------------------------------------------------------------------------
(* Tasks, groups and unfinished clones *)

\* The groups are well formed at first.
LEMMA InitGroups == Init => GroupsWellFormed
BY SignalsAssumption DEF Init, GroupsWellFormed, ThreadsBelong, LeadersStarted,
   ClonesOwnTheirChild

\* Most steps only move one started thread to another started state.
LEMMA StartedStepGroups ==
  ASSUME TypeOK, GroupsWellFormed, NEW t \in Task, NEW next \in PC,
         pc[t] \notin {"unused", "new", "gone"},
         next \notin {"unused", "new", "gone", "clone"},
         pc' = [pc EXCEPT ![t] = next],
         UNCHANGED <<threads, group, child, doingExit>>
  PROVE  GroupsWellFormed'
<1>. USE DEF TypeOK
<1>1. ThreadsBelong'
  BY DEF GroupsWellFormed, ThreadsBelong
<1>2. LeadersStarted'
  BY DEF GroupsWellFormed, LeadersStarted
<1>3. ClonesOwnTheirChild'
  BY DEF GroupsWellFormed, ClonesOwnTheirChild
<1>. QED
  BY <1>1, <1>2, <1>3 DEF GroupsWellFormed

\* Waking threads disturbs no group.
LEMMA WakingKeepsGroups ==
  ASSUME TypeOK, GroupsWellFormed, \A w \in Task : Stays(w),
         UNCHANGED <<threads, group, child, doingExit>>
  PROVE  GroupsWellFormed'
<1>0. \A w \in Task :
       pc'[w] = pc[w] \/ {pc[w], pc'[w]} \cap {"unused", "new", "gone", "clone"} = {}
  BY DEF Stays
<1>1. ThreadsBelong'
  BY <1>0 DEF GroupsWellFormed, ThreadsBelong, TypeOK
<1>2. LeadersStarted'
  BY <1>0 DEF GroupsWellFormed, LeadersStarted, TypeOK
<1>3. ClonesOwnTheirChild'
  BY <1>0 DEF GroupsWellFormed, ClonesOwnTheirChild, TypeOK
<1>. QED
  BY <1>1, <1>2, <1>3 DEF GroupsWellFormed

\* Each action keeps the groups well formed.
LEMMA StepGroups == TypeOK /\ GroupsWellFormed /\ [Next]_vars => GroupsWellFormed'
<1>. SUFFICES ASSUME TypeOK, GroupsWellFormed, [Next]_vars PROVE GroupsWellFormed'
  OBVIOUS
<1>0. ThreadsBelong /\ LeadersStarted /\ ClonesOwnTheirChild
  BY DEF GroupsWellFormed
<1>1. ASSUME NEW u \in Task, NEW sig \in Sig, SendSignal(u, sig)
      PROVE  GroupsWellFormed'
  BY <1>1, SendSignalWakes, WakingKeepsGroups DEF SendSignal, taskVars
<1>2. ASSUME NEW t \in Task, Interrupt(t) PROVE GroupsWellFormed'
  BY <1>2, StartedStepGroups DEF Interrupt, taskVars, PC
<1>3. ASSUME NEW t \in Task, FaultStore(t) PROVE GroupsWellFormed'
  BY <1>3, StartedStepGroups DEF FaultStore, taskVars, PC
<1>4. ASSUME NEW t \in Task, ReceiveSignals(t) PROVE GroupsWellFormed'
  <2>1. /\ pc[t] = "ret"
        /\ \E next \in {"user", "exitgroup"} : pc' = [pc EXCEPT ![t] = next]
        /\ UNCHANGED <<threads, group, child, doingExit>>
    BY <1>4 DEF ReceiveSignals, taskVars
  <2>. QED
    BY <2>1, StartedStepGroups DEF PC
<1>5. ASSUME NEW t \in Task, NEW c \in Task, CloneAttach(t, c)
      PROVE  GroupsWellFormed'
  <2>1. /\ pc[t] = "clone" /\ child[t] = c /\ pc[c] = "new" /\ group[c] = group[t]
        /\ pc' = [pc EXCEPT ![t] = "ret", ![c] = "user"]
        /\ child' = [child EXCEPT ![t] = None]
        /\ UNCHANGED doingExit
    BY <1>0, <1>5 DEF CloneAttach, ClonesOwnTheirChild
  <2>2. \/ threads' = [threads EXCEPT ![group[t]] = @ \cup {c}] /\ group' = group
        \/ /\ group' = [group EXCEPT ![c] = c]
           /\ threads' = [threads EXCEPT ![c] = {c}]
    BY <1>5 DEF CloneAttach
  <2>3. \A g \in Task : c \notin threads[g]
    BY <1>0, <2>1 DEF ThreadsBelong
  <2>4. ThreadsBelong'
    <3>0. \A g \in Task : threads'[g] \subseteq threads[g] \cup {c}
      <4>1. threads \in [Task -> SUBSET Task] /\ group[t] \in Task
        BY DEF TypeOK
      <4>. QED
        BY <2>2, <4>1
    <3>1. ASSUME NEW g \in Task, NEW x \in threads'[g]
          PROVE  x = c \/ (x # c /\ x \in threads[g])
      BY <3>0
    <3>2. ASSUME NEW g \in Task, c \in threads'[g] PROVE group'[c] = g
      BY <2>1, <2>2, <2>3, <3>2 DEF TypeOK
    <3>3. ASSUME NEW g \in Task, NEW x \in threads[g], x # c
          PROVE  group'[x] = g /\ pc'[x] \notin {"unused", "new", "gone"}
      BY <1>0, <2>1, <2>2, <3>3 DEF ThreadsBelong, TypeOK
    <3>4. pc'[c] = "user"
      BY <2>1 DEF TypeOK
    <3>. QED
      BY <3>1, <3>2, <3>3, <3>4 DEF ThreadsBelong
  <2>5. LeadersStarted'
    BY <1>0, <2>1, <2>2 DEF LeadersStarted, TypeOK
  <2>6. \A u \in Task \ {t} : pc[u] = "clone" => child[u] # c
    BY <1>0, <2>1 DEF ClonesOwnTheirChild
  <2>7. \A u \in Task : pc'[u] = "clone" =>
          /\ u # t /\ u # c /\ pc[u] = "clone" /\ child'[u] = child[u]
          /\ child[u] # t
    BY <1>0, <2>1 DEF TypeOK, ClonesOwnTheirChild
  <2>8. ClonesOwnTheirChild'
    BY <1>0, <2>1, <2>2, <2>6, <2>7 DEF ClonesOwnTheirChild, TypeOK
  <2>. QED
    BY <2>4, <2>5, <2>8 DEF GroupsWellFormed
<1>6. ASSUME NEW t \in Task, DoExitGroup(t) PROVE GroupsWellFormed'
  <2>0. \A w \in Task :
       pc'[w] = pc[w] \/ {pc[w], pc'[w]} \cap {"unused", "new", "gone", "clone"} = {}
    BY <1>6, DoExitGroupWakes DEF Stays
  <2>1. /\ pc[t] = "exitgroup"
        /\ doingExit' = [doingExit EXCEPT ![group[t]] = TRUE]
        /\ UNCHANGED <<threads, group, child>>
    BY <1>6 DEF DoExitGroup, taskVars
  <2>2. ThreadsBelong'
    BY <1>0, <2>0, <2>1 DEF ThreadsBelong, TypeOK
  <2>3. LeadersStarted'
    BY <1>0, <2>0, <2>1 DEF LeadersStarted, TypeOK
  <2>4. ClonesOwnTheirChild'
    BY <1>0, <2>0, <2>1 DEF ClonesOwnTheirChild, TypeOK
  <2>. QED
    BY <2>2, <2>3, <2>4 DEF GroupsWellFormed
<1>7. ASSUME NEW t \in Task, ExitFinish(t) PROVE GroupsWellFormed'
  <2>1. /\ pc[t] = "exiting" /\ pc' = [pc EXCEPT ![t] = "gone"]
        /\ threads' = [threads EXCEPT ![group[t]] = @ \ {t}]
        /\ UNCHANGED <<group, child, doingExit>>
    BY <1>7 DEF ExitFinish
  <2>2. ThreadsBelong'
    BY <1>0, <2>1 DEF ThreadsBelong, TypeOK
  <2>3. LeadersStarted'
    BY <1>0, <2>1 DEF LeadersStarted, TypeOK
  <2>4. ClonesOwnTheirChild'
    BY <1>0, <2>1 DEF ClonesOwnTheirChild, TypeOK
  <2>. QED
    BY <2>2, <2>3, <2>4 DEF GroupsWellFormed
<1>8. ASSUME NEW t \in Task, Sigprocmask(t) PROVE GroupsWellFormed'
  BY <1>8, StartedStepGroups DEF Sigprocmask, taskVars, PC
<1>9. ASSUME NEW t \in Task, Sigreturn(t) PROVE GroupsWellFormed'
  BY <1>9, StartedStepGroups DEF Sigreturn, taskVars, PC
<1>10. ASSUME NEW t \in Task, Sigaction(t) PROVE GroupsWellFormed'
  BY <1>10, StartedStepGroups DEF Sigaction, taskVars, PC
<1>11. ASSUME NEW t \in Task, FaultLoad(t) PROVE GroupsWellFormed'
  BY <1>11, StartedStepGroups DEF FaultLoad, taskVars, PC
<1>12. ASSUME NEW t \in Task, ExitGroupCall(t) PROVE GroupsWellFormed'
  BY <1>12, StartedStepGroups DEF ExitGroupCall, taskVars, PC
<1>13. ASSUME NEW t \in Task, ExitCall(t) PROVE GroupsWellFormed'
  BY <1>13, StartedStepGroups DEF ExitCall, taskVars, PC
<1>14. ASSUME NEW t \in Task, NEW c \in Task, CloneCreate(t, c)
       PROVE  GroupsWellFormed'
  <2>1. /\ pc[t] = "user" /\ pc[c] = "unused"
        /\ pc' = [pc EXCEPT ![t] = "clone", ![c] = "new"]
        /\ group' = [group EXCEPT ![c] = group[t]]
        /\ child' = [child EXCEPT ![t] = c]
        /\ UNCHANGED <<threads, doingExit>>
    BY <1>14 DEF CloneCreate
  <2>2. ThreadsBelong'
    BY <1>0, <2>1 DEF ThreadsBelong, TypeOK
  <2>3. LeadersStarted'
    BY <1>0, <2>1 DEF LeadersStarted, TypeOK
  <2>4. \A u \in Task : pc'[u] = "clone" =>
          u = t \/ (u # c /\ pc[u] = "clone" /\ child[u] # c /\ child[u] # t)
    BY <1>0, <2>1 DEF TypeOK, ClonesOwnTheirChild
  <2>5. ClonesOwnTheirChild'
    BY <1>0, <2>1, <2>4 DEF ClonesOwnTheirChild, TypeOK
  <2>. QED
    BY <2>2, <2>3, <2>5 DEF GroupsWellFormed
<1>15. CASE UNCHANGED vars
  BY <1>15 DEF vars, GroupsWellFormed, ThreadsBelong, LeadersStarted,
               ClonesOwnTheirChild
<1>16. ASSUME NEW t \in Task, WaitStep(t) PROVE GroupsWellFormed'
  BY <1>16, WaitMoves, StartedStepGroups DEF taskVars, PC, Waiting
<1>. QED
  BY <1>1, <1>2, <1>3, <1>4, <1>5, <1>6, <1>7, <1>8, <1>9, <1>10, <1>11, <1>12,
     <1>13, <1>14, <1>15, <1>16 DEF Next, Progress, WaitStep

-----------------------------------------------------------------------------
(* The mask discipline *)

\* do_sigprocmask_unlocked: both transfers together restore the discipline
\* under the new mask.
LEMMA SetMaskDiscipline ==
  ASSUME TypeOK, MaskDiscipline, NEW t \in Task, NEW mask \in SUBSET Sig,
         pc[t] = "user", SetMask(t, mask)
  PROVE  /\ queued'[t] \subseteq blocked'[t]
         /\ pending'[t] \cap blocked'[t] \subseteq Unblockable
         /\ \A u \in Task \ {t} : /\ queued'[u] = queued[u]
                                  /\ pending'[u] = pending[u]
                                  /\ blocked'[u] = blocked[u]
<1>1. /\ queued[t] \subseteq blocked[t]
      /\ pending[t] \cap blocked[t] \subseteq Unblockable
  BY DEF MaskDiscipline, QueuedAreBlocked, PendingAreDeliverable, Leaving
<1>2. /\ blocked'[t] = mask
      /\ pending'[t] = (pending[t] \cup (queued[t] \cap (blocked[t] \ mask)))
                       \ (mask \ blocked[t])
      /\ queued'[t] = (queued[t] \ (blocked[t] \ mask))
                      \cup ((pending[t] \cup (queued[t] \cap (blocked[t] \ mask)))
                            \cap (mask \ blocked[t]))
  BY DEF SetMask, TypeOK
<1>3. \A u \in Task \ {t} : /\ queued'[u] = queued[u]
                            /\ pending'[u] = pending[u]
                            /\ blocked'[u] = blocked[u]
  BY DEF SetMask, TypeOK
<1>. QED
  BY <1>1, <1>2, <1>3

\* send_signal adds one signal to one set of its target and touches no other task.
LEMMA SendSignalEffect ==
  ASSUME TypeOK, NEW u \in Task, NEW sig \in Sig, SendSignal(u, sig), NEW w \in Task
  PROVE  /\ \/ queued'[w] = queued[w]
            \/ w = u /\ sig \in blocked[u] /\ queued'[w] = queued[w] \cup {sig}
         /\ \/ pending'[w] = pending[w]
            \/ /\ w = u /\ sig \notin blocked[u] \ Unblockable
               /\ pending'[w] = pending[w] \cup {sig}
<1>0. queued \in [Task -> SUBSET Sig] /\ pending \in [Task -> SUBSET Sig]
  BY DEF TypeOK
<1>1. \/ UNCHANGED <<queued, pending>>
      \/ /\ sig \in blocked[u] \ Unblockable
         /\ queued' = [queued EXCEPT ![u] = @ \cup {sig}]
         /\ UNCHANGED pending
      \/ /\ sig \notin blocked[u] \ Unblockable
         /\ pending' = [pending EXCEPT ![u] = @ \cup {sig}]
         /\ UNCHANGED queued
  BY DEF SendSignal
<1>2. CASE UNCHANGED <<queued, pending>>
  BY <1>2
<1>3. CASE /\ sig \in blocked[u] \ Unblockable
           /\ queued' = [queued EXCEPT ![u] = @ \cup {sig}]
           /\ UNCHANGED pending
  BY <1>0, <1>3
<1>4. CASE /\ sig \notin blocked[u] \ Unblockable
           /\ pending' = [pending EXCEPT ![u] = @ \cup {sig}]
           /\ UNCHANGED queued
  BY <1>0, <1>4
<1>. QED
  BY <1>1, <1>2, <1>3, <1>4

\* No mask is borrowed at first.
LEMMA InitDiscipline == Init => MaskDiscipline
BY DEF Init, MaskDiscipline, QueuedAreBlocked, PendingAreDeliverable,
       LoadedAreDeliverable

\* Each action keeps the discipline of masks.
LEMMA StepDiscipline ==
  TypeOK /\ GroupsWellFormed /\ MaskDiscipline /\ [Next]_vars => MaskDiscipline'
<1>. SUFFICES ASSUME TypeOK, GroupsWellFormed, MaskDiscipline, [Next]_vars,
                     NEW w \in Task
              PROVE  /\ queued'[w] \subseteq blocked'[w]
                     /\ pending'[w] \cap blocked'[w] \subseteq
                          Unblockable \cup (IF pc'[w] \in {"ret"} \cup Leaving
                                            THEN Synchronous ELSE {})
                     /\ pc'[w] = "rmw" => loaded'[w] \cap blocked'[w] \subseteq Unblockable
  BY DEF MaskDiscipline, QueuedAreBlocked, PendingAreDeliverable, LoadedAreDeliverable
<1>. DEFINE Goal ==
              /\ queued'[w] \subseteq blocked'[w]
              /\ pending'[w] \cap blocked'[w] \subseteq
                   Unblockable \cup (IF pc'[w] \in {"ret"} \cup Leaving
                                     THEN Synchronous ELSE {})
              /\ pc'[w] = "rmw" => loaded'[w] \cap blocked'[w] \subseteq Unblockable
<1>0. /\ queued[w] \subseteq blocked[w]
      /\ pending[w] \cap blocked[w] \subseteq
           Unblockable \cup (IF pc[w] \in {"ret"} \cup Leaving THEN Synchronous ELSE {})
      /\ pc[w] = "rmw" => loaded[w] \cap blocked[w] \subseteq Unblockable
  BY DEF MaskDiscipline, QueuedAreBlocked, PendingAreDeliverable, LoadedAreDeliverable
<1>1. ASSUME NEW u \in Task, NEW sig \in Sig, SendSignal(u, sig) PROVE Goal
  <2>0. \/ queued'[w] = queued[w]
        \/ w = u /\ sig \in blocked[u] /\ queued'[w] = queued[w] \cup {sig}
    BY <1>1, SendSignalEffect
  <2>1. \/ pending'[w] = pending[w]
        \/ /\ w = u /\ sig \notin blocked[u] \ Unblockable
           /\ pending'[w] = pending[w] \cup {sig}
    BY <1>1, SendSignalEffect
  <2>2. UNCHANGED <<blocked, loaded>> /\ Stays(w)
    BY <1>1, SendSignalWakes DEF SendSignal
  <2>3. queued'[w] \subseteq blocked[w]
    BY <1>0, <2>0
  <2>4. pending'[w] \cap blocked[w] \subseteq (pending[w] \cap blocked[w]) \cup Unblockable
    BY <2>1
  <2>. QED
    BY <1>0, <2>2, <2>3, <2>4 DEF Stays, Leaving
<1>2. ASSUME NEW t \in Task, Interrupt(t) PROVE Goal
  BY <1>0, <1>2 DEF Interrupt, TypeOK, Leaving
<1>3. ASSUME NEW t \in Task, FaultStore(t) PROVE Goal
  <2>1. fault[t] \in Synchronous /\ pc[t] = "rmw"
    BY <1>3 DEF FaultStore, TypeOK
  <2>2. PICK result \in {pending[t] \cup {fault[t]}, loaded[t] \cup {fault[t]}}
                         \cup (IF pending[t] # loaded[t] THEN {pending[t]} ELSE {}) :
          pending' = [pending EXCEPT ![t] = result]
    BY <1>3 DEF FaultStore
  <2>3. /\ pc' = [pc EXCEPT ![t] = "ret"]
        /\ UNCHANGED <<blocked, queued>>
    BY <1>3 DEF FaultStore
  <2>4. CASE w = t
    BY <1>0, <2>1, <2>2, <2>3, <2>4 DEF TypeOK, Leaving
  <2>5. CASE w # t
    BY <1>0, <1>3, <2>2, <2>3, <2>5 DEF FaultStore, TypeOK, Leaving
  <2>. QED
    BY <2>4, <2>5
<1>4. ASSUME NEW t \in Task, ReceiveSignals(t) PROVE Goal
  <2>. DEFINE h     == sighand[t]
              fatal == {s \in pending[t] : SignalAction(h, s) = "KILL"}
              taken == IF fatal = {} THEN pending[t]
                       ELSE {s \in pending[t] : s <= Least(fatal)}
              calls == {s \in taken : SignalAction(h, s) = "CALL_HANDLER"}
  <2>1. /\ pending' = [pending EXCEPT ![t] = @ \ taken]
        /\ blocked' = [blocked EXCEPT ![t] = @ \cup calls]
        /\ pc' = [pc EXCEPT ![t] = IF fatal = {} THEN "user" ELSE "exitgroup"]
        /\ UNCHANGED <<queued, loaded>> /\ pc[t] = "ret"
    BY <1>4 DEF ReceiveSignals
  <2>2. calls \subseteq taken /\ (fatal = {} => taken = pending[t])
    OBVIOUS
  <2>. HIDE DEF calls, taken, fatal
  <2>. QED
    BY <1>0, <2>1, <2>2 DEF TypeOK, Leaving
<1>5. ASSUME NEW t \in Task, NEW c \in Task, CloneAttach(t, c) PROVE Goal
  <2>1. /\ pc' = [pc EXCEPT ![t] = "ret", ![c] = "user"]
        /\ UNCHANGED <<blocked, queued, pending, loaded>>
        /\ pc[t] = "clone" /\ pc[c] = "new"
    BY <1>5 DEF CloneAttach, GroupsWellFormed, ClonesOwnTheirChild
  <2>. QED
    BY <1>0, <2>1 DEF TypeOK, Leaving
<1>6. ASSUME NEW t \in Task, DoExitGroup(t) PROVE Goal
  <2>1. pending'[w] \subseteq pending[w] \cup {Kill}
    BY <1>6 DEF DoExitGroup, TypeOK
  <2>2. UNCHANGED <<blocked, queued, loaded>>
    BY <1>6 DEF DoExitGroup
  <2>3. /\ pc'[w] = "rmw" => pc[w] = "rmw"
        /\ pc[w] \in {"ret"} \cup Leaving => pc'[w] \in {"ret"} \cup Leaving
    BY <1>6, DoExitGroupWakes DEF Stays, Leaving
  <2>. QED
    BY <1>0, <2>1, <2>2, <2>3, SignalsAssumption
<1>7. ASSUME NEW t \in Task, ExitFinish(t) PROVE Goal
  BY <1>0, <1>7 DEF ExitFinish, TypeOK, Leaving
<1>8. ASSUME NEW t \in Task, Sigprocmask(t) PROVE Goal
  <2>1. PICK mask \in SUBSET Sig : SetMask(t, mask)
    BY <1>8, SignalsAssumption DEF Sigprocmask, TypeOK
  <2>2. pc[t] = "user" /\ pc' = [pc EXCEPT ![t] = "ret"] /\ UNCHANGED loaded
    BY <1>8 DEF Sigprocmask
  <2>. QED
    BY <1>0, <2>1, <2>2, SetMaskDiscipline DEF TypeOK, Leaving
<1>9. ASSUME NEW t \in Task, Sigreturn(t) PROVE Goal
  <2>1. Head(frames[t]) \in SUBSET Sig
    BY <1>9 DEF Sigreturn, TypeOK
  <2>2. /\ pc[t] = "user" /\ pc' = [pc EXCEPT ![t] = "ret"] /\ UNCHANGED loaded
        /\ SetMask(t, Head(frames[t]))
    BY <1>9 DEF Sigreturn
  <2>. QED
    BY <1>0, <2>1, <2>2, SetMaskDiscipline DEF TypeOK, Leaving
<1>10. ASSUME NEW t \in Task, Sigaction(t) PROVE Goal
  BY <1>0, <1>10 DEF Sigaction, TypeOK, Leaving
<1>11. ASSUME NEW t \in Task, FaultLoad(t) PROVE Goal
  BY <1>0, <1>11 DEF FaultLoad, TypeOK, Leaving
<1>12. ASSUME NEW t \in Task, ExitGroupCall(t) PROVE Goal
  BY <1>0, <1>12 DEF ExitGroupCall, TypeOK, Leaving
<1>13. ASSUME NEW t \in Task, ExitCall(t) PROVE Goal
  BY <1>0, <1>13 DEF ExitCall, TypeOK, Leaving
<1>14. ASSUME NEW t \in Task, NEW c \in Task, CloneCreate(t, c) PROVE Goal
  <2>1. /\ queued[t] \subseteq blocked[t]
        /\ pending[t] \cap blocked[t] \subseteq Unblockable
    BY <1>14 DEF CloneCreate, MaskDiscipline, QueuedAreBlocked, PendingAreDeliverable,
                 Leaving
  <2>. QED
    BY <1>0, <1>14, <2>1 DEF CloneCreate, TypeOK, Leaving
<1>15. CASE UNCHANGED vars
  BY <1>0, <1>15 DEF vars
<1>16. ASSUME NEW t \in Task, WaitStep(t) PROVE Goal
  BY <1>0, <1>16, WaitMoves DEF TypeOK, Leaving, Waiting
<1>. QED
  BY <1>1, <1>2, <1>3, <1>4, <1>5, <1>6, <1>7, <1>8, <1>9, <1>10, <1>11, <1>12,
     <1>13, <1>14, <1>15, <1>16 DEF Next, Progress, WaitStep

\* A signal sits in task->queued only while it is blocked.
THEOREM QueueFollowsMask == Spec => []QueuedAreBlocked
<1>1. MaskDiscipline => QueuedAreBlocked
  BY DEF MaskDiscipline
<1>. QED
  BY <1>1, InitType, StepType, InitGroups, StepGroups, InitDiscipline,
     StepDiscipline, PTL DEF Spec

\* receive_signals never finds a blocked signal to take, except the unblockable
\* ones and the fault of the moment.
THEOREM PendingRespectsMask == Spec => []PendingAreDeliverable
<1>1. MaskDiscipline => PendingAreDeliverable
  BY DEF MaskDiscipline
<1>. QED
  BY <1>1, InitType, StepType, InitGroups, StepGroups, InitDiscipline,
     StepDiscipline, PTL DEF Spec

-----------------------------------------------------------------------------
(* The reach of do_exit_group *)

\* No group is exiting at first.
LEMMA InitReach == Init => ExitGroupReachesAll
BY DEF Init, ExitGroupReachesAll

\* SIGKILL is always fatal.
LEMMA KillKills == ASSUME NEW h PROVE SignalAction(h, Kill) = "KILL"
BY SignalsAssumption DEF SignalAction

\* An exiting group goes on reaching all its threads.
LEMMA StepReach ==
  TypeOK /\ GroupsWellFormed /\ ExitGroupReachesAll /\ [Next]_vars
    => ExitGroupReachesAll'
<1>. SUFFICES ASSUME TypeOK, GroupsWellFormed, ExitGroupReachesAll, [Next]_vars,
                     NEW g \in Task, doingExit'[g], NEW w \in threads'[g]
              PROVE  pc'[w] \in Leaving \/ Kill \in pending'[w] \/ escaped'[w] # {}
  BY DEF ExitGroupReachesAll
<1>. DEFINE Goal == pc'[w] \in Leaving \/ Kill \in pending'[w] \/ escaped'[w] # {}
            Reached == pc[w] \in Leaving \/ Kill \in pending[w] \/ escaped[w] # {}
<1>0. ThreadsBelong /\ LeadersStarted /\ ClonesOwnTheirChild
  BY DEF GroupsWellFormed
<1>a. doingExit[g] /\ w \in threads[g] => w \in Task /\ Reached
  BY DEF ExitGroupReachesAll, TypeOK
<1>1. ASSUME NEW u \in Task, NEW sig \in Sig, SendSignal(u, sig) PROVE Goal
  <2>0. w \in threads[g] /\ w \in Task
    BY <1>1 DEF SendSignal, taskVars, TypeOK
  <2>1. pending[w] \subseteq pending'[w]
    BY <1>1, <2>0, SendSignalEffect
  <2>2. pc[w] \in Leaving => pc'[w] \in Leaving
    BY <1>1, <2>0, SendSignalWakes DEF Stays, Leaving
  <2>. QED
    BY <1>1, <1>a, <2>1, <2>2 DEF SendSignal, taskVars
<1>2. ASSUME NEW t \in Task, Interrupt(t) PROVE Goal
  BY <1>2, <1>a DEF Interrupt, taskVars, ghosts, TypeOK, Leaving
<1>3. ASSUME NEW t \in Task, FaultStore(t) PROVE Goal
  <2>1. PICK result :
          /\ pending' = [pending EXCEPT ![t] = result]
          /\ escaped' = [escaped EXCEPT ![t] =
                           IF Kill \in pending[t] \ result THEN @ \cup {"lost"} ELSE @]
    BY <1>3 DEF FaultStore
  <2>2. /\ pc[t] = "rmw" /\ pc' = [pc EXCEPT ![t] = "ret"]
        /\ UNCHANGED <<threads, doingExit>>
    BY <1>3 DEF FaultStore, taskVars
  <2>. QED
    BY <1>a, <2>1, <2>2 DEF TypeOK, Leaving
<1>4. ASSUME NEW t \in Task, ReceiveSignals(t) PROVE Goal
  <2>. DEFINE fatal == {s \in pending[t] : SignalAction(sighand[t], s) = "KILL"}
  <2>1. /\ \A u \in Task \ {t} : pending'[u] = pending[u]
        /\ pc' = [pc EXCEPT ![t] = IF fatal = {} THEN "user" ELSE "exitgroup"]
        /\ pc[t] = "ret" /\ UNCHANGED <<threads, doingExit, escaped>>
    BY <1>4 DEF ReceiveSignals, taskVars, ghosts, TypeOK
  <2>2. Kill \in pending[t] => fatal # {}
    BY KillKills
  <2>. HIDE DEF fatal
  <2>. QED
    BY <1>a, <2>1, <2>2 DEF TypeOK, Leaving
<1>5. ASSUME NEW t \in Task, NEW c \in Task, CloneAttach(t, c) PROVE Goal
  <2>1. /\ pc[t] = "clone" /\ pc[c] = "new" /\ group[c] = group[t]
        /\ pc' = [pc EXCEPT ![t] = "ret", ![c] = "user"]
        /\ UNCHANGED <<pending, doingExit>>
    BY <1>0, <1>5 DEF CloneAttach, ClonesOwnTheirChild
  <2>2. c \notin threads[g]
    BY <1>0, <2>1 DEF ThreadsBelong
  <2>3. ~doingExit[c]
    BY <1>0, <2>1 DEF LeadersStarted
  <2>4. CASE /\ threads' = [threads EXCEPT ![group[t]] = @ \cup {c}]
             /\ escaped' = [escaped EXCEPT ![c] =
                              IF doingExit[group[t]] THEN @ \cup {"late"} ELSE @]
    <3>1. w = c => g = group[t] /\ "late" \in escaped'[w]
      BY <2>1, <2>2, <2>4 DEF TypeOK
    <3>2. w # c => w \in threads[g] /\ escaped'[w] = escaped[w]
      BY <2>4 DEF TypeOK
    <3>. QED
      BY <1>a, <2>1, <3>1, <3>2 DEF TypeOK, Leaving
  <2>5. CASE threads' = [threads EXCEPT ![c] = {c}] /\ UNCHANGED escaped
    <3>1. g # c /\ w \in threads[g]
      BY <2>1, <2>3, <2>5 DEF TypeOK
    <3>. QED
      BY <1>a, <2>1, <2>2, <2>5, <3>1 DEF TypeOK, Leaving
  <2>. QED
    BY <1>5, <2>4, <2>5 DEF CloneAttach
<1>6. ASSUME NEW t \in Task, DoExitGroup(t) PROVE Goal
  <2>1. /\ doingExit' = [doingExit EXCEPT ![group[t]] = TRUE]
        /\ UNCHANGED <<threads, escaped>>
    BY <1>6 DEF DoExitGroup, taskVars, ghosts
  <2>2. w \in threads[g] /\ w \in Task
    BY <2>1 DEF TypeOK
  <2>3. pending' = [u \in Task |-> IF u \in threads[group[t]]
                                   THEN pending[u] \cup {Kill} ELSE pending[u]]
    BY <1>6 DEF DoExitGroup
  <2>4. g = group[t] \/ doingExit[g]
    BY <2>1 DEF TypeOK
  <2>5. pc[w] \in Leaving => pc'[w] \in Leaving
    BY <1>6, <2>2, DoExitGroupWakes DEF Stays, Leaving
  <2>. QED
    BY <1>a, <2>1, <2>2, <2>3, <2>4, <2>5
<1>7. ASSUME NEW t \in Task, ExitFinish(t) PROVE Goal
  BY <1>7, <1>a DEF ExitFinish, ghosts, TypeOK, Leaving
<1>8. ASSUME NEW t \in Task, NEW mask, SetMask(t, mask), pc[t] = "user",
             pc' = [pc EXCEPT ![t] = "ret"], UNCHANGED <<threads, doingExit>>
      PROVE  Goal
  <2>1. Kill \in pending[t] => Kill \in pending'[t] \/ escaped'[t] # {}
    BY <1>8 DEF SetMask, TypeOK
  <2>2. escaped[t] \subseteq escaped'[t]
    BY <1>8 DEF SetMask, TypeOK
  <2>3. \A u \in Task \ {t} : pending'[u] = pending[u] /\ escaped'[u] = escaped[u]
    BY <1>8 DEF SetMask, TypeOK
  <2>. QED
    BY <1>8, <1>a, <2>1, <2>2, <2>3 DEF TypeOK, Leaving
<1>9. ASSUME NEW t \in Task, Sigprocmask(t) \/ Sigreturn(t) PROVE Goal
  BY <1>8, <1>9 DEF Sigprocmask, Sigreturn, taskVars
<1>10. ASSUME NEW t \in Task, Sigaction(t) PROVE Goal
  BY <1>10, <1>a DEF Sigaction, taskVars, ghosts, TypeOK, Leaving
<1>11. ASSUME NEW t \in Task, FaultLoad(t) PROVE Goal
  BY <1>11, <1>a DEF FaultLoad, taskVars, ghosts, TypeOK, Leaving
<1>12. ASSUME NEW t \in Task, ExitGroupCall(t) PROVE Goal
  BY <1>12, <1>a DEF ExitGroupCall, taskVars, ghosts, TypeOK, Leaving
<1>13. ASSUME NEW t \in Task, ExitCall(t) PROVE Goal
  BY <1>13, <1>a DEF ExitCall, taskVars, ghosts, TypeOK, Leaving
<1>14. ASSUME NEW t \in Task, NEW c \in Task, CloneCreate(t, c) PROVE Goal
  <2>1. c \notin threads[g]
    BY <1>0, <1>14 DEF CloneCreate, ThreadsBelong
  <2>. QED
    BY <1>14, <1>a, <2>1 DEF CloneCreate, ghosts, TypeOK, Leaving
<1>15. CASE UNCHANGED vars
  BY <1>a, <1>15 DEF vars
<1>16. ASSUME NEW t \in Task, WaitStep(t) PROVE Goal
  BY <1>16, <1>a, WaitMoves DEF taskVars, ghosts, TypeOK, Leaving, Waiting
<1>. QED
  BY <1>1, <1>2, <1>3, <1>4, <1>5, <1>6, <1>7, <1>9, <1>10, <1>11, <1>12, <1>13,
     <1>14, <1>15, <1>16 DEF Next, Progress, WaitStep

\* Once a group exit has begun, a thread of the group that is not on its way
\* out has SIGKILL pending, whatever the other threads do; the exceptions are
\* exactly the threads the three recorded races let slip.
THEOREM ExitGroupComplete == Spec => []ExitGroupReachesAll
BY InitType, StepType, InitGroups, StepGroups, InitReach, StepReach, PTL DEF Spec
-----------------------------------------------------------------------------
(* No signal disappears *)

\* Nothing is queued or pending for a task structure that is not in use yet, so
\* the copy sys_clone makes of its caller's sets hides no signal.
UnusedAreEmpty == \A t \in Task : pc[t] = "unused" => queued[t] = {} /\ pending[t] = {}

\* What a step may do to the signals of task w.
ConservedFor(w) ==
  \A s \in (queued[w] \cup pending[w]) \ (queued'[w] \cup pending'[w]) :
    \/ s \in pending[w] /\ pc[w] = "ret" /\ pc'[w] \in {"user", "exitgroup"}
    \/ s \in lost'[w]

\* No task structure but the first is in use at first, and nothing is sent yet.
LEMMA InitUnused == Init => UnusedAreEmpty
BY DEF Init, UnusedAreEmpty

\* do_sigprocmask_unlocked only moves the caller's signals between its two sets.
LEMMA SetMaskMoves ==
  ASSUME TypeOK, NEW t \in Task, NEW mask \in SUBSET Sig, SetMask(t, mask)
  PROVE  /\ queued[t] \cup pending[t] \subseteq queued'[t] \cup pending'[t]
         /\ \A u \in Task \ {t} : queued'[u] = queued[u] /\ pending'[u] = pending[u]
<1>1. /\ queued \in [Task -> SUBSET Sig] /\ pending \in [Task -> SUBSET Sig]
  BY DEF TypeOK
<1>. DEFINE unblocked == blocked[t] \ mask
            newly == mask \ blocked[t]
            due   == pending[t] \cup (queued[t] \cap unblocked)
            kept  == queued[t] \ unblocked
<1>2. /\ pending' = [pending EXCEPT ![t] = due \ newly]
      /\ queued' = [queued EXCEPT ![t] = kept \cup (due \cap newly)]
  BY DEF SetMask
<1>3. queued[t] \cup pending[t] \subseteq kept \cup due
  OBVIOUS
<1>. HIDE DEF due, kept, newly
<1>4. pending'[t] = due \ newly /\ queued'[t] = kept \cup (due \cap newly)
  BY <1>1, <1>2
<1>. QED
  BY <1>1, <1>2, <1>3, <1>4

\* Each action leaves the unused tasks empty and drops a signal only where
\* receive_signals takes it or the unlocked `pending |=` overwrites it.
LEMMA StepConserves ==
  TypeOK /\ GroupsWellFormed /\ UnusedAreEmpty /\ [Next]_vars
    => UnusedAreEmpty' /\ \A w \in Task : ConservedFor(w)
<1>. SUFFICES ASSUME TypeOK, GroupsWellFormed, UnusedAreEmpty, [Next]_vars,
                     NEW w \in Task
              PROVE  /\ pc'[w] = "unused" => queued'[w] = {} /\ pending'[w] = {}
                     /\ ConservedFor(w)
  BY DEF UnusedAreEmpty
<1>. DEFINE Quiet == pc'[w] = "unused" => queued'[w] = {} /\ pending'[w] = {}
            Goal == Quiet /\ ConservedFor(w)
<1>0. /\ pc \in [Task -> PC] /\ queued \in [Task -> SUBSET Sig]
      /\ pending \in [Task -> SUBSET Sig] /\ lost \in [Task -> SUBSET Sig]
      /\ pc[w] = "unused" => queued[w] = {} /\ pending[w] = {}
  BY DEF TypeOK, UnusedAreEmpty
<1>a. ASSUME pc'[w] = "unused" => pc[w] = "unused",
             UNCHANGED <<queued, pending>>
      PROVE  Goal
  BY <1>0, <1>a DEF ConservedFor
<1>1. ASSUME NEW u \in Task, NEW sig \in Sig, SendSignal(u, sig) PROVE Goal
  <2>1. queued[w] \subseteq queued'[w] /\ pending[w] \subseteq pending'[w]
    BY <1>1, SendSignalEffect
  <2>2. w # u => queued'[w] = queued[w] /\ pending'[w] = pending[w]
    BY <1>1, SendSignalEffect
  <2>3. (pc'[w] = "unused" => pc[w] = "unused") /\ pc[u] # "unused"
    BY <1>1, SendSignalWakes DEF SendSignal, Reachable, Stays
  <2>. QED
    BY <1>0, <2>1, <2>2, <2>3 DEF ConservedFor
<1>2. ASSUME NEW t \in Task, Interrupt(t) PROVE Goal
  BY <1>0, <1>2, <1>a DEF Interrupt
<1>3. ASSUME NEW t \in Task, FaultStore(t) PROVE Goal
  <2>1. PICK result :
          /\ pending' = [pending EXCEPT ![t] = result]
          /\ lost' = [lost EXCEPT ![t] = @ \cup ((pending[t] \cup {fault[t]}) \ result)]
    BY <1>3 DEF FaultStore
  <2>2. /\ pc[t] = "rmw" /\ pc' = [pc EXCEPT ![t] = "ret"] /\ queued' = queued
    BY <1>3 DEF FaultStore
  <2>3. CASE w = t
    <3>1. /\ pending'[t] = result /\ pc'[t] = "ret"
          /\ lost'[t] = lost[t] \cup ((pending[t] \cup {fault[t]}) \ result)
      BY <1>0, <2>1, <2>2
    <3>2. \A s \in pending[t] \ pending'[t] : s \in lost'[t]
      BY <3>1
    <3>. QED
      BY <2>2, <2>3, <3>1, <3>2 DEF ConservedFor
  <2>4. CASE w # t
    BY <1>0, <2>1, <2>2, <2>4 DEF ConservedFor
  <2>. QED
    BY <2>3, <2>4
<1>4. ASSUME NEW t \in Task, ReceiveSignals(t) PROVE Goal
  <2>1. /\ pc[t] = "ret"
        /\ \E next \in {"user", "exitgroup"} : pc' = [pc EXCEPT ![t] = next]
        /\ \E taken : pending' = [pending EXCEPT ![t] = @ \ taken]
        /\ queued' = queued
    BY <1>4 DEF ReceiveSignals
  <2>2. CASE w = t
    <3>1. pc'[t] \in {"user", "exitgroup"}
      BY <1>0, <2>1
    <3>. QED
      BY <2>1, <2>2, <3>1 DEF ConservedFor
  <2>3. CASE w # t
    <3>1. pc'[w] = pc[w] /\ pending'[w] = pending[w]
      BY <1>0, <2>1, <2>3
    <3>. QED
      BY <1>0, <2>1, <3>1 DEF ConservedFor
  <2>. QED
    BY <2>2, <2>3
<1>5. ASSUME NEW t \in Task, NEW c \in Task, CloneAttach(t, c) PROVE Goal
  <2>1. /\ pc' = [pc EXCEPT ![t] = "ret", ![c] = "user"]
        /\ UNCHANGED <<queued, pending>>
    BY <1>5 DEF CloneAttach
  <2>2. pc'[w] = "unused" => pc[w] = "unused"
    BY <1>0, <2>1
  <2>. QED
    BY <1>a, <2>1, <2>2
<1>6. ASSUME NEW t \in Task, DoExitGroup(t) PROVE Goal
  <2>1. /\ queued' = queued
        /\ pending' = [u \in Task |-> IF u \in threads[group[t]]
                                      THEN pending[u] \cup {Kill} ELSE pending[u]]
    BY <1>6 DEF DoExitGroup
  <2>2. group[t] \in Task
    BY DEF TypeOK
  <2>3. w \in threads[group[t]] => pc[w] # "unused"
    BY <2>2 DEF GroupsWellFormed, ThreadsBelong
  <2>4. /\ pending[w] \subseteq pending'[w]
        /\ w \notin threads[group[t]] => pending'[w] = pending[w]
    BY <2>1
  <2>5. pc'[w] = "unused" => pc[w] = "unused"
    BY <1>6, DoExitGroupWakes DEF Stays
  <2>. QED
    BY <1>0, <2>1, <2>3, <2>4, <2>5 DEF ConservedFor
<1>7. ASSUME NEW t \in Task, ExitFinish(t) PROVE Goal
  BY <1>0, <1>7, <1>a DEF ExitFinish
<1>8. ASSUME NEW t \in Task, NEW mask \in SUBSET Sig, SetMask(t, mask), pc[t] = "user",
             pc' = [pc EXCEPT ![t] = "ret"]
      PROVE  Goal
  <2>1. /\ queued[t] \cup pending[t] \subseteq queued'[t] \cup pending'[t]
        /\ \A u \in Task \ {t} : queued'[u] = queued[u] /\ pending'[u] = pending[u]
    BY <1>8, SetMaskMoves
  <2>2. pc'[w] = "unused" => w # t /\ pc[w] = "unused"
    BY <1>0, <1>8
  <2>. QED
    BY <1>0, <2>1, <2>2 DEF ConservedFor
<1>9. ASSUME NEW t \in Task, Sigprocmask(t) PROVE Goal
  <2>1. PICK mask \in SUBSET Sig : SetMask(t, mask)
    BY <1>9, SignalsAssumption DEF Sigprocmask, TypeOK
  <2>. QED
    BY <1>8, <1>9, <2>1 DEF Sigprocmask
<1>10. ASSUME NEW t \in Task, Sigreturn(t) PROVE Goal
  <2>1. Head(frames[t]) \in SUBSET Sig
    BY <1>10 DEF Sigreturn, TypeOK
  <2>. QED
    BY <1>8, <1>10, <2>1 DEF Sigreturn
<1>11. ASSUME NEW t \in Task, Sigaction(t) PROVE Goal
  BY <1>0, <1>11, <1>a DEF Sigaction
<1>12. ASSUME NEW t \in Task, FaultLoad(t) PROVE Goal
  BY <1>0, <1>12, <1>a DEF FaultLoad
<1>13. ASSUME NEW t \in Task, ExitGroupCall(t) PROVE Goal
  BY <1>0, <1>13, <1>a DEF ExitGroupCall
<1>14. ASSUME NEW t \in Task, ExitCall(t) PROVE Goal
  BY <1>0, <1>14, <1>a DEF ExitCall
<1>15. ASSUME NEW t \in Task, NEW c \in Task, CloneCreate(t, c) PROVE Goal
  <2>1. /\ pc[c] = "unused" /\ pc' = [pc EXCEPT ![t] = "clone", ![c] = "new"]
        /\ queued' = [queued EXCEPT ![c] = queued[t]]
        /\ pending' = [pending EXCEPT ![c] = pending[t]]
    BY <1>15 DEF CloneCreate
  <2>2. CASE w = c
    <3>1. queued[w] = {} /\ pending[w] = {} /\ pc'[w] = "new"
      BY <1>0, <2>1, <2>2
    <3>. QED
      BY <3>1 DEF ConservedFor
  <2>3. CASE w # c
    <3>1. /\ queued'[w] = queued[w] /\ pending'[w] = pending[w]
          /\ pc'[w] = "unused" => pc[w] = "unused"
      BY <1>0, <2>1, <2>3
    <3>. QED
      BY <1>0, <3>1 DEF ConservedFor
  <2>. QED
    BY <2>2, <2>3
<1>16. CASE UNCHANGED vars
  BY <1>0, <1>16, <1>a DEF vars
<1>17. ASSUME NEW t \in Task, WaitStep(t) PROVE Goal
  BY <1>0, <1>17, <1>a, WaitMoves DEF Waiting
<1>. QED
  BY <1>1, <1>2, <1>3, <1>4, <1>5, <1>6, <1>7, <1>9, <1>10, <1>11, <1>12, <1>13,
     <1>14, <1>15, <1>16, <1>17 DEF Next, Progress, WaitStep

\* A signal sent to a task stays queued or pending until the task itself takes
\* it in receive_signals, from pending; the only other way out is to be
\* overwritten by the unlocked `pending |=` of a forced fault.
THEOREM SignalsAreConserved == Spec => SignalsConserved
<1>1. (\A w \in Task : ConservedFor(w)) =>
        \A t \in Task : \A s \in (queued[t] \cup pending[t])
                                 \ (queued'[t] \cup pending'[t]) :
          \/ s \in pending[t] /\ pc[t] = "ret" /\ pc'[t] \in {"user", "exitgroup"}
          \/ s \in lost'[t]
  BY DEF ConservedFor
<1>2. TypeOK /\ GroupsWellFormed /\ UnusedAreEmpty /\ [Next]_vars =>
        \A t \in Task : \A s \in (queued[t] \cup pending[t])
                                 \ (queued'[t] \cup pending'[t]) :
          \/ s \in pending[t] /\ pc[t] = "ret" /\ pc'[t] \in {"user", "exitgroup"}
          \/ s \in lost'[t]
  BY <1>1, StepConserves
<1>. QED
  BY <1>2, InitType, StepType, InitGroups, StepGroups, InitUnused, StepConserves, PTL
     DEF Spec, SignalsConserved
=============================================================================
