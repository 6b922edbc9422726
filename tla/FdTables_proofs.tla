--------------------------- MODULE FdTables_proofs --------------------------
(***************************************************************************)
(* Proofs about FdTables: descriptors are counted, none is freed under a   *)
(* call unless its table is shared, and f_install_start replaces none      *)
(* within the limit.                                                       *)
(***************************************************************************)
EXTENDS FdTables, FiniteSetTheorems, TLAPS

(***************************************************************************)
(* The inductive invariant                                                 *)
(***************************************************************************)

\* An open slot is below the size: fdtable_release and fork look no further.
InsideSize == \A T \in Tables : \A f \in F : files[T][f] # None => f < size[T]

\* A table counts the tasks that have it, and is empty when nobody does.
At(S, f, v) == {z \in S : f[z] = v}
TablesCounted ==
  \A T \in Tables : /\ tableRefs[T] = Cardinality(At(Tasks, table, T))
                    /\ tableRefs[T] = 0 => size[T] = 0
InfosCounted ==
  \A i \in FsInfos : /\ fsRefs[i] = Cardinality(At(Tasks, fs, i))
                     /\ fsRefs[i] = 0 => pwd[i] = None

\* A task has both or neither.
BothOrNone == \A w \in Tasks : table[w] # None <=> fs[w] # None

\* What a call uses is open as long as nobody else has the table: the task that
\* could close it is the one in the call.
OwnTable ==
  \A w \in Tasks : using[w] # None /\ w \notin shared =>
    table[w] \in Tables /\ tableRefs[table[w]] = 1 /\ \E f \in F : files[table[w]][f] = using[w]

Inv ==
  /\ DescriptorsSound /\ InsideSize /\ TablesCounted /\ InfosCounted
  /\ BothOrNone /\ OwnTable

(***************************************************************************)
(* Counting                                                                *)
(***************************************************************************)
Bit(b) == IF b THEN 1 ELSE 0

\* A function that changes at one place only.
OneChange(S, old, new, u) == u \in S /\ \A z \in S \ {u} : new[z] = old[z]

\* What it takes at that place is counted once less, what it gets once more.
LEMMA OneMoved ==
  ASSUME NEW S, IsFiniteSet(S), NEW old, NEW new, NEW u, NEW v, OneChange(S, old, new, u)
  PROVE  Cardinality(At(S, new, v)) + Bit(old[u] = v)
           = Cardinality(At(S, old, v)) + Bit(new[u] = v)
<1>. DEFINE M == At(S, old, v)
            N == At(S, new, v)
<1>1. IsFiniteSet(M) /\ Cardinality(M) \in Nat
  <2>1. M \in SUBSET S
    BY DEF At
  <2>. QED
    BY <2>1, FS_Subset, FS_CardinalityType
<1>2. u \in S /\ \A z \in S \ {u} : new[z] = old[z]
  BY DEF OneChange
<1>3. /\ new[u] = v /\ old[u] # v => N = M \cup {u} /\ u \notin M
      /\ new[u] # v /\ old[u] = v => N = M \ {u} /\ u \in M
      /\ (new[u] = v <=> old[u] = v) => N = M
  BY <1>2 DEF At
<1>. HIDE DEF M, N
<1>4. CASE new[u] = v /\ old[u] # v
  <2>1. N = M \cup {u} /\ u \notin M
    BY <1>3, <1>4
  <2>2. Cardinality(M \cup {u}) = Cardinality(M) + 1
    BY <1>1, <2>1, FS_AddElement
  <2>. QED
    BY <1>1, <1>4, <2>1, <2>2 DEF N, M, Bit
<1>5. CASE new[u] # v /\ old[u] = v
  <2>1. N = M \ {u} /\ u \in M
    BY <1>3, <1>5
  <2>2. Cardinality(M \ {u}) = Cardinality(M) - 1
    BY <1>1, <2>1, FS_RemoveElement
  <2>. QED
    BY <1>1, <1>5, <2>1, <2>2 DEF N, M, Bit
<1>6. CASE new[u] = v <=> old[u] = v
  BY <1>1, <1>3, <1>6 DEF N, M, Bit
<1>. QED
  BY <1>4, <1>5, <1>6

\* The places in all tables that hold a descriptor.
Everywhere(tables, o) == {q \in Tables \X F : tables[q[1]][q[2]] = o}

\* What is counted below is finite.
LEMMA Finite ==
  /\ IsFiniteSet(F) /\ IsFiniteSet(Tables \X F)
  /\ \A tab, o : IsFiniteSet(At(F, tab, o)) /\ Cardinality(At(F, tab, o)) \in Nat
  /\ \A dirs, o : IsFiniteSet(At(FsInfos, dirs, o)) /\ Cardinality(At(FsInfos, dirs, o)) \in Nat
  /\ \A f, v : IsFiniteSet(At(Tasks, f, v)) /\ Cardinality(At(Tasks, f, v)) \in 0 .. Cardinality(Tasks)
  /\ \A tables, o : /\ IsFiniteSet(Everywhere(tables, o))
                    /\ Cardinality(Everywhere(tables, o)) \in Nat
  /\ Cardinality(Tasks) \in Nat
<1>1. IsFiniteSet(F)
  BY FdTablesAssumption, FS_Interval DEF F
<1>2. IsFiniteSet(Tables \X F)
  BY <1>1, FdTablesAssumption, FS_Product
<1>3. \A S, f, v : IsFiniteSet(S) => /\ IsFiniteSet(At(S, f, v)) /\ Cardinality(At(S, f, v)) \in Nat
                                     /\ Cardinality(At(S, f, v)) <= Cardinality(S)
  <2>. SUFFICES ASSUME NEW S, NEW f, NEW v, IsFiniteSet(S)
                PROVE  /\ IsFiniteSet(At(S, f, v)) /\ Cardinality(At(S, f, v)) \in Nat
                       /\ Cardinality(At(S, f, v)) <= Cardinality(S)
    OBVIOUS
  <2>1. At(S, f, v) \in SUBSET S
    BY DEF At
  <2>. QED
    BY <2>1, FS_Subset, FS_CardinalityType
<1>4. \A tables, o : /\ IsFiniteSet(Everywhere(tables, o))
                     /\ Cardinality(Everywhere(tables, o)) \in Nat
  <2>. SUFFICES ASSUME NEW tables, NEW o
                PROVE  /\ IsFiniteSet(Everywhere(tables, o))
                       /\ Cardinality(Everywhere(tables, o)) \in Nat
    OBVIOUS
  <2>1. Everywhere(tables, o) \in SUBSET (Tables \X F)
    BY DEF Everywhere
  <2>. QED
    BY <1>2, <2>1, FS_Subset, FS_CardinalityType
<1>5. Cardinality(Tasks) \in Nat
  BY FdTablesAssumption, FS_CardinalityType
<1>. QED
  BY <1>1, <1>2, <1>3, <1>4, <1>5, FdTablesAssumption

\* The slots of one table, as places in all of them.
LEMMA OneColumn ==
  ASSUME NEW T, NEW P, IsFiniteSet(P)
  PROVE  IsFiniteSet({T} \X P) /\ Cardinality({T} \X P) = Cardinality(P)
<1>1. IsFiniteSet({T}) /\ Cardinality({T}) = 1
  BY FS_Singleton
<1>2. IsFiniteSet({T} \X P) /\ Cardinality({T} \X P) = Cardinality({T}) * Cardinality(P)
  BY <1>1, FS_Product
<1>3. Cardinality(P) \in Nat
  BY FS_CardinalityType
<1>. QED
  BY <1>1, <1>2, <1>3

\* A table that changes changes the count by what it holds.
LEMMA OneTable ==
  ASSUME NEW old, NEW new, NEW T, NEW o, OneChange(Tables, old, new, T)
  PROVE  Cardinality(Everywhere(new, o)) + Cardinality(At(F, old[T], o))
           = Cardinality(Everywhere(old, o)) + Cardinality(At(F, new[T], o))
<1>. DEFINE Rest(tables) == {q \in (Tables \ {T}) \X F : tables[q[1]][q[2]] = o}
<1>0. T \in Tables
  BY DEF OneChange
<1>1. ASSUME NEW tables
      PROVE  /\ IsFiniteSet(Rest(tables)) /\ Cardinality(Rest(tables)) \in Nat
             /\ Cardinality(Everywhere(tables, o))
                  = Cardinality(Rest(tables)) + Cardinality(At(F, tables[T], o))
  <2>. DEFINE P == At(F, tables[T], o)
  <2>1. Everywhere(tables, o) = Rest(tables) \cup ({T} \X P)
    BY <1>0 DEF Everywhere, At
  <2>2. Rest(tables) \cap ({T} \X P) = {}
    OBVIOUS
  <2>3. IsFiniteSet(P) /\ Cardinality(P) \in Nat
    BY Finite
  <2>4. Rest(tables) \in SUBSET Everywhere(tables, o)
    BY DEF Everywhere
  <2>5. IsFiniteSet(Rest(tables)) /\ Cardinality(Rest(tables)) \in Nat
    BY <2>4, Finite, FS_Subset, FS_CardinalityType
  <2>. HIDE DEF P, Rest
  <2>6. IsFiniteSet({T} \X P) /\ Cardinality({T} \X P) = Cardinality(P)
    BY <2>3, OneColumn
  <2>7. Cardinality(Rest(tables) \cup ({T} \X P)) = Cardinality(Rest(tables)) + Cardinality(P)
    <3>1. Cardinality(Rest(tables) \cup ({T} \X P))
            = Cardinality(Rest(tables)) + Cardinality({T} \X P)
                - Cardinality(Rest(tables) \cap ({T} \X P))
      BY <2>5, <2>6, FS_Union
    <3>2. Cardinality(Rest(tables) \cap ({T} \X P)) = 0
      BY <2>2, FS_EmptySet
    <3>. QED
      BY <2>3, <2>5, <2>6, <3>1, <3>2
  <2>. QED
    BY <2>1, <2>3, <2>5, <2>7 DEF P
<1>2. Rest(new) = Rest(old)
  BY DEF OneChange
<1>3. Cardinality(At(F, old[T], o)) \in Nat /\ Cardinality(At(F, new[T], o)) \in Nat
  BY Finite
<1>. HIDE DEF Rest
<1>. QED
  BY <1>1, <1>2, <1>3

\* A slot that changes takes one reference and gives one.
LEMMA OneSlot ==
  \A old, new, T, f, o : OneChange(Tables, old, new, T) /\ OneChange(F, old[T], new[T], f)
    => Cardinality(Everywhere(new, o)) + Bit(old[T][f] = o)
         = Cardinality(Everywhere(old, o)) + Bit(new[T][f] = o)
<1>. SUFFICES ASSUME NEW old, NEW new, NEW T, NEW f, NEW o, OneChange(Tables, old, new, T),
                     OneChange(F, old[T], new[T], f)
              PROVE  Cardinality(Everywhere(new, o)) + Bit(old[T][f] = o)
                       = Cardinality(Everywhere(old, o)) + Bit(new[T][f] = o)
  OBVIOUS
<1>1. Cardinality(At(F, new[T], o)) + Bit(old[T][f] = o)
        = Cardinality(At(F, old[T], o)) + Bit(new[T][f] = o)
  BY Finite, OneMoved
<1>2. Cardinality(Everywhere(new, o)) + Cardinality(At(F, old[T], o))
        = Cardinality(Everywhere(old, o)) + Cardinality(At(F, new[T], o))
  BY OneTable
<1>. QED
  BY <1>1, <1>2, Finite DEF Bit

\* What holds a descriptor, slots and directories.
Total(tables, dirs, o) == Cardinality(Everywhere(tables, o)) + Cardinality(At(FsInfos, dirs, o))

\* Somebody holds it exactly when the total is not zero.
LEMMA HeldOnce ==
  ASSUME NEW tables, NEW dirs, NEW o
  PROVE  /\ Total(tables, dirs, o) \in Nat
         /\ \A T \in Tables, f \in F : tables[T][f] = o => Total(tables, dirs, o) > 0
         /\ \A i \in FsInfos : dirs[i] = o => Total(tables, dirs, o) > 0
         /\ \A T \in Tables : Cardinality(At(F, tables[T], o)) <= Cardinality(Everywhere(tables, o))
<1>1. /\ Cardinality(Everywhere(tables, o)) \in Nat /\ IsFiniteSet(Everywhere(tables, o))
      /\ Cardinality(At(FsInfos, dirs, o)) \in Nat /\ IsFiniteSet(At(FsInfos, dirs, o))
  BY Finite
<1>2. ASSUME NEW T \in Tables, NEW f \in F, tables[T][f] = o
      PROVE  Cardinality(Everywhere(tables, o)) > 0
  <2>1. <<T, f>> \in Everywhere(tables, o)
    BY <1>2 DEF Everywhere
  <2>2. Cardinality(Everywhere(tables, o)) # 0
    BY <1>1, <2>1, FS_EmptySet
  <2>. QED
    BY <1>1, <2>2
<1>3. ASSUME NEW i \in FsInfos, dirs[i] = o
      PROVE  Cardinality(At(FsInfos, dirs, o)) > 0
  <2>1. i \in At(FsInfos, dirs, o)
    BY <1>3 DEF At
  <2>2. Cardinality(At(FsInfos, dirs, o)) # 0
    BY <1>1, <2>1, FS_EmptySet
  <2>. QED
    BY <1>1, <2>2
<1>4. ASSUME NEW T \in Tables
      PROVE  Cardinality(At(F, tables[T], o)) <= Cardinality(Everywhere(tables, o))
  <2>1. IsFiniteSet(At(F, tables[T], o))
    BY Finite
  <2>2. Cardinality({T} \X At(F, tables[T], o)) = Cardinality(At(F, tables[T], o))
    BY <2>1, OneColumn
  <2>3. {T} \X At(F, tables[T], o) \in SUBSET Everywhere(tables, o)
    BY DEF At, Everywhere
  <2>. QED
    BY <1>1, <2>2, <2>3, FS_Subset
<1>. QED
  BY <1>1, <1>2, <1>3, <1>4 DEF Total

(***************************************************************************)
(* Counts that stay exact                                                  *)
(***************************************************************************)
Exact ==
  \A o \in Fds : /\ count[o] = Total(files, pwd, o)
                 /\ o \in live <=> Total(files, pwd, o) > 0

\* While nothing odd has come up, DescriptorsCounted says just this.
LEMMA ExactIsCounted ==
  /\ Inv /\ ~Broken => Exact
  /\ Exact' => DescriptorsCounted'
  /\ Broken' /\ (\A o \in Fds : /\ count'[o] >= Total(files', pwd', o)
                                /\ Total(files', pwd', o) > 0 => o \in live')
       => DescriptorsCounted'
<1>1. \A o : /\ Holders(o) = Everywhere(files, o) /\ Dirs(o) = At(FsInfos, pwd, o)
             /\ Holders(o)' = Everywhere(files', o) /\ Dirs(o)' = At(FsInfos, pwd', o)
  BY DEF Holders, Everywhere, Dirs, At
<1>2. Inv /\ ~Broken => Exact
  BY <1>1 DEF Inv, DescriptorsSound, DescriptorsCounted, Exact, Total
<1>3. Exact' => DescriptorsCounted'
  <2>. SUFFICES ASSUME Exact' PROVE DescriptorsCounted'
    OBVIOUS
  <2>1. \A o \in Fds : Total(files', pwd', o) \in Nat
    BY HeldOnce
  <2>2. \A o \in Fds : /\ count'[o] = Total(files', pwd', o) /\ count'[o] \in Nat
                       /\ o \in live' <=> Total(files', pwd', o) > 0
    BY <2>1 DEF Exact
  <2>3. \A o : Total(files', pwd', o) = Cardinality(Holders(o)') + Cardinality(Dirs(o)')
    BY <1>1 DEF Total
  <2>4. SUFFICES ASSUME NEW o \in Fds
                 PROVE  /\ count'[o] = Total(files', pwd', o) /\ (o \in live' <=> Total(files', pwd', o) > 0)
                        /\ count'[o] >= Total(files', pwd', o)
    BY <2>3 DEF DescriptorsCounted
  <2>. QED
    BY <2>2
<1>4. Broken' /\ (\A o \in Fds : /\ count'[o] >= Total(files', pwd', o)
                                 /\ Total(files', pwd', o) > 0 => o \in live')
        => DescriptorsCounted'
  BY <1>1 DEF DescriptorsCounted, Total
<1>. QED
  BY <1>2, <1>3, <1>4

\* fd_close and fd_retain: what is dropped and what is gained is counted, and
\* exactly what nobody holds any more is freed, under whoever uses it.
LEMMA CountsDo ==
  ASSUME TypeOK, Exact, NEW n \in [Fds -> Nat], NEW gained \in Fds \cup {None}, Counts(n, gained),
         \A o \in Fds : Total(files', pwd', o) + n[o] = Total(files, pwd, o) + Bit(o = gained)
  PROVE  /\ Exact' /\ live' \subseteq Fds /\ count' \in [Fds -> Nat] /\ stale' \subseteq Tasks
         /\ \A w \in Tasks : w \in stale' =>
              w \in stale \/ (using[w] \in Fds /\ Total(files', pwd', using[w]) = 0)
<1>. DEFINE new == [o \in Fds |-> count[o] - n[o] + IF o = gained THEN 1 ELSE 0]
            freed == {o \in Fds : new[o] = 0 /\ n[o] > 0}
<1>1. /\ count' = new /\ live' = (live \cup ({gained} \ {None})) \ freed
      /\ stale' = stale \cup {t \in Tasks : using[t] \in freed}
  BY DEF Counts
<1>2. \A o \in Fds : Total(files, pwd, o) \in Nat /\ Total(files', pwd', o) \in Nat
  BY HeldOnce
<1>3. \A o \in Fds : new[o] = Total(files', pwd', o)
  <2>. SUFFICES ASSUME NEW o \in Fds PROVE new[o] = Total(files', pwd', o)
    OBVIOUS
  <2>1. count[o] = Total(files, pwd, o) /\ n[o] \in Nat
    BY DEF Exact
  <2>2. new[o] = count[o] - n[o] + Bit(o = gained)
    BY DEF Bit
  <2>. HIDE DEF new
  <2>. QED
    BY <1>2, <2>1, <2>2 DEF Bit
<1>4. \A o \in Fds : o \in live' <=> Total(files', pwd', o) > 0
  <2>. SUFFICES ASSUME NEW o \in Fds PROVE o \in live' <=> Total(files', pwd', o) > 0
    OBVIOUS
  <2>1. /\ o \in live <=> Total(files, pwd, o) > 0
        /\ Total(files', pwd', o) + n[o] = Total(files, pwd, o) + Bit(o = gained)
        /\ o \in live' <=> (o \in live \/ o = gained) /\ ~(new[o] = 0 /\ n[o] > 0)
        /\ n[o] \in Nat /\ new[o] = Total(files', pwd', o)
    BY <1>1, <1>3, FdTablesAssumption DEF Exact
  <2>. HIDE DEF new, freed
  <2>. QED
    BY <1>2, <2>1 DEF Bit
<1>5. live' \subseteq Fds /\ stale' \subseteq Tasks
  BY <1>1 DEF TypeOK
<1>6. count' \in [Fds -> Nat]
  <2>1. \A o \in Fds : count'[o] \in Nat
    BY <1>1, <1>2, <1>3
  <2>. QED
    BY <1>1, <2>1
<1>7. \A o \in freed : o \in Fds /\ Total(files', pwd', o) = 0
  BY <1>3
<1>. HIDE DEF new, freed
<1>. QED
  BY <1>1, <1>3, <1>4, <1>5, <1>6, <1>7 DEF Exact

\* A table that one task has is not another's.
LEMMA Alone ==
  ASSUME TablesCounted, NEW w \in Tasks, NEW u \in Tasks, w # u, table[w] \in Tables,
         tableRefs[table[w]] = 1
  PROVE  table[u] # table[w]
<1>. DEFINE M == At(Tasks, table, table[w])
<1>1. Cardinality(M) = 1 /\ IsFiniteSet(M) /\ w \in M
  BY Finite DEF TablesCounted, At
<1>2. \E z : M = {z}
  BY <1>1, FS_Singleton
<1>3. M = {w}
  BY <1>1, <1>2
<1>. QED
  BY <1>3 DEF At

\* A table or a directory that somebody has is counted.
LEMMA HasRefs ==
  ASSUME TypeOK, TablesCounted, InfosCounted, BothOrNone, NEW t \in Tasks, table[t] # None
  PROVE  /\ table[t] \in Tables /\ fs[t] \in FsInfos
         /\ tableRefs[table[t]] \in Nat \ {0} /\ fsRefs[fs[t]] \in Nat \ {0}
<1>1. table[t] \in Tables /\ fs[t] \in FsInfos
  BY DEF TypeOK, BothOrNone
<1>2. t \in At(Tasks, table, table[t]) /\ t \in At(Tasks, fs, fs[t])
  BY DEF At
<1>3. Cardinality(At(Tasks, table, table[t])) # 0 /\ Cardinality(At(Tasks, fs, fs[t])) # 0
  BY <1>2, Finite, FS_EmptySet
<1>. QED
  BY <1>1, <1>3, Finite DEF TablesCounted, InfosCounted

\* What a step leaves that changes one task's own table and directory only.
LEMMA OthersKeep ==
  ASSUME Inv, NEW t \in Tasks, Runs(t),
         UNCHANGED <<tableRefs, fsRefs, table, fs, using, shared>>,
         \A X \in Tables : X # table[t] => files'[X] = files[X] /\ size'[X] = size[X],
         \A i \in FsInfos : i # fs[t] => pwd'[i] = pwd[i]
  PROVE  TablesCounted' /\ InfosCounted' /\ BothOrNone' /\ OwnTable'
<1>0. TypeOK /\ TablesCounted /\ InfosCounted /\ BothOrNone /\ OwnTable
  BY DEF Inv, DescriptorsSound
<1>1. table[t] \in Tables /\ tableRefs[table[t]] # 0 /\ fsRefs[fs[t]] # 0
  BY <1>0, HasRefs DEF Runs
<1>2. TablesCounted'
  BY <1>0, <1>1 DEF TablesCounted
<1>3. InfosCounted'
  BY <1>0, <1>1 DEF InfosCounted
<1>4. BothOrNone'
  BY <1>0 DEF BothOrNone
<1>5. OwnTable'
  <2>. SUFFICES ASSUME NEW w \in Tasks, using[w] # None, w \notin shared
                PROVE  /\ table[w] \in Tables /\ tableRefs[table[w]] = 1
                       /\ \E f \in F : files'[table[w]][f] = using[w]
    BY DEF OwnTable
  <2>1. /\ table[w] \in Tables /\ tableRefs[table[w]] = 1
        /\ \E f \in F : files[table[w]][f] = using[w]
    BY <1>0 DEF OwnTable
  <2>2. w # t
    BY DEF Runs
  <2>3. table[t] # table[w]
    BY <1>0, <2>1, <2>2, Alone
  <2>. QED
    BY <2>1, <2>3
<1>. QED
  BY <1>2, <1>3, <1>4, <1>5

\* A call that goes on with a freed descriptor shares its table.
LEMMA StaleShared ==
  ASSUME Inv, OwnTable', UNCHANGED <<using, shared>>,
         \A w \in Tasks : w \in stale' =>
              w \in stale \/ (using[w] \in Fds /\ Total(files', pwd', using[w]) = 0),
         stale' \subseteq Tasks
  PROVE  UseAfterCloseNeedsSharing'
<1>. SUFFICES ASSUME NEW w \in Tasks, w \in stale', w \notin shared PROVE FALSE
  BY DEF UseAfterCloseNeedsSharing
<1>1. using[w] \in Fds /\ Total(files', pwd', using[w]) = 0
  BY DEF Inv, DescriptorsSound, UseAfterCloseNeedsSharing
<1>2. \E T \in Tables, f \in F : files'[T][f] = using[w]
  BY <1>1, FdTablesAssumption DEF OwnTable
<1>. QED
  BY <1>1, <1>2, HeldOnce

(***************************************************************************)
(* The calls on one table                                                  *)
(***************************************************************************)
TableTypes ==
  /\ files \in [Tables -> [F -> Fds \cup {None}]] /\ size \in [Tables -> 0 .. Slots]
  /\ cloexec \in [Tables -> SUBSET F] /\ pwd \in [FsInfos -> Fds \cup {None}]

\* A call of t that changes its own table and directory, counts what it drops
\* and gains, and leaves open slots below the size and marks on open ones.
OwnChange(t) ==
  /\ UNCHANGED <<tableRefs, fsRefs, table, fs, using, shared>>
  /\ \A X \in Tables : X # table[t] => files'[X] = files[X] /\ size'[X] = size[X]
  /\ \A i \in FsInfos : i # fs[t] => pwd'[i] = pwd[i]
  /\ TableTypes' /\ InsideSize' /\ MarksOnOpenSlots' /\ limit' \in 1 .. Slots

\* A call that counts what it drops and gains keeps the invariant.
LEMMA CallKeeps ==
  ASSUME Inv, NEW t \in Tasks, Runs(t), OwnChange(t),
         NEW n \in [Fds -> Nat], NEW gained \in Fds \cup {None}, Counts(n, gained),
         \A o \in Fds : Total(files', pwd', o) + n[o] = Total(files, pwd, o) + Bit(o = gained)
  PROVE  Inv'
<1>1. TypeOK /\ Exact
  BY ExactIsCounted DEF Inv, DescriptorsSound, Runs
<1>2. /\ Exact' /\ live' \subseteq Fds /\ count' \in [Fds -> Nat] /\ stale' \subseteq Tasks
      /\ \A w \in Tasks : w \in stale' =>
           w \in stale \/ (using[w] \in Fds /\ Total(files', pwd', using[w]) = 0)
  BY <1>1, CountsDo
<1>3. TablesCounted' /\ InfosCounted' /\ BothOrNone' /\ OwnTable'
  BY OthersKeep DEF OwnChange
<1>4. UseAfterCloseNeedsSharing'
  BY <1>2, <1>3, StaleShared DEF OwnChange
<1>5. TypeOK'
  BY <1>1, <1>2 DEF OwnChange, TableTypes, TypeOK
<1>6. DescriptorsCounted'
  BY <1>2, ExactIsCounted
<1>. QED
  BY <1>3, <1>4, <1>5, <1>6 DEF Inv, DescriptorsSound, OwnChange

\* What holds of a task that makes a call.
LEMMA CallFacts ==
  ASSUME Inv, NEW t \in Tasks, Runs(t)
  PROVE  /\ TypeOK /\ Exact /\ InsideSize /\ MarksOnOpenSlots /\ TableTypes
         /\ table[t] \in Tables /\ fs[t] \in FsInfos /\ ~Broken
         /\ \A T \in Tables : cloexec[T] \subseteq Open(T)
<1>1. TypeOK /\ Exact /\ ~Broken /\ table[t] # None
  BY ExactIsCounted DEF Inv, DescriptorsSound, Runs
<1>2. table[t] \in Tables /\ fs[t] \in FsInfos
  BY <1>1, HasRefs DEF Inv
<1>. QED
  BY <1>1, <1>2 DEF Inv, DescriptorsSound, TypeOK, TableTypes, MarksOnOpenSlots

\* Every set of slots has a least one: what is before the slots of a set of
\* slots is well-founded by strict inclusion.
LEMMA LeastSlot ==
  ASSUME NEW S \in SUBSET F, S # {}
  PROVE  Min(S) \in S
<1>. DEFINE Below(f) == {g \in S : g < f}
            All == {Below(f) : f \in S}
<1>1. IsWellFoundedOn(StrictSubsetOrdering(F), FiniteSubsetsOf(F))
  BY FS_StrictSubsetOrderingWellFounded
<1>2. All \subseteq FiniteSubsetsOf(F)
  <2>1. \A f \in S : Below(f) \in SUBSET F
    OBVIOUS
  <2>2. FiniteSubsetsOf(F) = SUBSET F
    BY Finite, FS_FiniteSubsetsOfFinite
  <2>. QED
    BY <2>1, <2>2
<1>3. All # {}
  OBVIOUS
<1>4. \E A \in All : \A B \in All : ~(<<B, A>> \in StrictSubsetOrdering(F))
  BY <1>1, <1>2, <1>3, WFMin
<1>5. PICK f \in S : \A g \in S : ~(<<Below(g), Below(f)>> \in StrictSubsetOrdering(F))
  BY <1>4
<1>6. \A g \in S : f <= g
  <2>. SUFFICES ASSUME NEW g \in S, g < f PROVE FALSE
    BY FdTablesAssumption DEF F
  <2>0. S \subseteq Int
    BY FdTablesAssumption DEF F
  <2>1. Below(g) \subseteq Below(f) /\ g \in Below(f) /\ g \notin Below(g)
    <3>1. f \in Int /\ g \in Int /\ g < f /\ ~(g < g)
      BY <2>0
    <3>2. ASSUME NEW h \in Below(g) PROVE h \in Below(f)
      BY <2>0, <3>1, <3>2
    <3>. QED
      BY <3>1, <3>2
  <2>2. <<Below(g), Below(f)>> \in (SUBSET F) \X (SUBSET F)
    OBVIOUS
  <2>. QED
    BY <2>1, <2>2, <1>5 DEF StrictSubsetOrdering
<1>. QED
  BY <1>6 DEF Min

\* f_install_start: a slot there is or may be, and one in use only if the limit
\* is below the size of the table.
LEMMA SlotFacts ==
  ASSUME TypeOK, InsideSize, NEW T \in Tables, NEW start \in F
  PROVE  SlotFor(T, start) # -1 =>
           /\ SlotFor(T, start) \in F
           /\ files[T][SlotFor(T, start)] # None => limit < size[T]
<1>. DEFINE top == IF limit < size[T] THEN limit ELSE size[T]
            free == {f \in start .. top - 1 : files[T][f] = None}
            slot == IF free # {} THEN Min(free) ELSE IF start > top THEN start ELSE top
<1>1. /\ SlotFor(T, start) = IF slot < size[T] \/ slot < limit THEN slot ELSE -1
      /\ start \in 0 .. Slots - 1 /\ Slots \in Nat \ {0} /\ F = 0 .. Slots - 1
  BY FdTablesAssumption DEF SlotFor, F
<1>2. size[T] \in 0 .. Slots /\ limit \in 1 .. Slots /\ \A f \in F : files[T][f] # None => f < size[T]
  BY DEF TypeOK, InsideSize
<1>3. top \in 0 .. Slots /\ top <= size[T] /\ (limit >= size[T] => top = size[T])
  BY <1>1, <1>2
<1>. HIDE DEF top
<1>4. CASE free # {}
  <2>1. free \in SUBSET F
    BY <1>1, <1>3
  <2>2. slot \in free
    BY <1>4, <2>1, LeastSlot
  <2>. QED
    BY <1>1, <2>1, <2>2
<1>5. CASE free = {}
  <2>1. slot = IF start > top THEN start ELSE top
    BY <1>5
  <2>2. slot \in Nat /\ (limit >= size[T] => slot >= size[T])
    BY <1>1, <1>3, <2>1, <1>2
  <2>. HIDE DEF slot, free
  <2>. QED
    BY <1>1, <1>2, <2>2
<1>. QED
  BY <1>4, <1>5

\* A slot that is stored to.
SlotStored(T, f, v) ==
  OneChange(Tables, files, files', T) /\ OneChange(F, files[T], files'[T], f) /\ files'[T][f] = v

LEMMA SlotTotals ==
  \A T, f, v, o : SlotStored(T, f, v) /\ pwd' = pwd
    => Total(files', pwd', o) + Bit(files[T][f] = o) = Total(files, pwd, o) + Bit(v = o)
<1>. SUFFICES ASSUME NEW T, NEW f, NEW v, NEW o, SlotStored(T, f, v), pwd' = pwd
              PROVE  Total(files', pwd', o) + Bit(files[T][f] = o) = Total(files, pwd, o) + Bit(v = o)
  OBVIOUS
<1>1. Cardinality(Everywhere(files', o)) + Bit(files[T][f] = o)
        = Cardinality(Everywhere(files, o)) + Bit(files'[T][f] = o)
  BY OneSlot DEF SlotStored
<1>. QED
  BY <1>1, Finite DEF Total, Bit, SlotStored

\* The references of one descriptor.
LEMMA OneIsBit ==
  /\ Nothing \in [Fds -> Nat] /\ \A x \in Fds : Nothing[x] = 0
  /\ \A o : One(o) \in [Fds -> Nat] /\ \A x \in Fds : One(o)[x] = Bit(x = o)
BY DEF Nothing, One, Bit

\* Nothing is freed when a reference is gained only.
LEMMA OnlyGained ==
  ASSUME TypeOK, Exact, NEW o \in Fds, Counts(Nothing, o)
  PROVE  /\ live' = live \cup {o} /\ stale' = stale
         /\ count' \in [Fds -> Nat] /\ \A x \in Fds : count'[x] = Total(files, pwd, x) + Bit(x = o)
<1>. DEFINE new == [x \in Fds |-> count[x] - Nothing[x] + IF x = o THEN 1 ELSE 0]
            freed == {x \in Fds : new[x] = 0 /\ Nothing[x] > 0}
<1>1. /\ count' = new /\ live' = (live \cup ({o} \ {None})) \ freed
      /\ stale' = stale \cup {t \in Tasks : using[t] \in freed}
  BY DEF Counts
<1>2. freed = {}
  BY DEF Nothing
<1>3. \A x \in Fds : count[x] = Total(files, pwd, x) /\ count[x] \in Nat
  BY HeldOnce DEF Exact
<1>4. \A x \in Fds : new[x] = count[x] + Bit(x = o)
  BY <1>3 DEF Nothing, Bit
<1>. HIDE DEF new, freed
<1>5. \A x \in Fds : count'[x] = Total(files, pwd, x) + Bit(x = o)
  BY <1>1, <1>3, <1>4
<1>6. \A x \in Fds : count'[x] \in Nat
  BY <1>1, <1>3, <1>4 DEF Bit
<1>7. count' \in [Fds -> Nat]
  BY <1>1, <1>6 DEF new
<1>. QED
  BY <1>1, <1>2, <1>5, <1>7, FdTablesAssumption

\* f_install: in a free slot, or the reference is dropped again, or over another
\* descriptor, which is lost, when the limit is below the size of the table.
LEMMA InstallKeeps ==
  ASSUME Inv, NEW t \in Tasks, Runs(t), NEW o \in Fds, NEW start \in F, NEW mark \in BOOLEAN,
         Install(table[t], o, start, mark), UNCHANGED <<fsVars, table, fs, limit, callVars>>
  PROVE  Inv' /\ (odd' = "installed over another" => limit < size[table[t]])
<1>. DEFINE T == table[t]
            f == SlotFor(T, start)
<1>0. /\ TypeOK /\ Exact /\ InsideSize /\ TableTypes /\ T \in Tables /\ fs[t] \in FsInfos /\ ~Broken
      /\ \A X \in Tables : cloexec[X] \subseteq Open(X)
  BY CallFacts
<1>1. UNCHANGED <<pwd, fsRefs, table, fs, limit, using, shared>>
  BY DEF fsVars, callVars
<1>2. CASE f = -1
  <2>1. Counts(One(o), o) /\ UNCHANGED <<files, size, cloexec, tableRefs, odd>>
    BY <1>2 DEF Install, tableVars
  <2>2. OwnChange(t)
    BY <1>0, <1>1, <2>1 DEF OwnChange, TableTypes, InsideSize, MarksOnOpenSlots,
             Open, Broken, TypeOK
  <2>3. \A x \in Fds : Total(files', pwd', x) + One(o)[x] = Total(files, pwd, x) + Bit(x = o)
    BY <1>1, <2>1, OneIsBit
  <2>4. Inv'
    BY <2>1, <2>2, <2>3, OneIsBit, CallKeeps
  <2>. QED
    BY <2>1, <2>4, <1>0 DEF Broken
<1>3. CASE f # -1
  <2>0. f \in F /\ (files[T][f] # None => limit < size[T])
    BY <1>0, <1>3, SlotFacts
  <2>1. /\ Counts(Nothing, o)
        /\ files' = [files EXCEPT ![T][f] = o]
        /\ size' = [size EXCEPT ![T] = Larger(@, f + 1)]
        /\ cloexec' = [cloexec EXCEPT ![T] = IF mark THEN @ \cup {f} ELSE @ \ {f}]
        /\ odd' = IF files[T][f] # None THEN "installed over another" ELSE odd
        /\ tableRefs' = tableRefs
    BY <1>3 DEF Install
  <2>. HIDE DEF T, f
  <2>2. /\ files' \in [Tables -> [F -> Fds \cup {None}]]
        /\ files'[T][f] = o /\ \A g \in F \ {f} : files'[T][g] = files[T][g]
        /\ \A X \in Tables : X # T => files'[X] = files[X]
    BY <1>0, <2>0, <2>1 DEF TableTypes
  <2>3. /\ size' \in [Tables -> 0 .. Slots] /\ size'[T] >= size[T] /\ f < size'[T]
        /\ \A X \in Tables : X # T => size'[X] = size[X]
    <3>1. Larger(size[T], f + 1) \in 0 .. Slots /\ Larger(size[T], f + 1) >= size[T]
          /\ f < Larger(size[T], f + 1)
      BY <1>0, <2>0, FdTablesAssumption DEF TableTypes, Larger, F
    <3>. QED
      BY <1>0, <2>1, <3>1 DEF TableTypes
  <2>4. /\ cloexec' \in [Tables -> SUBSET F]
        /\ \A X \in Tables : cloexec'[X] \subseteq cloexec[X] \cup (IF X = T THEN {f} ELSE {})
    BY <1>0, <2>0, <2>1 DEF TableTypes
  <2>5. InsideSize'
    <3>. SUFFICES ASSUME NEW X \in Tables, NEW g \in F, files'[X][g] # None PROVE g < size'[X]
      BY DEF InsideSize
    <3>1. files[X][g] # None => g < size[X]
      BY <1>0 DEF InsideSize
    <3>2. size[X] \in Int /\ size'[X] \in Int /\ g \in Int
      BY <1>0, <2>3, FdTablesAssumption DEF TableTypes, F
    <3>. QED
      BY <2>2, <2>3, <3>1, <3>2
  <2>6. \A X \in Tables : cloexec'[X] \subseteq Open(X)'
    BY <1>0, <2>0, <2>2, <2>4, FdTablesAssumption DEF Open
  <2>7. OwnChange(t)
    BY <1>0, <1>1, <2>1, <2>2, <2>3, <2>4, <2>5, <2>6
    DEF OwnChange, TableTypes, MarksOnOpenSlots, TypeOK, T
  <2>8. \A x : Total(files', pwd', x) + Bit(files[T][f] = x) = Total(files, pwd, x) + Bit(o = x)
    <3>1. SlotStored(T, f, o)
      BY <1>0, <2>0, <2>2 DEF SlotStored, OneChange
    <3>. QED
      BY <1>1, <3>1, SlotTotals
  <2>9. CASE files[T][f] = None
    <3>1. \A x \in Fds : Total(files', pwd', x) + Nothing[x] = Total(files, pwd, x) + Bit(x = o)
      <4>. SUFFICES ASSUME NEW x \in Fds
                    PROVE  Total(files', pwd', x) + Nothing[x] = Total(files, pwd, x) + Bit(x = o)
        OBVIOUS
      <4>1. Bit(files[T][f] = x) = 0 /\ Bit(o = x) = Bit(x = o) /\ Nothing[x] = 0
        BY <2>9, FdTablesAssumption, OneIsBit DEF Bit
      <4>. QED
        BY <4>1, <2>8
    <3>2. Inv'
      <4>1. Nothing \in [Fds -> Nat] /\ o \in Fds \cup {None}
        BY OneIsBit
      <4>. QED
        BY <2>1, <2>7, <3>1, <4>1, CallKeeps
    <3>. QED
      BY <1>0, <2>1, <2>9, <3>2 DEF Broken
  <2>10. CASE files[T][f] # None
    <3>1. /\ live' = live \cup {o} /\ stale' = stale /\ count' \in [Fds -> Nat]
          /\ \A x \in Fds : count'[x] = Total(files, pwd, x) + Bit(x = o)
      BY <1>0, <2>1, OnlyGained
    <3>2. Broken' /\ odd' = "installed over another"
      BY <2>1, <2>10 DEF Broken
    <3>3. \A x \in Fds : /\ count'[x] >= Total(files', pwd', x)
                         /\ Total(files', pwd', x) > 0 => x \in live'
      <4>. SUFFICES ASSUME NEW x \in Fds
                    PROVE  /\ count'[x] >= Total(files', pwd', x)
                           /\ Total(files', pwd', x) > 0 => x \in live'
        OBVIOUS
      <4>1. /\ Total(files', pwd', x) + Bit(files[T][f] = x) = Total(files, pwd, x) + Bit(x = o)
            /\ Total(files', pwd', x) \in Nat /\ Total(files, pwd, x) \in Nat
        BY <2>8, HeldOnce DEF Bit
      <4>2. x \in live <=> Total(files, pwd, x) > 0
        BY <1>0 DEF Exact
      <4>. QED
        BY <3>1, <4>1, <4>2 DEF Bit
    <3>4. DescriptorsCounted'
      BY <3>2, <3>3, ExactIsCounted
    <3>5. TablesCounted' /\ InfosCounted' /\ BothOrNone' /\ OwnTable'
      BY <2>7, OthersKeep DEF OwnChange
    <3>6. UseAfterCloseNeedsSharing'
      BY <1>1, <3>1 DEF Inv, DescriptorsSound, UseAfterCloseNeedsSharing
    <3>7. TypeOK'
      BY <1>0, <1>1, <2>7, <3>1 DEF OwnChange, TableTypes, TypeOK
    <3>. QED
      BY <2>0, <2>10, <3>4, <3>5, <3>6, <3>7, <2>7 DEF Inv, DescriptorsSound, OwnChange, T
  <2>. QED
    BY <2>9, <2>10 DEF T
<1>. QED
  BY <1>2, <1>3

\* f_close.
LEMMA CloseKeeps ==
  ASSUME Inv, NEW t \in Tasks, NEW f \in F, Close(t, f)
  PROVE  Inv' /\ odd' = odd
<1>. DEFINE T == table[t]
            o == files[T][f]
<1>0. /\ Runs(t) /\ o # None /\ Counts(One(o), None)
      /\ files' = [files EXCEPT ![T][f] = None]
      /\ cloexec' = [cloexec EXCEPT ![T] = @ \ {f}]
      /\ UNCHANGED <<size, tableRefs, pwd, fsRefs, table, fs, limit, using, shared, odd>>
  BY DEF Close, fsVars, callVars
<1>1. /\ TypeOK /\ InsideSize /\ TableTypes /\ T \in Tables
      /\ \A X \in Tables : cloexec[X] \subseteq Open(X)
  BY <1>0, CallFacts
<1>. HIDE DEF T
<1>2. /\ files' \in [Tables -> [F -> Fds \cup {None}]]
      /\ files'[T][f] = None /\ \A g \in F \ {f} : files'[T][g] = files[T][g]
      /\ \A X \in Tables : X # T => files'[X] = files[X]
  BY <1>0, <1>1 DEF TableTypes
<1>3. /\ cloexec' \in [Tables -> SUBSET F]
      /\ \A X \in Tables : cloexec'[X] = IF X = T THEN cloexec[X] \ {f} ELSE cloexec[X]
  BY <1>0, <1>1 DEF TableTypes
<1>4. InsideSize'
  BY <1>0, <1>1, <1>2 DEF InsideSize
<1>5. \A X \in Tables : cloexec'[X] \subseteq Open(X)'
  BY <1>1, <1>2, <1>3 DEF Open
<1>6. OwnChange(t)
  BY <1>0, <1>1, <1>2, <1>3, <1>4, <1>5
  DEF OwnChange, TableTypes, MarksOnOpenSlots, TypeOK, T
<1>7. SlotStored(T, f, None)
  BY <1>1, <1>2 DEF SlotStored, OneChange
<1>. HIDE DEF o
<1>8. \A x \in Fds : Total(files', pwd', x) + One(o)[x] = Total(files, pwd, x) + Bit(x = None)
  <2>. SUFFICES ASSUME NEW x \in Fds
                PROVE  Total(files', pwd', x) + One(o)[x] = Total(files, pwd, x) + Bit(x = None)
    OBVIOUS
  <2>0. pwd' = pwd
    BY <1>0
  <2>1. Total(files', pwd', x) + Bit(o = x) = Total(files, pwd, x) + Bit(None = x)
    BY <2>0, <1>7, SlotTotals DEF o
  <2>. QED
    BY <2>1, OneIsBit DEF Bit
<1>9. One(o) \in [Fds -> Nat] /\ None \in Fds \cup {None}
  BY OneIsBit
<1>. QED
  BY <1>0, <1>6, <1>8, <1>9, CallKeeps

\* sys_dup2.
LEMMA Dup2Keeps ==
  ASSUME Inv, NEW t \in Tasks, NEW f \in F, NEW newF \in F, Dup2(t, f, newF)
  PROVE  Inv' /\ odd' # "installed over another"
<1>. DEFINE T == table[t]
            o == files[T][f]
            old == files[T][newF]
            n == IF old = None THEN Nothing ELSE One(old)
<1>0. /\ Runs(t) /\ o # None /\ Counts(n, o)
      /\ files' = [files EXCEPT ![T][newF] = o]
      /\ size' = [size EXCEPT ![T] = Larger(@, newF + 1)]
      /\ cloexec' = IF old = None THEN cloexec ELSE [cloexec EXCEPT ![T] = @ \ {newF}]
      /\ odd' = IF newF = f /\ count[o] = 1 THEN "dup2 of the last reference" ELSE odd
      /\ UNCHANGED <<tableRefs, pwd, fsRefs, table, fs, limit, using, shared>>
  BY DEF Dup2, fsVars, callVars
<1>1. /\ TypeOK /\ InsideSize /\ TableTypes /\ T \in Tables /\ ~Broken
      /\ \A X \in Tables : cloexec[X] \subseteq Open(X)
  BY <1>0, CallFacts
<1>2. o \in Fds
  <2>1. o \in Fds \cup {None}
    BY <1>1 DEF TableTypes
  <2>. QED
    BY <1>0, <2>1
<1>. HIDE DEF T, o, old
<1>3. /\ files' \in [Tables -> [F -> Fds \cup {None}]]
      /\ files'[T][newF] = o /\ \A g \in F \ {newF} : files'[T][g] = files[T][g]
      /\ \A X \in Tables : X # T => files'[X] = files[X]
  BY <1>0, <1>1, <1>2 DEF TableTypes
<1>4. /\ size' \in [Tables -> 0 .. Slots] /\ size'[T] >= size[T] /\ newF < size'[T]
      /\ \A X \in Tables : X # T => size'[X] = size[X]
  <2>1. Larger(size[T], newF + 1) \in 0 .. Slots /\ Larger(size[T], newF + 1) >= size[T]
        /\ newF < Larger(size[T], newF + 1)
    BY <1>1, FdTablesAssumption DEF TableTypes, Larger, F
  <2>. QED
    BY <1>0, <1>1, <2>1 DEF TableTypes
<1>5. /\ cloexec' \in [Tables -> SUBSET F]
      /\ \A X \in Tables : cloexec'[X] \subseteq cloexec[X]
  BY <1>0, <1>1 DEF TableTypes
<1>6. InsideSize'
  <2>. SUFFICES ASSUME NEW X \in Tables, NEW g \in F, files'[X][g] # None PROVE g < size'[X]
    BY DEF InsideSize
  <2>1. files[X][g] # None => g < size[X]
    BY <1>1 DEF InsideSize
  <2>2. size[X] \in Int /\ size'[X] \in Int /\ g \in Int
    BY <1>1, <1>4, FdTablesAssumption DEF TableTypes, F
  <2>. QED
    BY <1>3, <1>4, <2>1, <2>2
<1>7. \A X \in Tables : cloexec'[X] \subseteq Open(X)'
  <2>1. o # None
    BY <1>0
  <2>2. \A X \in Tables : \A g \in F : files[X][g] # None => files'[X][g] # None
    BY <1>3, <2>1
  <2>. QED
    BY <1>1, <1>5, <2>2 DEF Open
<1>8. OwnChange(t)
  BY <1>0, <1>1, <1>3, <1>4, <1>5, <1>6, <1>7
  DEF OwnChange, TableTypes, MarksOnOpenSlots, TypeOK, T
<1>9. SlotStored(T, newF, o)
  BY <1>1, <1>3 DEF SlotStored, OneChange
<1>10. n \in [Fds -> Nat] /\ \A x \in Fds : n[x] = Bit(old = x)
  BY OneIsBit, FdTablesAssumption DEF Bit
<1>. HIDE DEF n
<1>11. \A x \in Fds : Total(files', pwd', x) + n[x] = Total(files, pwd, x) + Bit(x = o)
  <2>. SUFFICES ASSUME NEW x \in Fds
                PROVE  Total(files', pwd', x) + n[x] = Total(files, pwd, x) + Bit(x = o)
    OBVIOUS
  <2>0. pwd' = pwd
    BY <1>0
  <2>1. Total(files', pwd', x) + Bit(old = x) = Total(files, pwd, x) + Bit(o = x)
    BY <2>0, <1>9, SlotTotals DEF old
  <2>. QED
    BY <2>1, <1>10 DEF Bit
<1>12. Inv'
  <2>1. Runs(t) /\ o \in Fds \cup {None} /\ Counts(n, o) /\ n \in [Fds -> Nat]
    BY <1>0, <1>2, <1>10
  <2>. QED
    BY <2>1, <1>8, <1>11, CallKeeps
<1>. QED
  BY <1>0, <1>1, <1>12 DEF Broken

\* chdir and fchdir.
LEMMA ChdirKeeps ==
  ASSUME Inv, NEW t \in Tasks, Chdir(t)
  PROVE  Inv' /\ odd' = odd
<1>. DEFINE i == fs[t]
<1>0. Runs(t) /\ UNCHANGED <<files, size, cloexec, tableRefs, fsRefs, table, fs, limit, using,
                             shared, odd>>
  BY DEF Chdir, tableVars, callVars
<1>1. PICK o \in (Fds \ live) \cup {files[table[t]][f] : f \in Open(table[t])} :
         Counts(One(pwd[i]), o) /\ pwd' = [pwd EXCEPT ![i] = o]
  BY DEF Chdir
<1>2. /\ TypeOK /\ InsideSize /\ TableTypes /\ table[t] \in Tables /\ i \in FsInfos
      /\ \A X \in Tables : cloexec[X] \subseteq Open(X)
  BY <1>0, CallFacts
<1>3. o \in Fds
  BY <1>2 DEF TableTypes, Open
<1>. HIDE DEF i
<1>4. /\ pwd' \in [FsInfos -> Fds \cup {None}] /\ pwd'[i] = o
      /\ \A j \in FsInfos : j # i => pwd'[j] = pwd[j]
  BY <1>1, <1>2, <1>3 DEF TableTypes
<1>5. OwnChange(t)
  BY <1>0, <1>2, <1>4 DEF OwnChange, TableTypes, InsideSize, MarksOnOpenSlots, Open, TypeOK, i
<1>6. \A x \in Fds : Total(files', pwd', x) + One(pwd[i])[x] = Total(files, pwd, x) + Bit(x = o)
  <2>. SUFFICES ASSUME NEW x \in Fds
                PROVE  Total(files', pwd', x) + One(pwd[i])[x] = Total(files, pwd, x) + Bit(x = o)
    OBVIOUS
  <2>1. OneChange(FsInfos, pwd, pwd', i)
    BY <1>2, <1>4 DEF OneChange
  <2>2. Cardinality(At(FsInfos, pwd', x)) + Bit(pwd[i] = x)
          = Cardinality(At(FsInfos, pwd, x)) + Bit(pwd'[i] = x)
    BY <2>1, OneMoved, FdTablesAssumption
  <2>3. One(pwd[i])[x] = Bit(x = pwd[i])
    BY OneIsBit
  <2>. QED
    BY <1>0, <1>4, <2>2, <2>3, Finite DEF Total, Bit
<1>7. One(pwd[i]) \in [Fds -> Nat]
  BY OneIsBit
<1>. QED
  BY <1>0, <1>1, <1>3, <1>5, <1>6, <1>7, CallKeeps

\* sys_execve closes the marked slots.
LEMMA ExecKeeps ==
  ASSUME Inv, NEW t \in Tasks, Exec(t)
  PROVE  Inv' /\ odd' = odd
<1>. DEFINE T == table[t]
            n == [o \in Fds |-> Cardinality(SlotsOf(T, o) \cap cloexec[T])]
<1>0. /\ Runs(t) /\ Counts(n, None)
      /\ files' = [files EXCEPT ![T] = Emptied(T, cloexec[T])]
      /\ cloexec' = [cloexec EXCEPT ![T] = {}]
      /\ UNCHANGED <<size, tableRefs, pwd, fsRefs, table, fs, limit, using, shared, odd>>
  BY DEF Exec, fsVars, callVars
<1>1. /\ TypeOK /\ InsideSize /\ TableTypes /\ T \in Tables
      /\ \A X \in Tables : cloexec[X] \subseteq Open(X)
  BY <1>0, CallFacts
<1>. HIDE DEF T
<1>2. /\ files' \in [Tables -> [F -> Fds \cup {None}]]
      /\ \A g \in F : files'[T][g] = IF g \in cloexec[T] THEN None ELSE files[T][g]
      /\ \A X \in Tables : X # T => files'[X] = files[X]
  <2>1. Emptied(T, cloexec[T]) \in [F -> Fds \cup {None}]
    BY <1>1 DEF Emptied, TableTypes
  <2>. QED
    BY <1>0, <1>1, <2>1 DEF TableTypes, Emptied
<1>3. /\ cloexec' \in [Tables -> SUBSET F]
      /\ \A X \in Tables : cloexec'[X] = IF X = T THEN {} ELSE cloexec[X]
  BY <1>0, <1>1 DEF TableTypes
<1>4. InsideSize'
  BY <1>0, <1>1, <1>2 DEF InsideSize
<1>5. \A X \in Tables : cloexec'[X] \subseteq Open(X)'
  BY <1>1, <1>2, <1>3 DEF Open
<1>6. OwnChange(t)
  BY <1>0, <1>1, <1>2, <1>3, <1>4, <1>5
  DEF OwnChange, TableTypes, MarksOnOpenSlots, TypeOK, T
<1>7. \A x \in Fds : n[x] \in Nat /\ Total(files', pwd', x) + n[x] = Total(files, pwd, x) + Bit(x = None)
  <2>. SUFFICES ASSUME NEW x \in Fds
                PROVE  /\ n[x] \in Nat
                       /\ Total(files', pwd', x) + n[x] = Total(files, pwd, x) + Bit(x = None)
    OBVIOUS
  <2>1. SlotsOf(T, x) = At(F, files[T], x)
    BY <1>1, FdTablesAssumption DEF SlotsOf, At, InsideSize
  <2>2. At(F, files'[T], x) = At(F, files[T], x) \ cloexec[T]
    BY <1>2, FdTablesAssumption DEF At
  <2>3. /\ Cardinality(At(F, files[T], x) \ cloexec[T])
             = Cardinality(At(F, files[T], x)) - Cardinality(At(F, files[T], x) \cap cloexec[T])
        /\ Cardinality(At(F, files[T], x) \cap cloexec[T]) \in Nat
    <3>1. IsFiniteSet(At(F, files[T], x))
      BY Finite
    <3>2. IsFiniteSet(At(F, files[T], x) \cap cloexec[T])
      BY <3>1, FS_Intersection
    <3>. QED
      BY <3>1, <3>2, FS_Difference, FS_CardinalityType
  <2>4. n[x] = Cardinality(At(F, files[T], x) \cap cloexec[T])
    BY <2>1
  <2>5. OneChange(Tables, files, files', T)
    BY <1>1, <1>2 DEF OneChange
  <2>6. Cardinality(Everywhere(files', x)) + Cardinality(At(F, files[T], x))
          = Cardinality(Everywhere(files, x)) + Cardinality(At(F, files'[T], x))
    BY <2>5, OneTable
  <2>7. Bit(x = None) = 0 /\ pwd' = pwd
    BY <1>0, FdTablesAssumption DEF Bit
  <2>. HIDE DEF n
  <2>. QED
    BY <2>2, <2>3, <2>4, <2>6, <2>7, Finite DEF Total
<1>8. n \in [Fds -> Nat]
  BY <1>7
<1>. HIDE DEF n
<1>9. None \in Fds \cup {None}
  OBVIOUS
<1>. QED
  BY <1>0, <1>6, <1>7, <1>8, <1>9, CallKeeps

(***************************************************************************)
(* The calls that count nothing                                            *)
(***************************************************************************)

\* What is counted depends on the slots and the directories only.
LEMMA CountedSame ==
  UNCHANGED <<live, count, files, pwd, odd>> => (DescriptorsCounted <=> DescriptorsCounted')
<1>. SUFFICES ASSUME UNCHANGED <<live, count, files, pwd, odd>>
              PROVE  DescriptorsCounted <=> DescriptorsCounted'
  OBVIOUS
<1>1. \A o : Holders(o)' = Holders(o) /\ Dirs(o)' = Dirs(o)
  BY DEF Holders, Dirs
<1>. QED
  BY <1>1 DEF DescriptorsCounted, Broken

\* A step that leaves all this alone.
LEMMA StaysSame ==
  UNCHANGED <<files, size, tableRefs, pwd, fsRefs, table, fs, using, shared>>
    => /\ InsideSize <=> InsideSize'
       /\ TablesCounted <=> TablesCounted'
       /\ InfosCounted <=> InfosCounted'
       /\ BothOrNone <=> BothOrNone'
       /\ OwnTable <=> OwnTable'
BY DEF InsideSize, TablesCounted, InfosCounted, BothOrNone, OwnTable

\* A step in which nothing happens.
LEMMA StutterKeeps ==
  ASSUME Inv, UNCHANGED vars
  PROVE  Inv' /\ odd' = odd
<1>0. UNCHANGED <<live, count, files, size, cloexec, tableRefs, pwd, fsRefs, table, fs, limit,
                  using, shared, stale, odd>>
  BY DEF vars, tableVars, fsVars, callVars
<1>1. TypeOK' /\ MarksOnOpenSlots' /\ UseAfterCloseNeedsSharing'
  BY <1>0 DEF Inv, DescriptorsSound, TypeOK, MarksOnOpenSlots, UseAfterCloseNeedsSharing,
           Open, Broken
<1>. QED
  BY <1>0, <1>1, CountedSame, StaysSame DEF Inv, DescriptorsSound

\* dup2 to a number below zero: from then on nothing is followed.
LEMMA Dup2BelowZeroKeeps ==
  ASSUME Inv, NEW t \in Tasks, NEW f \in F, Dup2BelowZero(t, f)
  PROVE  Inv' /\ odd' # "installed over another"
<1>0. /\ odd' = "dup2 below zero"
      /\ UNCHANGED <<live, count, files, size, cloexec, tableRefs, pwd, fsRefs, table, fs, limit,
                     using, shared, stale>>
  BY DEF Dup2BelowZero, tableVars, fsVars, callVars
<1>1. TypeOK' /\ UseAfterCloseNeedsSharing'
  BY <1>0 DEF Inv, DescriptorsSound, TypeOK, UseAfterCloseNeedsSharing
<1>2. MarksOnOpenSlots' /\ DescriptorsCounted'
  BY <1>0 DEF MarksOnOpenSlots, DescriptorsCounted, Broken
<1>. QED
  BY <1>0, <1>1, <1>2, StaysSame DEF Inv, DescriptorsSound

\* F_SETFD marks an open slot.
LEMMA SetFdKeeps ==
  ASSUME Inv, NEW t \in Tasks, NEW f \in F, SetFd(t, f)
  PROVE  Inv' /\ odd' = odd
<1>. DEFINE T == table[t]
<1>0. /\ Runs(t) /\ files[T][f] # None
      /\ UNCHANGED <<live, count, files, size, tableRefs, pwd, fsRefs, table, fs, limit,
                     using, shared, stale, odd>>
  BY DEF SetFd, fsVars, callVars
<1>1. PICK s \in {cloexec[T] \cup {f}, cloexec[T] \ {f}} : cloexec' = [cloexec EXCEPT ![T] = s]
  BY DEF SetFd
<1>2. /\ TypeOK /\ TableTypes /\ T \in Tables
      /\ \A X \in Tables : cloexec[X] \subseteq Open(X)
  BY <1>0, CallFacts
<1>. HIDE DEF T
<1>3. /\ cloexec' \in [Tables -> SUBSET F]
      /\ \A X \in Tables : cloexec'[X] \subseteq cloexec[X] \cup (IF X = T THEN {f} ELSE {})
  BY <1>1, <1>2 DEF TableTypes
<1>4. MarksOnOpenSlots'
  BY <1>0, <1>2, <1>3 DEF MarksOnOpenSlots, Open
<1>5. TypeOK' /\ UseAfterCloseNeedsSharing'
  BY <1>0, <1>3 DEF Inv, DescriptorsSound, TypeOK, UseAfterCloseNeedsSharing
<1>. QED
  BY <1>0, <1>4, <1>5, CountedSame, StaysSame DEF Inv, DescriptorsSound

\* setrlimit does not look at the tables.
LEMMA SetLimitKeeps ==
  ASSUME Inv, NEW t \in Tasks, NEW n \in 1 .. Slots, SetLimit(t, n)
  PROVE  Inv' /\ odd' = odd
<1>0. /\ limit' = n
      /\ UNCHANGED <<live, count, files, size, cloexec, tableRefs, pwd, fsRefs, table, fs,
                     using, shared, stale, odd>>
  BY DEF SetLimit, tableVars, fsVars, callVars
<1>1. TypeOK' /\ MarksOnOpenSlots' /\ UseAfterCloseNeedsSharing'
  BY <1>0 DEF Inv, DescriptorsSound, TypeOK, MarksOnOpenSlots, UseAfterCloseNeedsSharing,
           Open, Broken
<1>. QED
  BY <1>0, <1>1, CountedSame, StaysSame DEF Inv, DescriptorsSound

\* f_get: the task alone has the table, or the call is marked as one that shares.
LEMMA CallBeginsKeeps ==
  ASSUME Inv, NEW t \in Tasks, NEW f \in F, CallBegins(t, f)
  PROVE  Inv' /\ odd' = odd
<1>. DEFINE o == files[table[t]][f]
<1>0. /\ Runs(t) /\ o # None
      /\ using' = [using EXCEPT ![t] = o]
      /\ shared' = IF tableRefs[table[t]] > 1 THEN shared \cup {t} ELSE shared
      /\ UNCHANGED <<live, count, files, size, cloexec, tableRefs, pwd, fsRefs, table, fs, limit,
                     stale, odd>>
  BY DEF CallBegins, tableVars, fsVars
<1>1. TypeOK /\ TableTypes /\ table[t] \in Tables
  BY <1>0, CallFacts
<1>2. o \in Fds \cup {None}
  BY <1>1 DEF TableTypes
<1>3. tableRefs[table[t]] \in Nat \ {0}
  BY <1>0, <1>1, HasRefs DEF Inv, Runs
<1>4. OwnTable'
  <2>. SUFFICES ASSUME NEW w \in Tasks, using'[w] # None, w \notin shared'
                PROVE  /\ table[w] \in Tables /\ tableRefs[table[w]] = 1
                       /\ \E g \in F : files[table[w]][g] = using'[w]
    BY <1>0 DEF OwnTable
  <2>1. CASE w = t
    <3>1. using'[w] = files[table[w]][f] /\ ~(tableRefs[table[t]] > 1)
      BY <1>0, <1>1, <2>1 DEF TypeOK
    <3>. QED
      BY <1>1, <1>3, <2>1, <3>1
  <2>2. CASE w # t
    <3>1. using'[w] = using[w] /\ w \notin shared
      BY <1>0, <1>1, <2>2 DEF TypeOK
    <3>. QED
      BY <3>1 DEF Inv, OwnTable
  <2>. QED
    BY <2>1, <2>2
<1>. HIDE DEF o
<1>5. TypeOK' /\ UseAfterCloseNeedsSharing' /\ MarksOnOpenSlots'
  BY <1>0, <1>1, <1>2
  DEF Inv, DescriptorsSound, TypeOK, UseAfterCloseNeedsSharing, MarksOnOpenSlots, Open, Broken
<1>6. InsideSize' /\ TablesCounted' /\ InfosCounted' /\ BothOrNone'
  BY <1>0 DEF Inv, InsideSize, TablesCounted, InfosCounted, BothOrNone
<1>. QED
  BY <1>0, <1>4, <1>5, <1>6, CountedSame DEF Inv, DescriptorsSound

\* The call returns, whatever has become of its descriptor.
LEMMA CallEndsKeeps ==
  ASSUME Inv, NEW t \in Tasks, CallEnds(t)
  PROVE  Inv' /\ odd' = odd
<1>0. /\ using' = [using EXCEPT ![t] = None]
      /\ shared' = shared \ {t} /\ stale' = stale \ {t}
      /\ UNCHANGED <<live, count, files, size, cloexec, tableRefs, pwd, fsRefs, table, fs,
                     limit, odd>>
  BY DEF CallEnds, tableVars, fsVars
<1>1. TypeOK' /\ UseAfterCloseNeedsSharing' /\ MarksOnOpenSlots'
  BY <1>0
  DEF Inv, DescriptorsSound, TypeOK, UseAfterCloseNeedsSharing, MarksOnOpenSlots, Open, Broken
<1>2. \A w \in Tasks : using'[w] = IF w = t THEN None ELSE using[w]
  BY <1>0 DEF Inv, DescriptorsSound, TypeOK
<1>3. OwnTable'
  BY <1>0, <1>2 DEF Inv, OwnTable
<1>4. InsideSize' /\ TablesCounted' /\ InfosCounted' /\ BothOrNone'
  BY <1>0 DEF Inv, InsideSize, TablesCounted, InfosCounted, BothOrNone
<1>. QED
  BY <1>0, <1>1, <1>3, <1>4, CountedSame DEF Inv, DescriptorsSound

\* A fork that fails late closes the caller's slots: the counts stay too high.
LEMMA ForkFailsKeeps ==
  ASSUME Inv, NEW t \in Tasks, ForkFails(t)
  PROVE  Inv' /\ odd' # "installed over another"
<1>. DEFINE T == table[t]
<1>0. /\ Runs(t) /\ odd' = "fork failed"
      /\ files' = [files EXCEPT ![T] = [f \in F |-> None]]
      /\ cloexec' = [cloexec EXCEPT ![T] = {}]
      /\ UNCHANGED <<live, count, size, tableRefs, pwd, fsRefs, table, fs, limit, using,
                     shared, stale>>
  BY DEF ForkFails, fsVars, callVars
<1>1. /\ TypeOK /\ Exact /\ InsideSize /\ TableTypes /\ T \in Tables
  BY <1>0, CallFacts
<1>. HIDE DEF T
<1>2. /\ files' \in [Tables -> [F -> Fds \cup {None}]]
      /\ \A g \in F : files'[T][g] = None
      /\ \A X \in Tables : X # T => files'[X] = files[X]
  <2>1. [f \in F |-> None] \in [F -> Fds \cup {None}]
    OBVIOUS
  <2>. QED
    BY <1>0, <1>1, <2>1 DEF TableTypes
<1>3. InsideSize'
  BY <1>0, <1>1, <1>2 DEF InsideSize
<1>4. TablesCounted' /\ InfosCounted' /\ BothOrNone' /\ OwnTable'
  <2>1. \A X \in Tables : X # table[t] => files'[X] = files[X] /\ size'[X] = size[X]
    BY <1>0, <1>2 DEF T
  <2>2. \A i \in FsInfos : i # fs[t] => pwd'[i] = pwd[i]
    BY <1>0
  <2>3. UNCHANGED <<tableRefs, fsRefs, table, fs, using, shared>>
    BY <1>0
  <2>. QED
    BY <1>0, <2>1, <2>2, <2>3, OthersKeep
<1>5. \A x \in Fds : /\ count'[x] >= Total(files', pwd', x)
                     /\ Total(files', pwd', x) > 0 => x \in live'
  <2>. SUFFICES ASSUME NEW x \in Fds
                PROVE  /\ count'[x] >= Total(files', pwd', x)
                       /\ Total(files', pwd', x) > 0 => x \in live'
    OBVIOUS
  <2>1. OneChange(Tables, files, files', T)
    BY <1>1, <1>2 DEF OneChange
  <2>2. Cardinality(Everywhere(files', x)) + Cardinality(At(F, files[T], x))
          = Cardinality(Everywhere(files, x)) + Cardinality(At(F, files'[T], x))
    BY <2>1, OneTable
  <2>3. Cardinality(At(F, files'[T], x)) = 0
    <3>1. At(F, files'[T], x) = {}
      BY <1>2, FdTablesAssumption DEF At
    <3>. QED
      BY <3>1, FS_EmptySet
  <2>4. /\ Cardinality(Everywhere(files', x)) <= Cardinality(Everywhere(files, x))
        /\ Cardinality(Everywhere(files', x)) \in Nat /\ Cardinality(Everywhere(files, x)) \in Nat
    BY <2>2, <2>3, Finite
  <2>5. count[x] = Total(files, pwd, x) /\ (x \in live <=> Total(files, pwd, x) > 0)
    BY <1>1 DEF Exact
  <2>6. Total(files', pwd', x) <= Total(files, pwd, x)
        /\ Total(files', pwd', x) \in Nat /\ Total(files, pwd, x) \in Nat
    <3>1. pwd' = pwd /\ Cardinality(At(FsInfos, pwd, x)) \in Nat
      BY <1>0, Finite
    <3>. QED
      BY <2>4, <3>1 DEF Total
  <2>7. count' = count /\ live' = live
    BY <1>0
  <2>. QED
    BY <2>5, <2>6, <2>7
<1>6. Broken' /\ DescriptorsCounted'
  BY <1>0, <1>5, ExactIsCounted DEF Broken
<1>7. MarksOnOpenSlots'
  BY <1>6 DEF MarksOnOpenSlots
<1>8. TypeOK' /\ UseAfterCloseNeedsSharing'
  <2>1. cloexec' \in [Tables -> SUBSET F]
    BY <1>0, <1>1 DEF TypeOK
  <2>2. files' \in [Tables -> [F -> Fds \cup {None}]]
    BY <1>2
  <2>3. UNCHANGED <<live, count, size, tableRefs, pwd, fsRefs, table, fs, limit, using,
                    shared, stale>>
    BY <1>0
  <2>. QED
    BY <1>1, <2>1, <2>2, <2>3 DEF Inv, DescriptorsSound, TypeOK, UseAfterCloseNeedsSharing
<1>. QED
  BY <1>0, <1>3, <1>4, <1>6, <1>7, <1>8 DEF Inv, DescriptorsSound

(***************************************************************************)
(* Tables and directories that come and go                                 *)
(***************************************************************************)

\* One task takes another table or directory: both counts follow.
LEMMA TaskMoves ==
  \A f, g, w : OneChange(Tasks, f, g, w)
    => \A v : Cardinality(At(Tasks, g, v)) + Bit(f[w] = v)
          = Cardinality(At(Tasks, f, v)) + Bit(g[w] = v)
BY OneMoved, FdTablesAssumption

\* One directory takes another descriptor.
LEMMA InfoMoves ==
  \A f, g, i : OneChange(FsInfos, f, g, i)
    => \A v : Cardinality(At(FsInfos, g, v)) + Bit(f[i] = v)
          = Cardinality(At(FsInfos, f, v)) + Bit(g[i] = v)
BY OneMoved, FdTablesAssumption

\* What the open slots of a table hold, below the size or at all.
LEMMA AllBelowSize ==
  ASSUME InsideSize, NEW T \in Tables, NEW o \in Fds
  PROVE  /\ SlotsOf(T, o) = At(F, files[T], o)
         /\ {f \in F : f < size[T] /\ files[T][f] = o} = At(F, files[T], o)
BY FdTablesAssumption DEF SlotsOf, At, InsideSize

\* A table with nothing in it holds nothing.
LEMMA EmptyHolds ==
  \A tab : (\A f \in F : tab[f] = None) => \A o \in Fds : Cardinality(At(F, tab, o)) = 0
<1>. SUFFICES ASSUME NEW tab, \A f \in F : tab[f] = None, NEW o \in Fds
              PROVE  Cardinality(At(F, tab, o)) = 0
  OBVIOUS
<1>1. At(F, tab, o) = {}
  BY FdTablesAssumption DEF At
<1>. QED
  BY <1>1, FS_EmptySet

\* do_exit: the last task that has a table or a directory empties it.
LEMMA ExitKeeps ==
  ASSUME Inv, NEW t \in Tasks, Exit(t)
  PROVE  Inv' /\ odd' = odd
<1>. DEFINE T == table[t]
            i == fs[t]
            dropped == IF tableRefs[T] = 1 THEN Dropped(T, size[T]) ELSE Nothing
            n == [o \in Fds |-> dropped[o] + IF fsRefs[i] = 1 /\ pwd[i] = o THEN 1 ELSE 0]
<1>0. /\ Runs(t) /\ Counts(n, None)
      /\ files' = IF tableRefs[T] = 1 THEN [files EXCEPT ![T] = [f \in F |-> None]] ELSE files
      /\ size' = IF tableRefs[T] = 1 THEN [size EXCEPT ![T] = 0] ELSE size
      /\ cloexec' = IF tableRefs[T] = 1 THEN [cloexec EXCEPT ![T] = {}] ELSE cloexec
      /\ tableRefs' = [tableRefs EXCEPT ![T] = @ - 1]
      /\ pwd' = IF fsRefs[i] = 1 THEN [pwd EXCEPT ![i] = None] ELSE pwd
      /\ fsRefs' = [fsRefs EXCEPT ![i] = @ - 1]
      /\ table' = [table EXCEPT ![t] = None] /\ fs' = [fs EXCEPT ![t] = None]
      /\ UNCHANGED <<limit, using, shared, odd>>
  BY DEF Exit, callVars
<1>1. /\ TypeOK /\ Exact /\ InsideSize /\ T \in Tables /\ i \in FsInfos /\ ~Broken
      /\ using[t] = None /\ \A X \in Tables : cloexec[X] \subseteq Open(X)
  BY <1>0, CallFacts DEF Runs
<1>2. TablesCounted /\ InfosCounted /\ BothOrNone /\ OwnTable
  BY DEF Inv
<1>3. tableRefs[T] \in Nat \ {0} /\ fsRefs[i] \in Nat \ {0}
  BY <1>0, <1>1, <1>2, HasRefs DEF Runs
<1>4. /\ table' \in [Tasks -> Tables \cup {None}] /\ fs' \in [Tasks -> FsInfos \cup {None}]
      /\ table'[t] = None /\ fs'[t] = None
      /\ \A w \in Tasks \ {t} : table'[w] = table[w] /\ fs'[w] = fs[w]
  BY <1>0, <1>1 DEF TypeOK
<1>5. /\ DOMAIN tableRefs' = Tables /\ tableRefs' = [X \in Tables |-> tableRefs'[X]]
      /\ tableRefs'[T] = tableRefs[T] - 1 /\ \A X \in Tables : X # T => tableRefs'[X] = tableRefs[X]
      /\ fsRefs' = [j \in FsInfos |-> fsRefs'[j]]
      /\ fsRefs'[i] = fsRefs[i] - 1 /\ \A j \in FsInfos : j # i => fsRefs'[j] = fsRefs[j]
  BY <1>0, <1>1 DEF TypeOK
<1>6. /\ files' \in [Tables -> [F -> Fds \cup {None}]] /\ size' \in [Tables -> 0 .. Slots]
      /\ cloexec' \in [Tables -> SUBSET F]
      /\ \A X \in Tables : IF X = T /\ tableRefs[T] = 1
                           THEN (\A f \in F : files'[X][f] = None) /\ size'[X] = 0 /\ cloexec'[X] = {}
                           ELSE files'[X] = files[X] /\ size'[X] = size[X] /\ cloexec'[X] = cloexec[X]
  <2>1. [f \in F |-> None] \in [F -> Fds \cup {None}] /\ 0 \in 0 .. Slots
    BY FdTablesAssumption
  <2>2. CASE tableRefs[T] = 1
    BY <1>0, <1>1, <2>1, <2>2 DEF TypeOK
  <2>3. CASE tableRefs[T] # 1
    BY <1>0, <1>1, <2>3 DEF TypeOK
  <2>. QED
    BY <2>2, <2>3
<1>7. /\ pwd' \in [FsInfos -> Fds \cup {None}]
      /\ \A j \in FsInfos : pwd'[j] = IF j = i /\ fsRefs[i] = 1 THEN None ELSE pwd[j]
  BY <1>0, <1>1 DEF TypeOK
<1>8. UNCHANGED <<limit, using, shared, odd>> /\ Counts(n, None)
  BY <1>0
<1>9. \A x \in Fds : n[x] = dropped[x] + Bit(fsRefs[i] = 1 /\ pwd[i] = x)
  BY DEF Bit
<1>10. \A x \in Fds : dropped[x] = IF tableRefs[T] = 1 THEN Cardinality(At(F, files[T], x)) ELSE 0
  <2>. SUFFICES ASSUME NEW x \in Fds
                PROVE  dropped[x] = IF tableRefs[T] = 1 THEN Cardinality(At(F, files[T], x)) ELSE 0
    OBVIOUS
  <2>1. {f \in F : f < size[T] /\ files[T][f] = x} = At(F, files[T], x)
    BY <1>1, AllBelowSize
  <2>. QED
    BY <2>1 DEF Dropped, Nothing
<1>11. n \in [Fds -> Nat]
  <2>1. \A x \in Fds : dropped[x] \in Nat
    BY <1>10, Finite
  <2>2. \A x \in Fds : n[x] \in Nat
    BY <1>9, <2>1 DEF Bit
  <2>. QED
    BY <2>2
<1>. HIDE DEF T, i, n, dropped
<1>12. TablesCounted'
  <2>. SUFFICES ASSUME NEW X \in Tables
                PROVE  /\ tableRefs'[X] = Cardinality(At(Tasks, table', X))
                       /\ tableRefs'[X] = 0 => size'[X] = 0
    BY DEF TablesCounted
  <2>1. OneChange(Tasks, table, table', t)
    BY <1>4 DEF OneChange
  <2>2. Cardinality(At(Tasks, table', X)) + Bit(table[t] = X)
          = Cardinality(At(Tasks, table, X)) + Bit(table'[t] = X)
    BY <2>1, TaskMoves
  <2>3. Bit(table'[t] = X) = 0 /\ Bit(table[t] = X) = IF X = T THEN 1 ELSE 0
    BY <1>4, FdTablesAssumption DEF Bit, T
  <2>4. tableRefs[X] = Cardinality(At(Tasks, table, X)) /\ (tableRefs[X] = 0 => size[X] = 0)
    BY <1>2 DEF TablesCounted
  <2>5. Cardinality(At(Tasks, table, X)) \in Nat /\ Cardinality(At(Tasks, table', X)) \in Nat
    BY Finite
  <2>6. tableRefs'[X] = Cardinality(At(Tasks, table', X))
    BY <1>5, <2>2, <2>3, <2>4, <2>5
  <2>. QED
    BY <1>3, <1>5, <1>6, <2>4, <2>6
<1>13. InfosCounted'
  <2>. SUFFICES ASSUME NEW j \in FsInfos
                PROVE  /\ fsRefs'[j] = Cardinality(At(Tasks, fs', j))
                       /\ fsRefs'[j] = 0 => pwd'[j] = None
    BY DEF InfosCounted
  <2>1. OneChange(Tasks, fs, fs', t)
    BY <1>4 DEF OneChange
  <2>2. Cardinality(At(Tasks, fs', j)) + Bit(fs[t] = j)
              = Cardinality(At(Tasks, fs, j)) + Bit(fs'[t] = j)
    BY <2>1, TaskMoves
  <2>3. Bit(fs'[t] = j) = 0 /\ Bit(fs[t] = j) = IF j = i THEN 1 ELSE 0
    BY <1>4, FdTablesAssumption DEF Bit, i
  <2>4. fsRefs[j] = Cardinality(At(Tasks, fs, j)) /\ (fsRefs[j] = 0 => pwd[j] = None)
    BY <1>2 DEF InfosCounted
  <2>5. Cardinality(At(Tasks, fs, j)) \in Nat /\ Cardinality(At(Tasks, fs', j)) \in Nat
    BY Finite
  <2>6. fsRefs'[j] = Cardinality(At(Tasks, fs', j))
    BY <1>5, <2>2, <2>3, <2>4, <2>5
  <2>. QED
    BY <1>3, <1>5, <1>7, <2>4, <2>6
<1>14. BothOrNone'
  BY <1>2, <1>4 DEF BothOrNone
<1>15. OwnTable'
  <2>. SUFFICES ASSUME NEW w \in Tasks, using[w] # None, w \notin shared
                PROVE  /\ table'[w] \in Tables /\ tableRefs'[table'[w]] = 1
                       /\ \E f \in F : files'[table'[w]][f] = using[w]
    BY <1>8 DEF OwnTable
  <2>1. /\ table[w] \in Tables /\ tableRefs[table[w]] = 1
        /\ \E f \in F : files[table[w]][f] = using[w]
    BY <1>2 DEF OwnTable
  <2>2. w # t
    BY <1>1
  <2>3. table[t] # table[w]
    BY <1>2, <2>1, <2>2, Alone
  <2>4. table'[w] = table[w] /\ table[w] # T
    BY <1>4, <2>2, <2>3 DEF T
  <2>. QED
    BY <1>5, <1>6, <2>1, <2>4
<1>16. \A x \in Fds : Total(files', pwd', x) + n[x] = Total(files, pwd, x) + Bit(x = None)
  <2>. SUFFICES ASSUME NEW x \in Fds
                PROVE  Total(files', pwd', x) + n[x] = Total(files, pwd, x) + Bit(x = None)
    OBVIOUS
  <2>1. Cardinality(Everywhere(files', x)) + dropped[x] = Cardinality(Everywhere(files, x))
    <3>1. OneChange(Tables, files, files', T)
      BY <1>1, <1>6 DEF OneChange
    <3>2. Cardinality(Everywhere(files', x)) + Cardinality(At(F, files[T], x))
            = Cardinality(Everywhere(files, x)) + Cardinality(At(F, files'[T], x))
      BY <3>1, OneTable
    <3>3. CASE tableRefs[T] = 1
      <4>1. \A f \in F : files'[T][f] = None
        BY <1>1, <1>6, <3>3
      <4>2. Cardinality(At(F, files'[T], x)) = 0
        BY <4>1, EmptyHolds
      <4>. QED
        BY <1>10, <3>2, <3>3, <4>2, Finite
    <3>4. CASE tableRefs[T] # 1
      <4>1. files'[T] = files[T] /\ dropped[x] = 0
        BY <1>1, <1>6, <1>10, <3>4
      <4>. QED
        BY <3>2, <4>1, Finite
    <3>. QED
      BY <3>3, <3>4
  <2>2. Cardinality(At(FsInfos, pwd', x)) + Bit(fsRefs[i] = 1 /\ pwd[i] = x)
              = Cardinality(At(FsInfos, pwd, x))
    <3>1. OneChange(FsInfos, pwd, pwd', i)
      BY <1>1, <1>7 DEF OneChange
    <3>2. Cardinality(At(FsInfos, pwd', x)) + Bit(pwd[i] = x)
                = Cardinality(At(FsInfos, pwd, x)) + Bit(pwd'[i] = x)
      BY <3>1, InfoMoves
    <3>3. pwd'[i] = IF fsRefs[i] = 1 THEN None ELSE pwd[i]
      BY <1>1, <1>7
    <3>4. x # None
      BY FdTablesAssumption
    <3>. QED
      BY <3>2, <3>3, <3>4, Finite DEF Bit
  <2>3. Bit(x = None) = 0
    BY FdTablesAssumption DEF Bit
  <2>4. dropped[x] \in Nat /\ Bit(fsRefs[i] = 1 /\ pwd[i] = x) \in Nat
    BY <1>10, Finite DEF Bit
  <2>. QED
    BY <1>9, <2>1, <2>2, <2>3, <2>4, Finite DEF Total
<1>17. /\ Exact' /\ live' \subseteq Fds /\ count' \in [Fds -> Nat] /\ stale' \subseteq Tasks
       /\ \A w \in Tasks : w \in stale' =>
            w \in stale \/ (using[w] \in Fds /\ Total(files', pwd', using[w]) = 0)
  <2>1. None \in Fds \cup {None}
    OBVIOUS
  <2>. QED
    BY <1>1, <1>8, <1>11, <1>16, <2>1, CountsDo
<1>18. UseAfterCloseNeedsSharing'
  BY <1>8, <1>15, <1>17, StaleShared
<1>19. MarksOnOpenSlots' /\ InsideSize'
  BY <1>1, <1>6 DEF MarksOnOpenSlots, InsideSize, Open
<1>20. TypeOK'
  <2>1. tableRefs' \in [Tables -> 0 .. Cardinality(Tasks)] /\ fsRefs' \in [FsInfos -> 0 .. Cardinality(Tasks)]
    <3>1. /\ \A X \in Tables : tableRefs'[X] \in 0 .. Cardinality(Tasks)
          /\ \A j \in FsInfos : fsRefs'[j] \in 0 .. Cardinality(Tasks)
      BY <1>12, <1>13, Finite DEF TablesCounted, InfosCounted
    <3>. QED
      BY <1>5, <3>1
  <2>. QED
    BY <1>1, <1>4, <1>6, <1>7, <1>8, <1>17, <2>1 DEF TypeOK
<1>21. DescriptorsCounted'
  BY <1>17, ExactIsCounted
<1>. QED
  BY <1>8, <1>12, <1>13, <1>14, <1>15, <1>18, <1>19, <1>20, <1>21 DEF Inv, DescriptorsSound

\* copy_task: a copied table and a copied directory count what they hold.
LEMMA ForkKeeps ==
  ASSUME Inv, NEW t \in Tasks, NEW u \in Tasks, NEW shareFiles \in BOOLEAN, NEW shareFs \in BOOLEAN,
         Fork(t, u, shareFiles, shareFs)
  PROVE  Inv' /\ odd' = odd
<1>. DEFINE T == table[t]
            i == fs[t]
<1>0. Runs(t) /\ table[u] = None /\ UNCHANGED <<live, limit, using, stale, odd>>
  BY DEF Fork
<1>1. PICK T2 \in Tables, i2 \in FsInfos :
        /\ IF shareFiles THEN T2 = T ELSE tableRefs[T2] = 0
        /\ IF shareFs THEN i2 = i ELSE fsRefs[i2] = 0
        /\ count' = [o \in Fds |-> count[o]
                        + (IF shareFiles THEN 0 ELSE Cardinality(SlotsOf(T, o)))
                        + (IF ~shareFs /\ pwd[i] = o THEN 1 ELSE 0)]
        /\ files' = [files EXCEPT ![T2] = files[T]]
        /\ size' = [size EXCEPT ![T2] = size[T]]
        /\ cloexec' = [cloexec EXCEPT ![T2] = cloexec[T]]
        /\ tableRefs' = [tableRefs EXCEPT ![T2] = @ + 1]
        /\ pwd' = [pwd EXCEPT ![i2] = pwd[i]]
        /\ fsRefs' = [fsRefs EXCEPT ![i2] = @ + 1]
        /\ table' = [table EXCEPT ![u] = T2] /\ fs' = [fs EXCEPT ![u] = i2]
        /\ shared' = IF shareFiles
                     THEN shared \cup {x \in Tasks : table[x] = T /\ using[x] # None} ELSE shared
  BY DEF Fork
<1>2. /\ TypeOK /\ Exact /\ InsideSize /\ T \in Tables /\ i \in FsInfos /\ ~Broken
      /\ using[t] = None /\ \A X \in Tables : cloexec[X] \subseteq Open(X)
  BY <1>0, CallFacts DEF Runs
<1>3. TablesCounted /\ InfosCounted /\ BothOrNone /\ OwnTable
  BY DEF Inv
<1>4. fs[u] = None
  BY <1>0, <1>3 DEF BothOrNone
<1>5. /\ table' \in [Tasks -> Tables \cup {None}] /\ fs' \in [Tasks -> FsInfos \cup {None}]
      /\ table'[u] = T2 /\ fs'[u] = i2
      /\ \A w \in Tasks \ {u} : table'[w] = table[w] /\ fs'[w] = fs[w]
  BY <1>1, <1>2 DEF TypeOK
<1>6. /\ tableRefs' = [X \in Tables |-> tableRefs'[X]]
      /\ tableRefs'[T2] = tableRefs[T2] + 1
      /\ \A X \in Tables : X # T2 => tableRefs'[X] = tableRefs[X]
      /\ fsRefs' = [j \in FsInfos |-> fsRefs'[j]]
      /\ fsRefs'[i2] = fsRefs[i2] + 1 /\ \A j \in FsInfos : j # i2 => fsRefs'[j] = fsRefs[j]
  BY <1>1, <1>2 DEF TypeOK
<1>7. /\ files' \in [Tables -> [F -> Fds \cup {None}]] /\ size' \in [Tables -> 0 .. Slots]
      /\ cloexec' \in [Tables -> SUBSET F]
      /\ files'[T2] = files[T] /\ size'[T2] = size[T] /\ cloexec'[T2] = cloexec[T]
      /\ \A X \in Tables : X # T2 =>
           files'[X] = files[X] /\ size'[X] = size[X] /\ cloexec'[X] = cloexec[X]
  BY <1>1, <1>2 DEF TypeOK
<1>8. /\ pwd' \in [FsInfos -> Fds \cup {None}]
      /\ pwd'[i2] = pwd[i] /\ \A j \in FsInfos : j # i2 => pwd'[j] = pwd[j]
  BY <1>1, <1>2 DEF TypeOK
<1>9. IF shareFiles THEN T2 = T ELSE tableRefs[T2] = 0 /\ \A f \in F : files[T2][f] = None
  <2>. SUFFICES ASSUME ~shareFiles PROVE tableRefs[T2] = 0 /\ \A f \in F : files[T2][f] = None
    BY <1>1
  <2>1. tableRefs[T2] = 0 /\ size[T2] = 0
    BY <1>1, <1>3 DEF TablesCounted
  <2>. QED
    BY <1>2, <2>1, FdTablesAssumption DEF InsideSize, F
<1>10. IF shareFs THEN i2 = i ELSE fsRefs[i2] = 0 /\ pwd[i2] = None
  BY <1>1, <1>3 DEF InfosCounted
<1>11. shared' = IF shareFiles
                 THEN shared \cup {x \in Tasks : table[x] = T /\ using[x] # None} ELSE shared
  BY <1>1
<1>12. /\ DOMAIN count' = Fds /\ count' = [o \in Fds |-> count'[o]]
       /\ \A o \in Fds : count'[o] = count[o]
                           + (IF shareFiles THEN 0 ELSE Cardinality(At(F, files[T], o)))
                           + Bit(~shareFs /\ pwd[i] = o)
  <2>1. \A o \in Fds : SlotsOf(T, o) = At(F, files[T], o)
    BY <1>2, AllBelowSize
  <2>. QED
    BY <1>1, <2>1 DEF Bit
<1>. HIDE DEF T, i
<1>13. TablesCounted'
  <2>. SUFFICES ASSUME NEW X \in Tables
                PROVE  /\ tableRefs'[X] = Cardinality(At(Tasks, table', X))
                       /\ tableRefs'[X] = 0 => size'[X] = 0
    BY DEF TablesCounted
  <2>1. OneChange(Tasks, table, table', u)
    BY <1>5 DEF OneChange
  <2>2. Cardinality(At(Tasks, table', X)) + Bit(table[u] = X)
          = Cardinality(At(Tasks, table, X)) + Bit(table'[u] = X)
    BY <2>1, TaskMoves
  <2>3. Bit(table[u] = X) = 0 /\ Bit(table'[u] = X) = IF X = T2 THEN 1 ELSE 0
    BY <1>0, <1>5, FdTablesAssumption DEF Bit
  <2>4. tableRefs[X] = Cardinality(At(Tasks, table, X)) /\ (tableRefs[X] = 0 => size[X] = 0)
    BY <1>3 DEF TablesCounted
  <2>5. Cardinality(At(Tasks, table, X)) \in Nat /\ Cardinality(At(Tasks, table', X)) \in Nat
    BY Finite
  <2>6. tableRefs'[X] = Cardinality(At(Tasks, table', X))
    BY <1>6, <2>2, <2>3, <2>4, <2>5
  <2>. QED
    BY <1>6, <1>7, <2>4, <2>5, <2>6
<1>14. InfosCounted'
  <2>. SUFFICES ASSUME NEW j \in FsInfos
                PROVE  /\ fsRefs'[j] = Cardinality(At(Tasks, fs', j))
                       /\ fsRefs'[j] = 0 => pwd'[j] = None
    BY DEF InfosCounted
  <2>1. OneChange(Tasks, fs, fs', u)
    BY <1>5 DEF OneChange
  <2>2. Cardinality(At(Tasks, fs', j)) + Bit(fs[u] = j)
              = Cardinality(At(Tasks, fs, j)) + Bit(fs'[u] = j)
    BY <2>1, TaskMoves
  <2>3. Bit(fs[u] = j) = 0 /\ Bit(fs'[u] = j) = IF j = i2 THEN 1 ELSE 0
    BY <1>4, <1>5, FdTablesAssumption DEF Bit
  <2>4. fsRefs[j] = Cardinality(At(Tasks, fs, j)) /\ (fsRefs[j] = 0 => pwd[j] = None)
    BY <1>3 DEF InfosCounted
  <2>5. Cardinality(At(Tasks, fs, j)) \in Nat /\ Cardinality(At(Tasks, fs', j)) \in Nat
    BY Finite
  <2>6. fsRefs'[j] = Cardinality(At(Tasks, fs', j))
    BY <1>6, <2>2, <2>3, <2>4, <2>5
  <2>. QED
    BY <1>6, <1>8, <2>4, <2>5, <2>6
<1>15. BothOrNone'
  BY <1>3, <1>5, FdTablesAssumption DEF BothOrNone
<1>16. OwnTable'
  <2>. SUFFICES ASSUME NEW w \in Tasks, using[w] # None, w \notin shared'
                PROVE  /\ table'[w] \in Tables /\ tableRefs'[table'[w]] = 1
                       /\ \E f \in F : files'[table'[w]][f] = using[w]
    BY <1>0 DEF OwnTable
  <2>1. w \notin shared /\ (shareFiles => table[w] # T)
    BY <1>11
  <2>2. /\ table[w] \in Tables /\ tableRefs[table[w]] = 1
        /\ \E f \in F : files[table[w]][f] = using[w]
    BY <1>3, <2>1 DEF OwnTable
  <2>3. w # u /\ table'[w] = table[w]
    BY <1>0, <1>5, <2>2, FdTablesAssumption
  <2>4. table[w] # T2
    BY <1>9, <2>1, <2>2
  <2>. QED
    BY <1>6, <1>7, <2>2, <2>3, <2>4
<1>17. \A x \in Fds : /\ count'[x] = Total(files', pwd', x)
                      /\ x \in live <=> Total(files', pwd', x) > 0
  <2>. SUFFICES ASSUME NEW x \in Fds
                PROVE  /\ count'[x] = Total(files', pwd', x)
                       /\ x \in live <=> Total(files', pwd', x) > 0
    OBVIOUS
  <2>. DEFINE a == IF shareFiles THEN 0 ELSE Cardinality(At(F, files[T], x))
              b == Bit(~shareFs /\ pwd[i] = x)
  <2>1. Cardinality(Everywhere(files', x)) = Cardinality(Everywhere(files, x)) + a
    <3>1. OneChange(Tables, files, files', T2)
      BY <1>7 DEF OneChange
    <3>2. Cardinality(Everywhere(files', x)) + Cardinality(At(F, files[T2], x))
            = Cardinality(Everywhere(files, x)) + Cardinality(At(F, files'[T2], x))
      BY <3>1, OneTable
    <3>3. CASE shareFiles
      BY <1>7, <1>9, <3>2, <3>3, Finite
    <3>4. CASE ~shareFiles
      <4>1. Cardinality(At(F, files[T2], x)) = 0
        BY <1>9, <3>4, EmptyHolds
      <4>. QED
        BY <1>7, <3>2, <3>4, <4>1, Finite
    <3>. QED
      BY <3>3, <3>4
  <2>2. Cardinality(At(FsInfos, pwd', x)) = Cardinality(At(FsInfos, pwd, x)) + b
    <3>1. OneChange(FsInfos, pwd, pwd', i2)
      BY <1>8 DEF OneChange
    <3>2. Cardinality(At(FsInfos, pwd', x)) + Bit(pwd[i2] = x)
                = Cardinality(At(FsInfos, pwd, x)) + Bit(pwd'[i2] = x)
      BY <3>1, InfoMoves
    <3>3. pwd'[i2] = pwd[i] /\ x # None
      BY <1>8, FdTablesAssumption
    <3>. QED
      BY <1>10, <3>2, <3>3, Finite DEF Bit
  <2>3. count[x] = Total(files, pwd, x) /\ (x \in live <=> Total(files, pwd, x) > 0)
    BY <1>2 DEF Exact
  <2>4. a \in Nat /\ b \in Nat /\ Total(files, pwd, x) \in Nat
    BY Finite, HeldOnce DEF Bit
  <2>5. Total(files, pwd, x) = 0 => a = 0 /\ b = 0
    <3>. SUFFICES ASSUME Total(files, pwd, x) = 0 PROVE a = 0 /\ b = 0
      OBVIOUS
    <3>1. pwd[i] # x
      BY <1>2, HeldOnce
    <3>2. Cardinality(Everywhere(files, x)) = 0
      BY Finite DEF Total
    <3>3. Cardinality(At(F, files[T], x)) <= Cardinality(Everywhere(files, x))
      BY <1>2, HeldOnce
    <3>4. Cardinality(At(F, files[T], x)) \in Nat
      BY Finite
    <3>5. Cardinality(At(F, files[T], x)) = 0
      BY <3>2, <3>3, <3>4
    <3>. QED
      BY <3>1, <3>5 DEF Bit
  <2>6. count'[x] = count[x] + a + b
    BY <1>12
  <2>. HIDE DEF a, b
  <2>7. Total(files', pwd', x) = Total(files, pwd, x) + a + b
    BY <2>1, <2>2, <2>4, Finite DEF Total
  <2>. QED
    BY <2>3, <2>4, <2>5, <2>6, <2>7
<1>18. Exact' /\ count' \in [Fds -> Nat]
  <2>1. \A x \in Fds : count'[x] \in Nat
    BY <1>17, HeldOnce
  <2>2. count' \in [Fds -> Nat]
    BY <1>12, <2>1
  <2>3. live' = live
    BY <1>0
  <2>. QED
    BY <1>17, <2>2, <2>3 DEF Exact
<1>19. UseAfterCloseNeedsSharing'
  <2>1. shared \subseteq shared'
    BY <1>11
  <2>. QED
    BY <1>0, <2>1 DEF Inv, DescriptorsSound, UseAfterCloseNeedsSharing
<1>20. MarksOnOpenSlots' /\ InsideSize'
  <2>1. \A X \in Tables : \A f \in F : files'[X][f] # None => f < size'[X]
    BY <1>2, <1>7 DEF InsideSize
  <2>2. \A X \in Tables : cloexec'[X] \subseteq Open(X)'
    BY <1>2, <1>7 DEF Open
  <2>. QED
    BY <2>1, <2>2 DEF MarksOnOpenSlots, InsideSize
<1>21. TypeOK'
  <2>1. tableRefs' \in [Tables -> 0 .. Cardinality(Tasks)] /\ fsRefs' \in [FsInfos -> 0 .. Cardinality(Tasks)]
    <3>1. /\ \A X \in Tables : tableRefs'[X] \in 0 .. Cardinality(Tasks)
          /\ \A j \in FsInfos : fsRefs'[j] \in 0 .. Cardinality(Tasks)
      BY <1>13, <1>14, Finite DEF TablesCounted, InfosCounted
    <3>. QED
      BY <1>6, <3>1
  <2>2. shared' \subseteq Tasks
    BY <1>2, <1>11 DEF TypeOK
  <2>3. UNCHANGED <<live, limit, using, stale>>
    BY <1>0
  <2>. QED
    BY <1>2, <1>5, <1>7, <1>8, <1>18, <2>1, <2>2, <2>3 DEF TypeOK
<1>22. DescriptorsCounted'
  BY <1>18, ExactIsCounted
<1>. QED
  BY <1>0, <1>13, <1>14, <1>15, <1>16, <1>19, <1>20, <1>21, <1>22 DEF Inv, DescriptorsSound

(***************************************************************************)
(* The specification                                                       *)
(***************************************************************************)

\* The first task with a table and a directory of its own.
LEMMA InitInv == Init => Inv
<1>. DEFINE a == CHOOSE t \in Tasks : TRUE
            T == CHOOSE x \in Tables : TRUE
            i == CHOOSE x \in FsInfos : TRUE
            o == CHOOSE x \in Fds : TRUE
<1>0. a \in Tasks /\ T \in Tables /\ i \in FsInfos /\ o \in Fds
  BY FdTablesAssumption
<1>. SUFFICES ASSUME Init PROVE Inv
  OBVIOUS
<1>1. /\ live = {o} /\ count = [x \in Fds |-> IF x = o THEN 1 ELSE 0]
      /\ files = [x \in Tables |-> [f \in F |-> None]]
      /\ size = [x \in Tables |-> IF x = T THEN 1 ELSE 0]
      /\ cloexec = [x \in Tables |-> {}]
      /\ tableRefs = [x \in Tables |-> IF x = T THEN 1 ELSE 0]
      /\ pwd = [x \in FsInfos |-> IF x = i THEN o ELSE None]
      /\ fsRefs = [x \in FsInfos |-> IF x = i THEN 1 ELSE 0]
      /\ table = [t \in Tasks |-> IF t = a THEN T ELSE None]
      /\ fs = [t \in Tasks |-> IF t = a THEN i ELSE None]
      /\ limit = Slots /\ using = [t \in Tasks |-> None]
      /\ shared = {} /\ stale = {} /\ odd = "none"
  BY DEF Init
<1>. HIDE DEF a, T, i, o
<1>2. Cardinality(Tasks) \in Nat \ {0}
  BY Finite, FS_EmptySet, FdTablesAssumption
<1>3. TypeOK
  BY <1>0, <1>1, <1>2, FdTablesAssumption DEF TypeOK
<1>4. \A x \in Fds : Cardinality(Holders(x)) = 0
  <2>1. \A x \in Fds : Holders(x) = {}
    BY <1>1, FdTablesAssumption DEF Holders
  <2>. QED
    BY <2>1, FS_EmptySet
<1>5. \A x \in Fds : Cardinality(Dirs(x)) = IF x = o THEN 1 ELSE 0
  <2>1. \A x \in Fds : Dirs(x) = IF x = o THEN {i} ELSE {}
    BY <1>0, <1>1, FdTablesAssumption DEF Dirs
  <2>. QED
    BY <2>1, FS_EmptySet, FS_Singleton
<1>6. DescriptorsCounted
  <2>. SUFFICES ASSUME NEW x \in Fds
                PROVE  /\ count[x] = Cardinality(Holders(x)) + Cardinality(Dirs(x))
                       /\ x \in live <=> Cardinality(Holders(x)) + Cardinality(Dirs(x)) > 0
    BY <1>1 DEF DescriptorsCounted
  <2>. QED
    BY <1>1, <1>4, <1>5
<1>7. TablesCounted
  <2>. SUFFICES ASSUME NEW X \in Tables
                PROVE  /\ tableRefs[X] = Cardinality(At(Tasks, table, X))
                       /\ tableRefs[X] = 0 => size[X] = 0
    BY DEF TablesCounted
  <2>1. At(Tasks, table, X) = IF X = T THEN {a} ELSE {}
    BY <1>0, <1>1, FdTablesAssumption DEF At
  <2>. QED
    BY <1>1, <2>1, FS_EmptySet, FS_Singleton
<1>8. InfosCounted
  <2>. SUFFICES ASSUME NEW j \in FsInfos
                PROVE  /\ fsRefs[j] = Cardinality(At(Tasks, fs, j))
                       /\ fsRefs[j] = 0 => pwd[j] = None
    BY DEF InfosCounted
  <2>1. At(Tasks, fs, j) = IF j = i THEN {a} ELSE {}
    BY <1>0, <1>1, FdTablesAssumption DEF At
  <2>. QED
    BY <1>1, <2>1, FS_EmptySet, FS_Singleton
<1>9. InsideSize /\ MarksOnOpenSlots /\ UseAfterCloseNeedsSharing
  BY <1>1 DEF InsideSize, MarksOnOpenSlots, UseAfterCloseNeedsSharing
<1>10. BothOrNone /\ OwnTable
  BY <1>0, <1>1, FdTablesAssumption DEF BothOrNone, OwnTable
<1>. QED
  BY <1>3, <1>6, <1>7, <1>8, <1>9, <1>10 DEF Inv, DescriptorsSound

\* Every action keeps the invariant, and where it lost a descriptor in a slot the
\* limit was below the size of the table.
LEMMA NextInv ==
  ASSUME Inv, [Next]_vars
  PROVE  /\ Inv'
         /\ ~Broken /\ odd' = "installed over another" => \E T \in Tables : limit < size[T]
<1>. DEFINE Good == /\ Inv'
                    /\ ~Broken /\ odd' = "installed over another" => \E T \in Tables : limit < size[T]
<1>0. ASSUME Inv', odd' = odd \/ odd' # "installed over another" PROVE Good
  BY <1>0 DEF Broken
<1>1. ASSUME NEW t \in Tasks, NEW o \in Fds, NEW start \in F, NEW mark \in BOOLEAN, Runs(t),
             Install(table[t], o, start, mark), UNCHANGED <<fsVars, table, fs, limit, callVars>>
      PROVE  Good
  <2>1. Inv' /\ (odd' = "installed over another" => limit < size[table[t]])
    BY <1>1, InstallKeeps
  <2>2. table[t] \in Tables
    BY <1>1, CallFacts
  <2>. QED
    BY <2>1, <2>2
<1>2. ASSUME NEW t \in Tasks, NEW b \in BOOLEAN, OpenCall(t, b) PROVE Good
  <2>1. 0 \in F
    BY FdTablesAssumption DEF F
  <2>2. PICK o \in Fds \ live : Install(table[t], o, 0, b)
    BY <1>2 DEF OpenCall
  <2>3. Runs(t) /\ UNCHANGED <<fsVars, table, fs, limit, callVars>>
    BY <1>2 DEF OpenCall
  <2>. QED
    BY <1>1, <2>1, <2>2, <2>3
<1>3. ASSUME NEW t \in Tasks, NEW f \in F, NEW g \in F, Dup(t, f, g) PROVE Good
  <2>1. /\ Runs(t) /\ files[table[t]][f] # None /\ Install(table[t], files[table[t]][f], g, FALSE)
        /\ UNCHANGED <<fsVars, table, fs, limit, callVars>>
    BY <1>3 DEF Dup
  <2>2. TableTypes /\ table[t] \in Tables
    BY <2>1, CallFacts
  <2>3. files[table[t]][f] \in Fds
    BY <2>1, <2>2 DEF TableTypes
  <2>. QED
    BY <1>1, <2>1, <2>3
<1>4. ASSUME NEW t \in Tasks, NEW n \in 1 .. Slots, SetLimit(t, n) PROVE Good
  BY <1>0, <1>4, SetLimitKeeps
<1>5. ASSUME NEW t \in Tasks, Chdir(t) PROVE Good
  BY <1>0, <1>5, ChdirKeeps
<1>6. ASSUME NEW t \in Tasks, Exec(t) PROVE Good
  BY <1>0, <1>6, ExecKeeps
<1>7. ASSUME NEW t \in Tasks, Exit(t) PROVE Good
  BY <1>0, <1>7, ExitKeeps
<1>8. ASSUME NEW t \in Tasks, ForkFails(t) PROVE Good
  BY <1>0, <1>8, ForkFailsKeeps
<1>9. ASSUME NEW t \in Tasks, CallEnds(t) PROVE Good
  BY <1>0, <1>9, CallEndsKeeps
<1>10. ASSUME NEW t \in Tasks, NEW u \in Tasks, NEW b \in BOOLEAN, NEW c \in BOOLEAN, Fork(t, u, b, c)
       PROVE  Good
  BY <1>0, <1>10, ForkKeeps
<1>11. ASSUME NEW t \in Tasks, NEW f \in F, NEW g \in F, Dup2(t, f, g) PROVE Good
  BY <1>0, <1>11, Dup2Keeps
<1>12. ASSUME NEW t \in Tasks, NEW f \in F, Close(t, f) PROVE Good
  BY <1>0, <1>12, CloseKeeps
<1>13. ASSUME NEW t \in Tasks, NEW f \in F, Dup2BelowZero(t, f) PROVE Good
  BY <1>0, <1>13, Dup2BelowZeroKeeps
<1>14. ASSUME NEW t \in Tasks, NEW f \in F, SetFd(t, f) PROVE Good
  BY <1>0, <1>14, SetFdKeeps
<1>15. ASSUME NEW t \in Tasks, NEW f \in F, CallBegins(t, f) PROVE Good
  BY <1>0, <1>15, CallBeginsKeeps
<1>. SUFFICES Good
  OBVIOUS
<1>. HIDE DEF Good
<1>16. CASE UNCHANGED vars
  BY <1>0, <1>16, StutterKeeps
<1>17. CASE NobodyLeft
  BY <1>16, <1>17 DEF NobodyLeft
<1>18. CASE Next
  <2>1. CASE NobodyLeft
    BY <1>17, <2>1
  <2>2. ASSUME NEW t \in Tasks,
               \/ \E b \in BOOLEAN : OpenCall(t, b)
               \/ \E n \in 1 .. Slots : SetLimit(t, n)
               \/ Chdir(t) \/ Exec(t) \/ Exit(t) \/ ForkFails(t) \/ CallEnds(t)
               \/ \E u \in Tasks : \E b, c \in BOOLEAN : Fork(t, u, b, c)
        PROVE  Good
    BY <1>2, <1>4, <1>5, <1>6, <1>7, <1>8, <1>9, <1>10, <2>2
  <2>3. ASSUME NEW t \in Tasks, NEW f \in F,
               \/ \E g \in F : Dup2(t, f, g) \/ Dup(t, f, g)
               \/ Close(t, f) \/ Dup2BelowZero(t, f) \/ SetFd(t, f) \/ CallBegins(t, f)
        PROVE  Good
    BY <1>3, <1>11, <1>12, <1>13, <1>14, <1>15, <2>3
  <2>. QED
    BY <1>18, <2>1, <2>2, <2>3 DEF Next
<1>19. Next \/ UNCHANGED vars
  OBVIOUS
<1>. QED
  BY <1>16, <1>18, <1>19

\* The invariant that the theorems rest on: counts are exact until something odd
\* comes up, and what a call uses stays open unless its table is shared.
THEOREM Invariance == Spec => []Inv
<1>1. Inv /\ [Next]_vars => Inv'
  BY NextInv
<1>. QED
  BY InitInv, <1>1, PTL DEF Spec

\* Descriptors live exactly as long as a slot or a directory holds them, only
\* open slots are marked close-on-exec, and a call goes on with a freed one only
\* where another task shares the table (f_get, fd_close, f_close and
\* fdtable_release in fs/fd.c, fs_info.c, copy_task, do_exit).
THEOREM DescriptorsAreSound == Spec => []DescriptorsSound
<1>1. Inv => DescriptorsSound
  BY DEF Inv
<1>. QED
  BY Invariance, <1>1, PTL

\* f_install_start replaces an open descriptor in no step, unless RLIMIT_NOFILE
\* is below the size that some table already has.
THEOREM InstallsReplaceNothing == Spec => NoOverwriteWithinLimit
<1>1. Inv /\ [Next]_vars
        => [~Broken /\ odd' = "installed over another" => \E T \in Tables : limit < size[T]]_vars
  BY NextInv
<1>. QED
  BY Invariance, <1>1, PTL DEF Spec, NoOverwriteWithinLimit
=============================================================================
