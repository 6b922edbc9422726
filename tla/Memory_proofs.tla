--------------------------- MODULE Memory_proofs ---------------------------
(***************************************************************************)
(* Proofs about Memory: types, reference counts, TLBs, and that it         *)
(* implements PrivateMemory.                                               *)
(*                                                                         *)
(* Every call changes the page tables in one of three ways: pages of one   *)
(* space come (PtMap) or go (PtUnmap, and all of them with the last        *)
(* thread), and a space is copied.  The lemmas of the first sections say   *)
(* what that does to the entries, to the counts and to what a guest sees;  *)
(* the invariants and the refinement are then proved call by call.         *)
(***************************************************************************)
EXTENDS Memory, FiniteSetTheorems, TLAPS

(***************************************************************************)
(* The parts of the invariant                                              *)
(***************************************************************************)

\* A space that no thread has is empty.
EmptyWhenLeft == \A m \in Space : refs[m] = 0 => pt[m] = NoPages

\* An entry of the TLB is where a lookup of its page finds it.
TlbIndexed ==
  \A t \in Thread : \A i \in 0 .. TlbSize - 1 :
    tlb[t][i] # None => TlbIndex(tlb[t][i].page) = i

UnusedAreClean == \A t \in Thread : pc[t] = "unused" => tlb[t] = NoTlb /\ ~suspect[t]

\* In the kernel a TLB may be stale, but then the counter has moved on.
SeenBehind == \A t \in Thread : pc[t] = "guest" => seen[t] <= changes[mem[t]]
FlushPending ==
  \A t \in Thread : pc[t] # "unused" /\ ~suspect[t] =>
    \A i \in 0 .. TlbSize - 1 : tlb[t][i] # None =>
      /\ seen[t] <= changes[mem[t]]
      /\ pc[t] = "guest" \/ seen[t] = changes[mem[t]] => Current(t, tlb[t][i])

\* As long as mprotect has not taken copy-on-write from a shared page.
CowKept == wild = None => SharedAreCow

Inv ==
  /\ TypeOK /\ CountsExact /\ EmptyWhenLeft /\ UnusedAreClean
  /\ TlbIndexed /\ SeenBehind /\ FlushPending /\ CowKept

(***************************************************************************)
(* Counting the entries that lead to an object                             *)
(***************************************************************************)
Pages(table, S, d) == {p \in S : Leads(table[p], d)}

\* All entries of all page tables.
Everywhere(tables, d) == {q \in Space \X Page : Leads(tables[q[1]][q[2]], d)}

\* There are finitely many pages, so every set that is counted below is finite.
LEMMA Finite ==
  /\ IsFiniteSet(Page) /\ IsFiniteSet(Space \X Page)
  /\ \A table, S, d : S \subseteq Page =>
       IsFiniteSet(Pages(table, S, d)) /\ Uses(table, S, d) \in Nat
  /\ \A tables, d : /\ IsFiniteSet(Everywhere(tables, d))
                    /\ Cardinality(Everywhere(tables, d)) \in Nat
<1>1. IsFiniteSet(Page)
  BY MemoryAssumption, FS_Interval DEF Page
<1>2. IsFiniteSet(Space \X Page)
  BY <1>1, MemoryAssumption, FS_Product
<1>3. ASSUME NEW table, NEW S, NEW d, S \subseteq Page
      PROVE  IsFiniteSet(Pages(table, S, d)) /\ Uses(table, S, d) \in Nat
  <2>1. Pages(table, S, d) \in SUBSET Page
    BY <1>3 DEF Pages
  <2> QED
    BY <1>1, <2>1, FS_Subset, FS_CardinalityType DEF Pages, Uses
<1>4. ASSUME NEW tables, NEW d
      PROVE  /\ IsFiniteSet(Everywhere(tables, d))
             /\ Cardinality(Everywhere(tables, d)) \in Nat
  <2>1. Everywhere(tables, d) \in SUBSET (Space \X Page)
    BY DEF Everywhere
  <2> QED
    BY <1>2, <2>1, FS_Subset, FS_CardinalityType
<1> QED
  BY <1>1, <1>2, <1>3, <1>4

\* What the two parts of a set of pages use.
LEMMA UsesSplit ==
  ASSUME NEW table, NEW S, NEW T, NEW d, S \subseteq Page, T \subseteq Page, S \cap T = {}
  PROVE  Uses(table, S \cup T, d) = Uses(table, S, d) + Uses(table, T, d)
<1>1. /\ IsFiniteSet(Pages(table, S, d)) /\ IsFiniteSet(Pages(table, T, d))
      /\ Uses(table, S, d) \in Nat /\ Uses(table, T, d) \in Nat
  BY Finite
<1>2. /\ Pages(table, S \cup T, d) = Pages(table, S, d) \cup Pages(table, T, d)
      /\ Pages(table, S, d) \cap Pages(table, T, d) = {}
  BY DEF Pages
<1> QED
  BY <1>1, <1>2, FS_Union, FS_EmptySet DEF Uses, Pages

\* No page, one page, and every page of S leading to d.
LEMMA UsesNone ==
  ASSUME NEW table, NEW S, NEW d, S \subseteq Page
  PROVE  Uses(table, S, d) = 0 <=> \A p \in S : ~Leads(table[p], d)
<1>1. IsFiniteSet(Pages(table, S, d)) /\ Uses(table, S, d) = Cardinality(Pages(table, S, d))
  BY Finite DEF Uses, Pages
<1>2. Uses(table, S, d) = 0 <=> Pages(table, S, d) = {}
  BY <1>1, FS_EmptySet
<1> QED
  BY <1>2 DEF Pages

\* A set of pages that all lead to an object is counted whole.
LEMMA UsesAll ==
  ASSUME NEW table, NEW S, NEW d, \A p \in S : Leads(table[p], d)
  PROVE  Uses(table, S, d) = Cardinality(S)
<1>1. Pages(table, S, d) = S
  BY DEF Pages
<1> QED
  BY <1>1 DEF Uses, Pages

\* Tables that agree on which pages lead to an object count the same.
LEMMA UsesSame ==
  ASSUME NEW table, NEW other, NEW S, NEW d,
         \A p \in S : Leads(table[p], d) <=> Leads(other[p], d)
  PROVE  Uses(table, S, d) = Uses(other, S, d)
<1>1. Pages(table, S, d) = Pages(other, S, d)
  BY DEF Pages
<1> QED
  BY <1>1 DEF Uses, Pages

\* The pages of one space, as places in the page tables.
LEMMA OneColumn ==
  ASSUME NEW m, NEW P, IsFiniteSet(P)
  PROVE  IsFiniteSet({m} \X P) /\ Cardinality({m} \X P) = Cardinality(P)
<1>1. IsFiniteSet({m}) /\ Cardinality({m}) = 1 /\ Cardinality(P) \in Nat
  BY FS_Singleton, FS_CardinalityType
<1>2. IsFiniteSet({m} \X P) /\ Cardinality({m} \X P) = Cardinality({m}) * Cardinality(P)
  BY <1>1, FS_Product
<1> QED
  BY <1>1, <1>2

\* The page tables differ in m's only, and there on the pages S.
Elsewhere(old, new, m) == \A n \in Space \ {m} : new[n] = old[n]
Outside(old, new, m, S) ==
  Elsewhere(old, new, m) /\ \A p \in Page \ S : new[m][p] = old[m][p]

\* When one page table changes, the count changes by what that table uses.
LEMMA OneTable ==
  ASSUME NEW old, NEW new, NEW m \in Space, NEW d, Elsewhere(old, new, m)
  PROVE  Cardinality(Everywhere(new, d)) + Uses(old[m], Page, d)
           = Cardinality(Everywhere(old, d)) + Uses(new[m], Page, d)
<1> DEFINE Rest(tables) == {q \in (Space \ {m}) \X Page : Leads(tables[q[1]][q[2]], d)}
<1>1. ASSUME NEW tables
      PROVE  /\ IsFiniteSet(Rest(tables)) /\ Cardinality(Rest(tables)) \in Nat
             /\ Cardinality(Everywhere(tables, d))
                  = Cardinality(Rest(tables)) + Uses(tables[m], Page, d)
  <2> DEFINE P == Pages(tables[m], Page, d)
  <2>1. Everywhere(tables, d) = Rest(tables) \cup ({m} \X P)
    BY DEF Everywhere, Pages
  <2>2. Rest(tables) \cap ({m} \X P) = {}
    OBVIOUS
  <2>3. IsFiniteSet(P) /\ Cardinality(P) = Uses(tables[m], Page, d) /\ Cardinality(P) \in Nat
    BY Finite, FS_CardinalityType DEF Uses, Pages
  <2>4. Rest(tables) \in SUBSET Everywhere(tables, d)
    BY DEF Everywhere
  <2>5. IsFiniteSet(Rest(tables)) /\ Cardinality(Rest(tables)) \in Nat
    BY <2>4, Finite, FS_Subset, FS_CardinalityType
  <2> HIDE DEF P, Rest
  <2>6. IsFiniteSet({m} \X P) /\ Cardinality({m} \X P) = Cardinality(P)
    BY <2>3, OneColumn
  <2>7. Cardinality(Rest(tables) \cup ({m} \X P)) = Cardinality(Rest(tables)) + Cardinality(P)
    <3>1. Cardinality(Rest(tables) \cup ({m} \X P))
            = Cardinality(Rest(tables)) + Cardinality({m} \X P)
                - Cardinality(Rest(tables) \cap ({m} \X P))
      BY <2>5, <2>6, FS_Union
    <3>2. Cardinality(Rest(tables) \cap ({m} \X P)) = 0
      BY <2>2, FS_EmptySet
    <3> QED
      BY <2>3, <2>5, <2>6, <3>1, <3>2
  <2> QED
    BY <2>1, <2>3, <2>5, <2>7
<1>2. Rest(new) = Rest(old)
  BY DEF Elsewhere
<1>3. Uses(old[m], Page, d) \in Nat /\ Uses(new[m], Page, d) \in Nat
  BY Finite
<1> HIDE DEF Rest
<1> QED
  BY <1>1, <1>2, <1>3

\* What one table uses is no more than the count.
LEMMA UsesBelow ==
  ASSUME NEW tables, NEW m \in Space, NEW d, NEW S, S \subseteq Page
  PROVE  Uses(tables[m], S, d) <= Cardinality(Everywhere(tables, d))
<1>1. Pages(tables[m], S, d) = Pages(tables[m], S, d) \cap Page
  BY DEF Pages
<1> DEFINE P == Pages(tables[m], S, d)
<1>2. IsFiniteSet(P) /\ Cardinality(P) = Uses(tables[m], S, d) /\ Cardinality(P) \in Nat
  BY Finite DEF Uses, Pages
<1>3. {m} \X P \in SUBSET Everywhere(tables, d)
  BY DEF Everywhere, Pages
<1> HIDE DEF P
<1>4. IsFiniteSet({m} \X P) /\ Cardinality({m} \X P) = Cardinality(P)
  BY <1>2, OneColumn
<1> QED
  BY <1>2, <1>3, <1>4, Finite, FS_Subset

(***************************************************************************)
(* What mapping and unmapping do                                           *)
(***************************************************************************)

\* The counts of data, as CountsExact has them.
DataCounted == \A d \in Data : dataRefs[d] = Cardinality(Everywhere(pt, d))

\* What a guest sees of a page.
Show(m, p) == IF pt[m][p] = None THEN None ELSE contents[pt[m][p].data][pt[m][p].off]

DataTypes ==
  /\ changes \in [Space -> Nat]
  /\ pt \in [Space -> [Page -> PageEntry \cup {None}]]
  /\ dataRefs \in [Data -> Nat]
  /\ contents \in [Data -> [Page -> Content]]

\* The pages S of m may change, and nothing else that can be seen; an entry
\* that changes is not shared, and the counter tells of it.
Repaints(m, S) ==
  /\ DataTypes' /\ DataCounted'
  /\ \A n \in Space : changes[n] <= changes'[n]
  /\ \A n \in Space, q \in Page : pt'[n][q] # pt[n][q] =>
       /\ n = m /\ q \in S
       /\ Has(n, q) => changes[m] < changes'[m]
       /\ Has(n, q)' => ~Shared(n, q)'
  /\ \A n \in Space, q \in Page : ~(n = m /\ q \in S) => Show(n, q)' = Show(n, q)

\* The same of any change that the counter of m tells.
Alters(m) ==
  /\ DataTypes' /\ DataCounted'
  /\ \A n \in Space : changes[n] <= changes'[n]
  /\ \A n \in Space, q \in Page : pt'[n][q] # pt[n][q] =>
       n = m /\ (Has(n, q) => changes[m] < changes'[m])

\* Repainting pages alters one space only.
LEMMA RepaintAlters ==
  ASSUME NEW m, NEW S, Repaints(m, S)
  PROVE  Alters(m)
  BY DEF Repaints, Alters

\* No entry leads to an object whose count is 0, so data_alloc may hand it out.
LEMMA UnusedObjects ==
  ASSUME NEW tables, NEW d, Cardinality(Everywhere(tables, d)) = 0
  PROVE  \A n \in Space, q \in Page : ~Leads(tables[n][q], d)
<1>1. IsFiniteSet(Everywhere(tables, d))
  BY Finite
<1>2. Everywhere(tables, d) = {}
  BY <1>1, FS_EmptySet
<1>3. ASSUME NEW n \in Space, NEW q \in Page, Leads(tables[n][q], d)
      PROVE  FALSE
  <2>1. <<n, q>> \in Everywhere(tables, d)
    BY <1>3 DEF Everywhere
  <2> QED
    BY <1>2, <2>1
<1> QED
  BY <1>3

NoneOf(table, S) == \A p \in S : table[p] = None
LeadTo(table, S, d, e) == \A p \in S : Leads(table[p], e) <=> e = d

\* When the pages S of a table go, the count goes down by what they used.
LEMMA CountDropped ==
  \A old, new, S, d : \A m \in Space :
    S \subseteq Page /\ Outside(old, new, m, S) /\ NoneOf(new[m], S) =>
      Cardinality(Everywhere(new, d)) = Cardinality(Everywhere(old, d)) - Uses(old[m], S, d)
<1> SUFFICES ASSUME NEW old, NEW new, NEW S, NEW d, NEW m \in Space,
                    S \subseteq Page, Outside(old, new, m, S), NoneOf(new[m], S)
             PROVE  Cardinality(Everywhere(new, d))
                      = Cardinality(Everywhere(old, d)) - Uses(old[m], S, d)
  OBVIOUS
<1>1. Cardinality(Everywhere(new, d)) + Uses(old[m], Page, d)
        = Cardinality(Everywhere(old, d)) + Uses(new[m], Page, d)
  BY OneTable DEF Outside
<1>2. /\ Uses(old[m], Page, d) = Uses(old[m], S, d) + Uses(old[m], Page \ S, d)
      /\ Uses(new[m], Page, d) = Uses(new[m], S, d) + Uses(new[m], Page \ S, d)
  <2>1. Page = S \cup (Page \ S) /\ S \cap (Page \ S) = {} /\ Page \ S \subseteq Page
    OBVIOUS
  <2> QED
    BY <2>1, UsesSplit
<1>3. Uses(new[m], S, d) = 0
  BY UsesNone DEF NoneOf, Leads
<1>4. Uses(new[m], Page \ S, d) = Uses(old[m], Page \ S, d)
  BY UsesSame DEF Outside
<1>5. /\ Uses(old[m], S, d) \in Nat /\ Uses(old[m], Page \ S, d) \in Nat
      /\ Cardinality(Everywhere(new, d)) \in Nat /\ Cardinality(Everywhere(old, d)) \in Nat
  BY Finite
<1> QED
  BY <1>1, <1>2, <1>3, <1>4, <1>5

\* When the pages S come to lead to d, which was not in use, that is the count of
\* d, and the others go down by what they had there.
LEMMA CountPut ==
  \A old, new, S, d, e : \A m \in Space :
    /\ S \subseteq Page /\ Cardinality(Everywhere(old, d)) = 0
    /\ Outside(old, new, m, S) /\ LeadTo(new[m], S, d, e)
    => Cardinality(Everywhere(new, e)) =
         IF e = d THEN Cardinality(S)
         ELSE Cardinality(Everywhere(old, e)) - Uses(old[m], S, e)
<1> SUFFICES ASSUME NEW old, NEW new, NEW S, NEW d, NEW e, NEW m \in Space, S \subseteq Page,
                    Cardinality(Everywhere(old, d)) = 0,
                    Outside(old, new, m, S), LeadTo(new[m], S, d, e)
             PROVE  Cardinality(Everywhere(new, e)) =
                      IF e = d THEN Cardinality(S)
                      ELSE Cardinality(Everywhere(old, e)) - Uses(old[m], S, e)
  OBVIOUS
<1>1. Cardinality(Everywhere(new, e)) + Uses(old[m], Page, e)
        = Cardinality(Everywhere(old, e)) + Uses(new[m], Page, e)
  BY OneTable DEF Outside
<1>2. /\ Uses(old[m], Page, e) = Uses(old[m], S, e) + Uses(old[m], Page \ S, e)
      /\ Uses(new[m], Page, e) = Uses(new[m], S, e) + Uses(new[m], Page \ S, e)
  <2>1. Page = S \cup (Page \ S) /\ S \cap (Page \ S) = {} /\ Page \ S \subseteq Page
    OBVIOUS
  <2> QED
    BY <2>1, UsesSplit
<1>3. Uses(new[m], Page \ S, e) = Uses(old[m], Page \ S, e)
  BY UsesSame DEF Outside
<1>4. /\ Uses(old[m], S, e) \in Nat /\ Uses(old[m], Page \ S, e) \in Nat
      /\ Cardinality(Everywhere(new, e)) \in Nat /\ Cardinality(Everywhere(old, e)) \in Nat
      /\ Uses(new[m], S, e) \in Nat
  BY Finite
<1>5. CASE e = d
  <2>1. Uses(old[m], S, d) = 0
    <3>1. \A p \in S : ~Leads(old[m][p], d)
      BY UnusedObjects
    <3> QED
      BY <3>1, UsesNone
  <2>2. Uses(new[m], S, d) = Cardinality(S)
    BY <1>5, UsesAll DEF LeadTo
  <2> QED
    BY <1>1, <1>2, <1>3, <1>4, <1>5, <2>1, <2>2
<1>6. CASE e # d
  <2>1. Uses(new[m], S, e) = 0
    BY <1>6, UsesNone DEF LeadTo
  <2> QED
    BY <1>1, <1>2, <1>3, <1>4, <1>6, <2>1
<1> QED
  BY <1>5, <1>6

\* pt_map: the pages now show what was mapped, and the counts stay exact.
LEMMA MapFacts ==
  ASSUME DataTypes, DataCounted, NEW m \in Space, NEW S, S \subseteq Page, NEW first \in Nat,
         \A p \in S : p - first \in Page, NEW flags \in SUBSET Flag,
         NEW bytes \in [Page -> Content], PtMap(m, S, first, flags, bytes)
  PROVE  /\ Repaints(m, S)
         /\ \A p \in S : Show(m, p)' = bytes[p - first]
         /\ \E d \in Data : \A p \in S : pt'[m][p] = Entry(d, p - first, flags)
<1> DEFINE d == NewData(dataRefs)
           counts == [Dropped(pt[m], S) EXCEPT ![d] = Cardinality(S)]
<1>1. /\ d \in Data /\ dataRefs[d] = 0
      /\ pt' = [pt EXCEPT ![m] =
                  [p \in Page |-> IF p \in S THEN Entry(d, p - first, flags) ELSE @[p]]]
      /\ dataRefs' = counts
      /\ Keep(counts, d, bytes)
      /\ changes' = [changes EXCEPT ![m] = @ + Cardinality({p \in S : Has(m, p)})]
  BY DEF PtMap, Room, NewData
<1> HIDE DEF d
<1>2. /\ \A n \in Space \ {m} : pt'[n] = pt[n]
      /\ \A p \in S : pt'[m][p] = Entry(d, p - first, flags)
      /\ \A p \in Page \ S : pt'[m][p] = pt[m][p]
  BY <1>1 DEF DataTypes
<1>3. \A p \in S : /\ Entry(d, p - first, flags) \in PageEntry
                   /\ Entry(d, p - first, flags).data = d
                   /\ Entry(d, p - first, flags).off = p - first
                   /\ Leads(Entry(d, p - first, flags), d)
  BY <1>1, NoneIsNothing DEF Entry, PageEntry, Leads
<1>4. pt' \in [Space -> [Page -> PageEntry \cup {None}]]
  BY <1>1, <1>3 DEF DataTypes
<1>5. counts \in [Data -> Nat] /\ \A e \in Data : counts[e] = Cardinality(Everywhere(pt', e))
  <2>1. \A p \in S : Leads(pt'[m][p], d) /\ \A e \in Data \ {d} : ~Leads(pt'[m][p], e)
    BY <1>2, <1>3 DEF Leads
  <2>2. /\ dataRefs \in [Data -> Nat]
        /\ \A e \in Data : dataRefs[e] = Cardinality(Everywhere(pt, e))
    BY DEF DataTypes, DataCounted
  <2>3. ASSUME NEW e \in Data
        PROVE  counts[e] = Cardinality(Everywhere(pt', e))
    <3>1. counts[e] = IF e = d THEN Cardinality(S) ELSE dataRefs[e] - Uses(pt[m], S, e)
      BY <1>1 DEF Dropped
    <3>2. Cardinality(Everywhere(pt', e)) =
            IF e = d THEN Cardinality(S)
            ELSE Cardinality(Everywhere(pt, e)) - Uses(pt[m], S, e)
      <4>1. Outside(pt, pt', m, S) /\ LeadTo(pt'[m], S, d, e)
        BY <1>2, <2>1 DEF Outside, Elsewhere, LeadTo
      <4>2. Cardinality(Everywhere(pt, d)) = 0
        BY <1>1, <2>2
      <4> QED
        BY <4>1, <4>2, CountPut
    <3> QED
      BY <2>2, <3>1, <3>2
  <2>4. counts = [e \in Data |-> counts[e]]
    BY DEF Dropped
  <2>5. \A e \in Data : Cardinality(Everywhere(pt', e)) \in Nat
    BY Finite
  <2> HIDE DEF counts
  <2> QED
    BY <2>3, <2>4, <2>5
<1> HIDE DEF counts
<1>6. DataCounted'
  BY <1>1, <1>5 DEF DataCounted
<1>7. /\ contents' \in [Data -> [Page -> Content]]
      /\ contents'[d] = bytes
      /\ \A e \in Data : e # d /\ counts[e] # 0 => contents'[e] = contents[e]
  <2>1. Zeroes \in [Page -> Content]
    BY MemoryAssumption DEF Zeroes, ZeroPage, Content
  <2>2. contents' = [e \in Data |-> IF e = d THEN bytes
                                   ELSE IF counts[e] = 0 THEN Zeroes ELSE contents[e]]
    BY <1>1 DEF Keep
  <2>3. contents \in [Data -> [Page -> Content]]
    BY DEF DataTypes
  <2> QED
    BY <1>1, <2>1, <2>2, <2>3
<1>8. /\ changes' \in [Space -> Nat]
      /\ \A n \in Space : changes[n] <= changes'[n]
      /\ (\E p \in S : Has(m, p)) => changes[m] < changes'[m]
  <2> DEFINE H == {p \in S : Has(m, p)}
  <2>1. H \in SUBSET Page
    OBVIOUS
  <2>2. IsFiniteSet(H) /\ Cardinality(H) \in Nat
    BY <2>1, Finite, FS_Subset, FS_CardinalityType
  <2>3. H # {} => Cardinality(H) > 0
    BY <2>2, FS_EmptySet
  <2>4. changes' = [changes EXCEPT ![m] = @ + Cardinality(H)] /\ changes \in [Space -> Nat]
    BY <1>1 DEF DataTypes
  <2>5. (\E p \in S : Has(m, p)) => H # {}
    OBVIOUS
  <2> HIDE DEF H
  <2> QED
    BY <2>2, <2>3, <2>4, <2>5
<1>9. \A n \in Space, q \in Page : ~Leads(pt[n][q], d)
  BY <1>1, UnusedObjects DEF DataCounted
<1>10. \A n \in Space, q \in Page : ~(n = m /\ q \in S) =>
         pt'[n][q] = pt[n][q] /\ Show(n, q)' = Show(n, q)
  <2> SUFFICES ASSUME NEW n \in Space, NEW q \in Page, ~(n = m /\ q \in S)
               PROVE  pt'[n][q] = pt[n][q] /\ Show(n, q)' = Show(n, q)
    OBVIOUS
  <2>1. pt'[n][q] = pt[n][q]
    BY <1>2
  <2>2. CASE pt[n][q] = None
    BY <2>1, <2>2 DEF Show
  <2>3. CASE pt[n][q] # None
    <3> DEFINE e == pt[n][q].data
    <3>1. e \in Data /\ Leads(pt'[n][q], e) /\ e # d
      BY <1>9, <2>1, <2>3 DEF Leads, DataTypes, PageEntry
    <3>2. Cardinality(Everywhere(pt', e)) # 0
      BY <3>1, UnusedObjects
    <3> QED
      BY <1>5, <1>7, <2>1, <2>3, <3>1, <3>2 DEF Show
  <2> QED
    BY <2>2, <2>3
<1>11. \A p \in S : Show(m, p)' = bytes[p - first]
  BY <1>2, <1>3, <1>7 DEF Show, Leads
<1>12. \A p \in S : ~Shared(m, p)'
  <2> SUFFICES ASSUME NEW p \in S, NEW n \in Space, NEW q \in Page, <<n, q>> # <<m, p>>,
                      Has(n, q)', pt'[n][q].data = pt'[m][p].data,
                      pt'[n][q].off = pt'[m][p].off
               PROVE  FALSE
    BY DEF Shared
  <2>1. pt'[n][q].data = d /\ pt'[n][q].off = p - first
    BY <1>2, <1>3
  <2>2. CASE n = m /\ q \in S
    <3>1. q - first = p - first /\ q # p
      BY <1>2, <1>3, <2>1, <2>2
    <3>2. p \in Nat /\ q \in Nat /\ p - first \in Nat
      BY DEF Page
    <3> QED
      BY <3>1, <3>2
  <2>3. CASE ~(n = m /\ q \in S)
    BY <1>9, <1>10, <2>1, <2>3 DEF Has, Leads
  <2> QED
    BY <2>2, <2>3
<1>13. Repaints(m, S)
  <2>1. DataTypes'
    BY <1>1, <1>4, <1>5, <1>7, <1>8 DEF DataTypes
  <2>2. \A n \in Space, q \in Page : pt'[n][q] # pt[n][q] =>
          /\ n = m /\ q \in S
          /\ Has(n, q) => changes[m] < changes'[m]
          /\ Has(n, q)' => ~Shared(n, q)'
    BY <1>8, <1>10, <1>12
  <2> QED
    BY <1>6, <1>8, <1>10, <2>1, <2>2 DEF Repaints
<1> QED
  BY <1>1, <1>2, <1>11, <1>13

\* pt_unmap, apart from the counter.
Unmaps(m, S) ==
  /\ pt' = [pt EXCEPT ![m] = [p \in Page |-> IF p \in S THEN None ELSE @[p]]]
  /\ dataRefs' = Dropped(pt[m], S)
  /\ Keep(dataRefs', None, Zeroes)

\* pt_unmap drops the counts it should: the entries and objects of other pages stay.
LEMMA UnmapCore ==
  ASSUME DataTypes, DataCounted, NEW m \in Space, NEW S, S \subseteq Page, Unmaps(m, S),
         changes' \in [Space -> Nat]
  PROVE  /\ DataTypes' /\ DataCounted'
         /\ \A p \in S : pt'[m][p] = None /\ Show(m, p)' = None
         /\ \A n \in Space, q \in Page : ~(n = m /\ q \in S) =>
              pt'[n][q] = pt[n][q] /\ Show(n, q)' = Show(n, q)
<1>1. /\ \A n \in Space \ {m} : pt'[n] = pt[n]
      /\ \A p \in S : pt'[m][p] = None
      /\ \A p \in Page \ S : pt'[m][p] = pt[m][p]
      /\ pt' \in [Space -> [Page -> PageEntry \cup {None}]]
  BY DEF DataTypes, Unmaps
<1>2. dataRefs' \in [Data -> Nat] /\ \A d \in Data : dataRefs'[d] = Cardinality(Everywhere(pt', d))
  <2>1. /\ dataRefs \in [Data -> Nat]
        /\ \A e \in Data : dataRefs[e] = Cardinality(Everywhere(pt, e))
    BY DEF DataTypes, DataCounted
  <2>2. ASSUME NEW d \in Data
        PROVE  dataRefs'[d] = Cardinality(Everywhere(pt', d))
    <3>1. dataRefs'[d] = dataRefs[d] - Uses(pt[m], S, d)
      BY DEF Unmaps, Dropped
    <3>2. Cardinality(Everywhere(pt', d)) = Cardinality(Everywhere(pt, d)) - Uses(pt[m], S, d)
      <4>1. Outside(pt, pt', m, S) /\ NoneOf(pt'[m], S)
        BY <1>1 DEF Outside, Elsewhere, NoneOf
      <4> QED
        BY <4>1, CountDropped
    <3> QED
      BY <2>1, <3>1, <3>2
  <2>3. dataRefs' = [d \in Data |-> dataRefs'[d]]
    BY DEF Unmaps, Dropped
  <2>4. \A d \in Data : Cardinality(Everywhere(pt', d)) \in Nat
    BY Finite
  <2> QED
    BY <2>2, <2>3, <2>4
<1>3. /\ contents' \in [Data -> [Page -> Content]]
      /\ \A e \in Data : dataRefs'[e] # 0 => contents'[e] = contents[e]
  <2>1. Zeroes \in [Page -> Content]
    BY MemoryAssumption DEF Zeroes, ZeroPage, Content
  <2>2. contents' = [e \in Data |-> IF e = None THEN Zeroes
                                   ELSE IF dataRefs'[e] = 0 THEN Zeroes ELSE contents[e]]
    BY DEF Keep, Unmaps
  <2>3. contents \in [Data -> [Page -> Content]]
    BY DEF DataTypes
  <2> QED
    BY <2>1, <2>2, <2>3, NoneIsNothing
<1>4. \A n \in Space, q \in Page : ~(n = m /\ q \in S) =>
         pt'[n][q] = pt[n][q] /\ Show(n, q)' = Show(n, q)
  <2> SUFFICES ASSUME NEW n \in Space, NEW q \in Page, ~(n = m /\ q \in S)
               PROVE  pt'[n][q] = pt[n][q] /\ Show(n, q)' = Show(n, q)
    OBVIOUS
  <2>1. pt'[n][q] = pt[n][q]
    BY <1>1
  <2>2. CASE pt[n][q] = None
    BY <2>1, <2>2 DEF Show
  <2>3. CASE pt[n][q] # None
    <3> DEFINE e == pt[n][q].data
    <3>1. e \in Data /\ Leads(pt'[n][q], e)
      BY <2>1, <2>3 DEF Leads, DataTypes, PageEntry
    <3>2. Cardinality(Everywhere(pt', e)) # 0
      BY <3>1, UnusedObjects
    <3> QED
      BY <1>2, <1>3, <2>1, <2>3, <3>1, <3>2 DEF Show
  <2> QED
    BY <2>2, <2>3
<1>5. DataTypes' /\ DataCounted'
  BY <1>1, <1>2, <1>3 DEF DataTypes, DataCounted
<1> QED
  BY <1>1, <1>4, <1>5 DEF Show

\* pt_unmap repaints the pages, if it moves the counter when one was mapped.
LEMMA UnmapFacts ==
  ASSUME DataTypes, DataCounted, NEW m \in Space, NEW S, S \subseteq Page, Unmaps(m, S),
         changes' \in [Space -> Nat], \A n \in Space : changes[n] <= changes'[n],
         \A p \in S : Has(m, p) => changes[m] < changes'[m]
  PROVE  /\ Repaints(m, S)
         /\ \A p \in S : pt'[m][p] = None /\ Show(m, p)' = None
<1>1. /\ DataTypes' /\ DataCounted'
      /\ \A p \in S : pt'[m][p] = None /\ Show(m, p)' = None
      /\ \A n \in Space, q \in Page : ~(n = m /\ q \in S) =>
           pt'[n][q] = pt[n][q] /\ Show(n, q)' = Show(n, q)
  BY UnmapCore
<1>2. \A n \in Space, q \in Page : pt'[n][q] # pt[n][q] =>
        /\ n = m /\ q \in S
        /\ Has(n, q) => changes[m] < changes'[m]
        /\ Has(n, q)' => ~Shared(n, q)'
  BY <1>1 DEF Has
<1> QED
  BY <1>1, <1>2 DEF Repaints

\* A store through an entry that may be written to, or a load.
LEMMA StoreFacts ==
  ASSUME DataTypes, DataCounted, SharedAreCow, NEW m \in Space, NEW p \in Page, Has(m, p),
         NEW write \in BOOLEAN, NEW c \in Cell, NEW v \in Value,
         write => Writable(pt[m][p]),
         contents' = [contents EXCEPT ![pt[m][p].data][pt[m][p].off] =
                        Written(Shown(m, p), write, c, v)],
         UNCHANGED <<pt, dataRefs, changes>>
  PROVE  Repaints(m, {p}) /\ Show(m, p)' = Written(Shown(m, p), write, c, v)
<1> DEFINE d == pt[m][p].data
           o == pt[m][p].off
           page == Written(Shown(m, p), write, c, v)
<1>1. d \in Data /\ o \in Page /\ Shown(m, p) = contents[d][o] /\ contents[d][o] \in Content
  BY DEF DataTypes, Has, PageEntry, Shown
<1>2. page \in Content
  BY <1>1 DEF Written, Content
<1>3. contents \in [Data -> [Page -> Content]]
  BY DEF DataTypes
<1>4. contents' = [contents EXCEPT ![d][o] = page]
  OBVIOUS
<1> HIDE DEF page
<1>5. /\ contents' \in [Data -> [Page -> Content]]
      /\ contents'[d][o] = page
      /\ \A e \in Data, k \in Page : <<e, k>> # <<d, o>> => contents'[e][k] = contents[e][k]
  BY <1>1, <1>2, <1>3, <1>4
<1>6. DataTypes' /\ DataCounted'
  BY <1>5 DEF DataTypes, DataCounted
<1>7. Show(m, p)' = page
  BY <1>5 DEF Show, Has
<1>8. ASSUME NEW n \in Space, NEW q \in Page, ~(n = m /\ q = p)
      PROVE  Show(n, q)' = Show(n, q)
  <2>1. CASE pt[n][q] = None
    BY <2>1 DEF Show
  <2>2. CASE pt[n][q] # None
    <3>1. pt[n][q].data \in Data /\ pt[n][q].off \in Page
      BY <2>2 DEF DataTypes, PageEntry
    <3>2. CASE <<pt[n][q].data, pt[n][q].off>> # <<d, o>>
      BY <1>5, <3>1, <3>2, <2>2 DEF Show
    <3>3. CASE <<pt[n][q].data, pt[n][q].off>> = <<d, o>>
      <4>1. Shared(m, p)
        BY <1>8, <2>2, <3>3 DEF Shared, Has
      <4>2. ~Writable(pt[m][p])
        BY <4>1 DEF SharedAreCow
      <4>3. page = contents[d][o]
        BY <1>1, <4>2 DEF Written, page
      <4> QED
        BY <1>5, <2>2, <3>3, <4>3 DEF Show
    <3> QED
      BY <3>2, <3>3
  <2> QED
    BY <2>1, <2>2
<1>9. Repaints(m, {p})
  <2>1. \A n \in Space : changes[n] <= changes'[n]
    BY DEF DataTypes
  <2> QED
    BY <1>6, <1>8, <2>1 DEF Repaints
<1> QED
  BY <1>7, <1>9 DEF page

\* What mem_ptr leaves of the page it was called for.
LEMMA MemPtrFacts ==
  ASSUME DataTypes, DataCounted, SharedAreCow, NEW t \in Thread,
         NEW m \in Space, NEW p \in Page,
         NEW write \in BOOLEAN, NEW c \in Cell, NEW v \in Value, MemPtr(t, m, p, write, c, v)
  PROVE  /\ Repaints(m, {p})
         /\ Show(m, p)' = Written(Shown(m, p), write, c, v)
         /\ pt'[m][p] # None /\ (write => Writable(pt'[m][p]))
         /\ Has(m, p) \/ \E q \in Page : q > p /\ Has(m, q)
         /\ \/ suspect' = suspect /\ (Has(m, p) => pt'[m][p] = pt[m][p])
            \/ suspect' = [u \in Thread |-> suspect[u] \/ u \in Running(t, m)]
<1> DEFINE page == Written(Shown(m, p), write, c, v)
<1>1. /\ Has(m, p) => pt[m][p] \in PageEntry
      /\ Has(m, p) => (write => "w" \in pt[m][p].flags)
  BY DEF MemPtr, Faults, DataTypes, Has
<1>2. Has(m, p) \/ \E q \in Page : q > p /\ Has(m, q)
  BY DEF MemPtr, Faults, GrowsInto
<1>3. CASE Has(m, p) /\ ~BreaksCow(m, p, write)
  <2>1. contents' = [contents EXCEPT ![pt[m][p].data][pt[m][p].off] = page]
    BY <1>3 DEF MemPtr
  <2>2. UNCHANGED <<pt, dataRefs, changes>>
    BY <1>3 DEF MemPtr
  <2>3. write => Writable(pt[m][p])
    BY <1>1, <1>3 DEF BreaksCow, Writable
  <2>4. Repaints(m, {p}) /\ Show(m, p)' = Written(Shown(m, p), write, c, v)
    BY <1>3, <2>1, <2>2, <2>3, StoreFacts
  <2>5. suspect' = suspect /\ pt' = pt
    BY <1>3, <2>2 DEF MemPtr
  <2> QED
    BY <1>2, <1>3, <2>3, <2>4, <2>5 DEF Has
<1>4. CASE ~(Has(m, p) /\ ~BreaksCow(m, p, write))
  <2> DEFINE flags == IF Has(m, p) THEN pt[m][p].flags \ {"cow"} ELSE {"w", "grow", "anon"}
             bytes == [Zeroes EXCEPT ![0] = page]
  <2>1. PtMap(m, {p}, p, flags, bytes)
    BY <1>4 DEF MemPtr
  <2>2. flags \in SUBSET Flag /\ (write => "w" \in flags /\ "cow" \notin flags)
    BY <1>1 DEF PageEntry, Flag
  <2>3. p \in Nat /\ p - p = 0 /\ 0 \in Page
    BY MemoryAssumption DEF Page
  <2>4. page \in Content
    <3>1. Shown(m, p) \in Content
      BY <1>1, MemoryAssumption DEF Shown, DataTypes, Content, ZeroPage, PageEntry
    <3> QED
      BY <3>1 DEF Written, Content
  <2>5. bytes \in [Page -> Content] /\ bytes[0] = page
    <3>1. Zeroes \in [Page -> Content]
      BY MemoryAssumption DEF Zeroes, ZeroPage, Content
    <3> QED
      BY <2>3, <2>4, <3>1
  <2> HIDE DEF flags, bytes
  <2>6. /\ Repaints(m, {p})
        /\ Show(m, p)' = bytes[p - p]
        /\ \E d \in Data : pt'[m][p] = Entry(d, p - p, flags)
    <3>1. {p} \subseteq Page /\ p \in Nat /\ \A q \in {p} : q - p \in Page
      BY <2>3
    <3>2. /\ Repaints(m, {p})
          /\ \A q \in {p} : Show(m, q)' = bytes[q - p]
          /\ \E d \in Data : \A q \in {p} : pt'[m][q] = Entry(d, q - p, flags)
      BY <2>1, <2>2, <2>5, <3>1, MapFacts
    <3> QED
      BY <3>2
  <2>7. pt'[m][p] # None /\ (write => Writable(pt'[m][p]))
    BY <2>2, <2>3, <2>6, NoneIsNothing DEF Entry, Writable, PageEntry
  <2>8. IF Has(m, p) THEN suspect' = [u \in Thread |-> suspect[u] \/ u \in Running(t, m)]
                    ELSE suspect' = suspect
    BY <1>4 DEF MemPtr, BreaksCow
  <2> QED
    BY <1>2, <2>3, <2>5, <2>6, <2>7, <2>8
<1> QED
  BY <1>3, <1>4

(***************************************************************************)
(* What the invariant says of one thread                                   *)
(***************************************************************************)
FlushAt(u) ==
  /\ pc[u] = "guest" => seen[u] <= changes[mem[u]]
  /\ pc[u] # "unused" /\ ~suspect[u] =>
    \A i \in 0 .. TlbSize - 1 : tlb[u][i] # None =>
      /\ seen[u] <= changes[mem[u]]
      /\ pc[u] = "guest" \/ seen[u] = changes[mem[u]] => Current(u, tlb[u][i])

ThreadTypes ==
  /\ pc \in [Thread -> {"guest", "kernel", "ret", "unused"}]
  /\ mem \in [Thread -> Space \cup {None}]
  /\ \A t \in Thread : mem[t] = None <=> pc[t] = "unused"
  /\ tlb \in [Thread -> [0 .. TlbSize - 1 -> TlbEntry \cup {None}]]
  /\ seen \in [Thread -> Nat]
  /\ suspect \in [Thread -> BOOLEAN]

CountTypes ==
  /\ refs \in [Space -> Nat] /\ brk \in [Space -> Nat]
  /\ ops \in Nat /\ tasks \in Nat /\ stores \in Nat
  /\ wild \in {None, "stale", "mprotect", "mremap"}

Who(f, m) == {t \in Thread : f[t] = m}
ThreadsCounted == \A m \in Space : refs[m] = Cardinality(Who(mem, m))

InvParts ==
  /\ ThreadTypes /\ CountTypes /\ DataTypes
  /\ DataCounted /\ ThreadsCounted /\ EmptyWhenLeft /\ UnusedAreClean
  /\ TlbIndexed /\ CowKept
  /\ \A u \in Thread : FlushAt(u)

\* The invariant, a thread and an object at a time.
LEMMA Parts == (Inv <=> InvParts) /\ (Inv <=> InvParts)'
<1>1. Inv <=> InvParts
  BY DEF Inv, InvParts, TypeOK, CountsExact, ThreadTypes, CountTypes, DataTypes, DataCounted,
         Everywhere, ThreadsCounted, Who, FlushPending, SeenBehind, FlushAt
<1>2. (Inv <=> InvParts)'
  BY DEF Inv, InvParts, TypeOK, CountsExact, ThreadTypes, CountTypes, DataTypes, DataCounted,
         Everywhere, ThreadsCounted, Who, FlushPending, SeenBehind, FlushAt
<1> QED
  BY <1>1, <1>2

\* What another step leaves of thread u: it runs in the same space with the same
\* TLB, and where the table changes under that, the counter tells it, and a
\* thread in the guest is suspect.
Bystander(u) ==
  /\ mem'[u] = mem[u] /\ tlb'[u] = tlb[u] /\ seen'[u] = seen[u]
  /\ pc'[u] = "unused" <=> pc[u] = "unused"
  /\ pc'[u] = "guest" => pc[u] = "guest"
  /\ suspect[u] => suspect'[u]
  /\ mem[u] # None =>
       /\ changes[mem[u]] <= changes'[mem[u]]
       /\ \A q \in Page : Has(mem[u], q) /\ pt'[mem[u]][q] # pt[mem[u]][q] =>
            /\ changes[mem[u]] < changes'[mem[u]]
            /\ pc'[u] = "guest" => suspect'[u]

\* A thread in another space, or one that is told, keeps a TLB that is fresh or due to be flushed.
LEMMA BystanderFresh ==
  ASSUME ThreadTypes, DataTypes, changes' \in [Space -> Nat], NEW u \in Thread,
         FlushAt(u), Bystander(u)
  PROVE  FlushAt(u)'
<1>0. pc'[u] = "guest" => seen'[u] <= changes'[mem'[u]]
  <2> SUFFICES ASSUME pc'[u] = "guest"
               PROVE  seen'[u] <= changes'[mem'[u]]
    OBVIOUS
  <2>1. pc[u] = "guest" /\ mem'[u] = mem[u] /\ seen'[u] = seen[u] /\ seen[u] <= changes[mem[u]]
    BY DEF FlushAt, Bystander
  <2>2. mem[u] # None /\ mem[u] \in Space \cup {None} /\ seen[u] \in Nat
    BY <2>1 DEF ThreadTypes
  <2>3. changes[mem[u]] <= changes'[mem[u]]
    BY <2>2 DEF Bystander
  <2>4. changes[mem[u]] \in Nat /\ changes'[mem[u]] \in Nat
    BY <2>2 DEF DataTypes
  <2> QED
    BY <2>1, <2>2, <2>3, <2>4
<1> SUFFICES ASSUME pc'[u] # "unused", ~suspect'[u], NEW i \in 0 .. TlbSize - 1,
                    tlb'[u][i] # None
             PROVE  /\ seen'[u] <= changes'[mem'[u]]
                    /\ (pc'[u] = "guest" \/ seen'[u] = changes'[mem'[u]]
                          => Current(u, tlb[u][i])')
  BY <1>0, Zenon DEF FlushAt
<1> DEFINE m == mem[u]
           e == tlb[u][i]
<1>1. /\ mem'[u] = m /\ tlb'[u] = tlb[u] /\ seen'[u] = seen[u]
      /\ pc[u] # "unused" /\ ~suspect[u] /\ e # None
      /\ pc'[u] = "guest" => pc[u] = "guest"
  BY DEF Bystander
<1>2. m \in Space /\ e \in TlbEntry /\ e.page \in Page
  <2>1. tlb[u][i] \in TlbEntry \cup {None}
    BY DEF ThreadTypes
  <2>2. mem[u] # None /\ mem[u] \in Space \cup {None}
    BY <1>1 DEF ThreadTypes
  <2> QED
    BY <1>1, <2>1, <2>2 DEF TlbEntry
<1>3. /\ seen[u] \in Nat /\ changes[m] \in Nat /\ changes'[m] \in Nat
      /\ changes[m] <= changes'[m]
  BY <1>1, <1>2 DEF ThreadTypes, DataTypes, Bystander
<1>4. /\ seen[u] <= changes[m]
      /\ pc[u] = "guest" \/ seen[u] = changes[m] => Current(u, e)
  BY <1>1 DEF FlushAt
<1>5. ASSUME pc'[u] = "guest" \/ seen'[u] = changes'[m]
      PROVE  Current(u, tlb[u][i])'
  <2>1. Current(u, e)
    BY <1>1, <1>3, <1>4, <1>5
  <2>2. Has(m, e.page)
    BY <2>1 DEF Current
  <2>3. pt'[m][e.page] = pt[m][e.page]
    BY <1>1, <1>2, <1>3, <1>4, <1>5, <2>2 DEF Bystander, ThreadTypes
  <2>4. e.page \in Page /\ pt'[m][e.page] # None
    BY <1>2, <2>2, <2>3 DEF Has
  <2> QED
    BY <1>1, <2>1, <2>3, <2>4 DEF Current, Has
<1> QED
  BY <1>1, <1>3, <1>4, <1>5

\* Copy-on-write stays where every entry that changes is the only one.
OnlyOnes ==
  \A n \in Space, q \in Page : pt'[n][q] # pt[n][q] /\ pt'[n][q] # None => ~Shared(n, q)'

\* Pages that stay shared stay copy-on-write.
LEMMA CowStays ==
  ASSUME SharedAreCow, OnlyOnes
  PROVE  SharedAreCow'
<1> SUFFICES ASSUME NEW n \in Space, NEW q \in Page, pt'[n][q] # None, Shared(n, q)'
             PROVE  ~Writable(pt'[n][q])
  BY DEF SharedAreCow, Has
<1>1. PICK k \in Space, r \in Page :
        /\ <<k, r>> # <<n, q>> /\ pt'[k][r] # None
        /\ pt'[k][r].data = pt'[n][q].data /\ pt'[k][r].off = pt'[n][q].off
  BY DEF Shared, Has
<1>2. Shared(k, r)'
  BY <1>1 DEF Shared, Has
<1>3. pt'[n][q] = pt[n][q] /\ pt'[k][r] = pt[k][r]
  BY <1>1, <1>2 DEF OnlyOnes
<1>4. Shared(n, q) /\ Has(n, q)
  BY <1>1, <1>3 DEF Shared, Has
<1> QED
  BY <1>3, <1>4 DEF SharedAreCow

\* New pages are nobody else's, so repainting shares none.
LEMMA CowOfRepaint ==
  ASSUME CowKept, wild = None, NEW m, NEW S, Repaints(m, S)
  PROVE  CowKept'
<1>1. OnlyOnes
  BY DEF Repaints, OnlyOnes, Has
<1> QED
  BY <1>1, CowStays DEF CowKept

(***************************************************************************)
(* Threads and their spaces                                                *)
(***************************************************************************)
LEMMA Members ==
  ASSUME NEW f, NEW m
  PROVE  IsFiniteSet(Who(f, m)) /\ Cardinality(Who(f, m)) \in Nat
<1>1. Who(f, m) \in SUBSET Thread
  BY DEF Who
<1> QED
  BY <1>1, MemoryAssumption, FS_Subset, FS_CardinalityType

\* A count of nothing is nobody, and a count of one is the thread itself.
LEMMA WhoIsIn ==
  ASSUME ThreadsCounted, NEW m \in Space
  PROVE  /\ refs[m] = 0 => \A u \in Thread : mem[u] # m
         /\ refs[m] = 1 => \A t, u \in Thread : mem[t] = m /\ mem[u] = m => t = u
<1> DEFINE M == Who(mem, m)
<1>1. IsFiniteSet(M) /\ refs[m] = Cardinality(M)
  BY Members DEF ThreadsCounted
<1>2. \A u \in Thread : mem[u] = m => u \in M
  BY DEF Who
<1> HIDE DEF M
<1>3. refs[m] = 0 => M = {}
  BY <1>1, FS_EmptySet
<1>4. ASSUME refs[m] = 1
      PROVE  \E x : M = {x}
  BY <1>1, <1>4, FS_Singleton
<1> QED
  BY <1>2, <1>3, <1>4

\* Those who may have cached what changes: the call waited for them, or marks
\* them, or nothing that was mapped changes.
Told(t) ==
  \/ /\ suspect' = suspect
     /\ \/ NoGuest(mem[t])
        \/ \A q \in Page : Has(mem[t], q) => pt'[mem[t]][q] = pt[mem[t]][q]
  \/ suspect' = [u \in Thread |-> suspect[u] \/ u \in Running(t, mem[t])]

\* The thread t goes on, in the same space.
GoesOn(t) ==
  /\ pc[t] # "unused"
  /\ \E x \in {"guest", "kernel", "ret"} : pc' = [pc EXCEPT ![t] = x]
  /\ mem' = mem /\ seen' = seen /\ refs' = refs

\* Every thread but the one that changes its space is a bystander of the change.
LEMMA OthersStandBy ==
  ASSUME ThreadTypes, DataTypes, NEW t \in Thread, Alters(mem[t]), Told(t), GoesOn(t),
         NEW u \in Thread, tlb'[u] = tlb[u], u # t \/ pc'[u] # "guest"
  PROVE  Bystander(u) /\ (pc[u] = "unused" => suspect'[u] = suspect[u])
<1>1. /\ mem'[u] = mem[u] /\ seen'[u] = seen[u]
      /\ pc'[u] = "unused" <=> pc[u] = "unused"
      /\ pc'[u] = "guest" => pc[u] = "guest" /\ u # t
  BY DEF GoesOn, ThreadTypes
<1>2. suspect'[u] = (suspect[u] \/ u \in Running(t, mem[t])) \/ suspect'[u] = suspect[u]
  BY DEF Told, ThreadTypes
<1>3. ASSUME mem[u] # None, NEW q \in Page, Has(mem[u], q), pt'[mem[u]][q] # pt[mem[u]][q]
      PROVE  /\ changes[mem[u]] < changes'[mem[u]]
             /\ pc'[u] = "guest" => suspect'[u]
  <2>1. mem[u] \in Space
    BY <1>3 DEF ThreadTypes
  <2>2. mem[u] = mem[t] /\ changes[mem[t]] < changes'[mem[t]]
    BY <1>3, <2>1 DEF Alters
  <2>3. ASSUME pc'[u] = "guest"
        PROVE  suspect'[u]
    <3>1. u \in Running(t, mem[t]) /\ ~NoGuest(mem[t])
      BY <1>1, <2>2, <2>3 DEF Running, NoGuest
    <3> QED
      BY <1>3, <2>2, <3>1 DEF Told
  <2> QED
    BY <2>2, <2>3
<1>4. mem[u] # None => changes[mem[u]] <= changes'[mem[u]]
  BY DEF Alters, ThreadTypes
<1>5. pc[u] = "unused" => u \notin Running(t, mem[t])
  BY DEF Running
<1>6. suspect[u] \in BOOLEAN /\ (suspect[u] => suspect'[u])
  BY <1>2 DEF ThreadTypes
<1> QED
  BY <1>1, <1>2, <1>3, <1>4, <1>5, <1>6 DEF Bystander

\* Pages change in the space of a thread that goes on.
LEMMA AlterKeeps ==
  ASSUME Inv, CowKept', NEW t \in Thread, Alters(mem[t]), Told(t), GoesOn(t), CountTypes',
         tlb' \in [Thread -> [0 .. TlbSize - 1 -> TlbEntry \cup {None}]],
         \A u \in Thread \ {t} : tlb'[u] = tlb[u],
         \A i \in 0 .. TlbSize - 1 : tlb'[t][i] # None => TlbIndex(tlb'[t][i].page) = i,
         FlushAt(t)'
  PROVE  Inv'
<1>1. /\ ThreadTypes /\ CountTypes /\ DataTypes
      /\ DataCounted /\ ThreadsCounted /\ EmptyWhenLeft /\ UnusedAreClean
      /\ TlbIndexed /\ CowKept
      /\ \A u \in Thread : FlushAt(u)
  BY Parts DEF InvParts
<1>2. ThreadTypes'
  <2>1. suspect' \in [Thread -> BOOLEAN]
    BY <1>1 DEF Told, ThreadTypes
  <2> QED
    BY <1>1, <2>1 DEF ThreadTypes, GoesOn
<1>3. DataTypes' /\ DataCounted'
  BY DEF Alters
<1>4. ThreadsCounted'
  BY <1>1 DEF ThreadsCounted, GoesOn
<1>5. EmptyWhenLeft'
  <2> SUFFICES ASSUME NEW n \in Space, refs[n] = 0
               PROVE  pt'[n] = NoPages
    BY DEF EmptyWhenLeft, GoesOn
  <2>1. pt[n] = NoPages
    BY <1>1 DEF EmptyWhenLeft
  <2>2. n # mem[t]
    BY <1>1, WhoIsIn
  <2>3. \A q \in Page : pt'[n][q] = pt[n][q]
    BY <2>2 DEF Alters
  <2>4. pt'[n] = [q \in Page |-> pt'[n][q]]
    BY <1>3 DEF DataTypes
  <2> QED
    BY <2>1, <2>3, <2>4 DEF NoPages
<1>6. \A u \in Thread \ {t} : Bystander(u) /\ (pc[u] = "unused" => suspect'[u] = suspect[u])
  BY <1>1, OthersStandBy
<1>7. UnusedAreClean'
  <2>1. pc'[t] # "unused" /\ \A u \in Thread \ {t} : pc'[u] = pc[u]
    BY <1>1 DEF GoesOn, ThreadTypes
  <2> QED
    BY <1>1, <1>6, <2>1 DEF UnusedAreClean
<1>8. TlbIndexed'
  BY <1>1 DEF TlbIndexed
<1>9. \A u \in Thread : FlushAt(u)'
  <2>1. changes' \in [Space -> Nat]
    BY <1>3 DEF DataTypes
  <2> QED
    BY <1>1, <1>6, <2>1, BystanderFresh
<1> QED
  BY <1>2, <1>3, <1>4, <1>5, <1>7, <1>8, <1>9, Parts DEF InvParts

\* The same for a thread that is not in the guest then.
LEMMA CallKeeps ==
  ASSUME Inv, CowKept', NEW t \in Thread, Alters(mem[t]), Told(t), GoesOn(t), CountTypes',
         tlb' = tlb, pc'[t] # "guest"
  PROVE  Inv'
<1>1. ThreadTypes /\ DataTypes /\ TlbIndexed /\ FlushAt(t)
  BY Parts DEF InvParts
<1>2. Bystander(t)
  BY <1>1, OthersStandBy
<1>3. changes' \in [Space -> Nat]
  BY DEF Alters, DataTypes
<1>4. FlushAt(t)'
  BY <1>1, <1>2, <1>3, BystanderFresh
<1>5. /\ tlb' \in [Thread -> [0 .. TlbSize - 1 -> TlbEntry \cup {None}]]
      /\ \A u \in Thread \ {t} : tlb'[u] = tlb[u]
      /\ \A i \in 0 .. TlbSize - 1 : tlb'[t][i] # None => TlbIndex(tlb'[t][i].page) = i
  BY <1>1 DEF ThreadTypes, TlbIndexed
<1> QED
  BY <1>4, <1>5, AlterKeeps

(***************************************************************************)
(* The calls that map and unmap                                            *)
(***************************************************************************)

\* A call of t changes pages of its own space, which show zeroes or nothing.
Remaps(t) ==
  /\ \E m \in Space, S \in SUBSET Page :
       /\ mem[t] = m /\ Repaints(m, S)
       /\ \A p \in S : Show(m, p)' \in {None, ZeroPage}
  /\ Told(t) /\ GoesOn(t) /\ CountTypes'
  /\ tlb' = tlb /\ pc'[t] # "guest" /\ wild' = wild

\* What holds of a thread in a system call, and of how a call returns.
LEMMA CallFacts ==
  ASSUME Inv, NEW t \in Thread, pc[t] = "kernel"
  PROVE  /\ mem[t] \in Space /\ brk[mem[t]] \in Nat
         /\ DataTypes /\ DataCounted
         /\ CallReturns(t) =>
              /\ GoesOn(t) /\ tlb' = tlb /\ pc'[t] # "guest"
              /\ brk' \in [Space -> Nat] /\ wild' = wild => CountTypes'
<1>1. ThreadTypes /\ CountTypes /\ DataTypes /\ DataCounted
  BY Parts DEF InvParts
<1>2. mem[t] \in Space
  BY <1>1 DEF ThreadTypes
<1>3. ASSUME CallReturns(t)
      PROVE  /\ GoesOn(t) /\ tlb' = tlb /\ pc'[t] # "guest"
             /\ brk' \in [Space -> Nat] /\ wild' = wild => CountTypes'
  <2>1. /\ ops' = ops + 1 /\ tasks' = tasks /\ stores' = stores
        /\ pc' = [pc EXCEPT ![t] = "ret"]
        /\ mem' = mem /\ tlb' = tlb /\ seen' = seen /\ refs' = refs
    BY <1>3 DEF CallReturns, Goto
  <2>2. GoesOn(t)
    BY <2>1 DEF GoesOn
  <2> QED
    BY <1>1, <2>1, <2>2 DEF CountTypes, ThreadTypes
<1> QED
  BY <1>1, <1>2, <1>3 DEF CountTypes

\* Mapping zeroes.
LEMMA ZeroesMapped ==
  ASSUME DataTypes, DataCounted, NEW m \in Space, NEW S \in SUBSET Page, NEW first \in Nat,
         \A p \in S : first <= p, NEW flags \in SUBSET Flag, PtMap(m, S, first, flags, Zeroes)
  PROVE  Repaints(m, S) /\ \A p \in S : Show(m, p)' \in {None, ZeroPage}
<1>1. Zeroes \in [Page -> Content]
  BY MemoryAssumption DEF Zeroes, ZeroPage, Content
<1>2. \A p \in S : p - first \in Page
  BY MemoryAssumption DEF Page
<1>3. Repaints(m, S) /\ \A p \in S : Show(m, p)' = Zeroes[p - first]
  BY <1>1, <1>2, MapFacts
<1> QED
  BY <1>2, <1>3 DEF Zeroes

\* Unmapping a set of pages.
LEMMA PagesUnmapped ==
  ASSUME DataTypes, DataCounted, NEW m \in Space, NEW S \in SUBSET Page, PtUnmap(m, S)
  PROVE  Repaints(m, S) /\ \A p \in S : Show(m, p)' \in {None, ZeroPage}
<1>1. Unmaps(m, S)
  BY DEF PtUnmap, Unmaps
<1>2. changes' = [changes EXCEPT ![m] = @ + 1] /\ changes \in [Space -> Nat]
  BY DEF PtUnmap, DataTypes
<1>3. /\ changes' \in [Space -> Nat] /\ \A n \in Space : changes[n] <= changes'[n]
      /\ changes[m] < changes'[m]
  BY <1>2
<1> QED
  BY <1>1, <1>3, UnmapFacts

\* mmap, fixed or at a free address.
LEMMA MmapRemaps ==
  ASSUME Inv, NEW t \in Thread, pc[t] = "kernel", NEW S \in SUBSET Page, NEW first \in Nat,
         \A p \in S : first <= p, NEW flags \in MapFlags, Mmap(t, S, first, flags)
  PROVE  Remaps(t)
<1>0. PICK m \in Space : m = mem[t]
  BY CallFacts
<1>1. /\ NoGuest(m) /\ PtMap(m, S, first, flags, Zeroes) /\ CallReturns(t)
      /\ suspect' = suspect /\ brk' = brk /\ wild' = wild
  BY <1>0 DEF Mmap
<1>2. flags \in SUBSET Flag
  BY MemoryAssumption DEF Flag
<1>3. Repaints(m, S) /\ \A p \in S : Show(m, p)' \in {None, ZeroPage}
  BY <1>1, <1>2, CallFacts, ZeroesMapped
<1>4. CountTypes /\ brk \in [Space -> Nat]
  BY Parts DEF InvParts, CountTypes
<1> QED
  BY <1>0, <1>1, <1>3, <1>4, CallFacts DEF Remaps, Told

\* munmap.
LEMMA MunmapRemaps ==
  ASSUME Inv, NEW t \in Thread, pc[t] = "kernel", NEW r \in Ranges, Munmap(t, r[1], r[2])
  PROVE  Remaps(t)
<1>0. PICK m \in Space : m = mem[t]
  BY CallFacts
<1> DEFINE S == r[1] .. r[1] + r[2] - 1
<1>1. /\ NoGuest(m) /\ PtUnmap(m, S) /\ CallReturns(t)
      /\ suspect' = suspect /\ brk' = brk /\ wild' = wild
  BY <1>0 DEF Munmap
<1>2. S \in SUBSET Page
  BY MemoryAssumption DEF Page
<1> HIDE DEF S
<1>3. Repaints(m, S) /\ \A p \in S : Show(m, p)' \in {None, ZeroPage}
  BY <1>1, <1>2, CallFacts, PagesUnmapped
<1>4. brk \in [Space -> Nat]
  BY Parts DEF InvParts, CountTypes
<1> QED
  BY <1>0, <1>1, <1>2, <1>3, <1>4, CallFacts DEF Remaps, Told

\* brk upwards.
LEMMA BrkGrowRemaps ==
  ASSUME Inv, NEW t \in Thread, pc[t] = "kernel", NEW new \in Breaks, BrkGrow(t, new)
  PROVE  Remaps(t)
<1>0. PICK m \in Space : m = mem[t]
  BY CallFacts
<1> DEFINE first == PageUp(brk[m])
           S == first .. PageUp(new) - 1
<1>1. /\ NoGuest(m) /\ CallReturns(t)
      /\ IF S = {} THEN UNCHANGED <<pt, changes, datas>>
         ELSE PtMap(m, S, first, {"w", "anon"}, Zeroes)
      /\ brk' = [brk EXCEPT ![m] = new]
      /\ suspect' = suspect /\ wild' = wild
  BY <1>0 DEF BrkGrow
<1>2. m \in Space /\ DataTypes /\ DataCounted /\ brk[m] \in Nat
  BY <1>0, CallFacts
<1>3. first \in Nat /\ S \in SUBSET Page /\ \A p \in S : first <= p
  <2>1. new \in 2 .. 2 * N /\ N \in Nat
    BY MemoryAssumption
  <2>2. PageUp(new) <= N /\ PageUp(new) \in Nat
    BY <2>1 DEF PageUp
  <2>3. first \in Nat
    BY <1>2 DEF PageUp
  <2> QED
    BY <2>1, <2>2, <2>3 DEF Page
<1> HIDE DEF first, S
<1>4. Repaints(m, S) /\ \A p \in S : Show(m, p)' \in {None, ZeroPage}
  <2>1. CASE S = {}
    <3>1. pt' = pt /\ changes' = changes /\ dataRefs' = dataRefs /\ contents' = contents
      BY <1>1, <2>1 DEF datas
    <3>2. DataTypes' /\ DataCounted'
      BY <1>2, <3>1 DEF DataTypes, DataCounted, Everywhere
    <3>3. \A n \in Space, q \in Page : Show(n, q)' = Show(n, q)
      BY <3>1 DEF Show
    <3>4. \A n \in Space : changes[n] <= changes'[n]
      BY <1>2, <3>1 DEF DataTypes
    <3> QED
      BY <2>1, <3>1, <3>2, <3>3, <3>4 DEF Repaints
  <2>2. CASE S # {}
    <3>1. PtMap(m, S, first, {"w", "anon"}, Zeroes)
      BY <1>1, <2>2
    <3>2. {"w", "anon"} \in SUBSET Flag
      BY DEF Flag
    <3> QED
      BY <1>2, <1>3, <3>1, <3>2, ZeroesMapped
  <2> QED
    BY <2>1, <2>2
<1>5. brk' \in [Space -> Nat]
  <2>1. brk \in [Space -> Nat]
    BY Parts DEF InvParts, CountTypes
  <2>2. new \in Nat
    BY MemoryAssumption
  <2> QED
    BY <1>1, <2>1, <2>2
<1> QED
  BY <1>0, <1>1, <1>3, <1>4, <1>5, CallFacts DEF Remaps, Told

\* brk downwards.
LEMMA BrkShrinkRemaps ==
  ASSUME Inv, NEW t \in Thread, pc[t] = "kernel", NEW new \in Breaks, BrkShrink(t, new)
  PROVE  Remaps(t)
<1>0. PICK m \in Space : m = mem[t]
  BY CallFacts
<1> DEFINE S == {p \in Page : PageDown(new) <= p /\ p < PageDown(new) + PageDown(brk[m])}
<1>1. /\ NoGuest(m) /\ CallReturns(t) /\ PtUnmap(m, S)
      /\ brk' = [brk EXCEPT ![m] = new]
      /\ suspect' = suspect /\ wild' = wild
  BY <1>0 DEF BrkShrink
<1>2. S \in SUBSET Page
  OBVIOUS
<1> HIDE DEF S
<1>3. Repaints(m, S) /\ \A p \in S : Show(m, p)' \in {None, ZeroPage}
  BY <1>1, <1>2, CallFacts, PagesUnmapped
<1>4. brk' \in [Space -> Nat]
  <2>1. brk \in [Space -> Nat]
    BY Parts DEF InvParts, CountTypes
  <2>2. new \in Nat
    BY MemoryAssumption
  <2> QED
    BY <1>1, <2>1, <2>2
<1> QED
  BY <1>0, <1>1, <1>2, <1>3, <1>4, CallFacts DEF Remaps, Told

\* mremap to a smaller size.
LEMMA MremapShrinkRemaps ==
  ASSUME Inv, NEW t \in Thread, pc[t] = "kernel", NEW r \in Ranges, NEW new \in 0 .. r[2],
         MremapShrink(t, r[1], r[2], new)
  PROVE  Remaps(t)
<1>0. PICK m \in Space : m = mem[t]
  BY CallFacts
<1> DEFINE S == r[1] + new .. r[1] + r[2] - 1
<1>1. /\ PtUnmap(m, S) /\ CallReturns(t)
      /\ suspect' = [u \in Thread |-> suspect[u] \/ u \in Running(t, m)]
      /\ brk' = brk /\ wild' = wild
  BY <1>0 DEF MremapShrink
<1>2. S \in SUBSET Page
  BY MemoryAssumption DEF Page
<1> HIDE DEF S
<1>3. Repaints(m, S) /\ \A p \in S : Show(m, p)' \in {None, ZeroPage}
  BY <1>1, <1>2, CallFacts, PagesUnmapped
<1>4. brk \in [Space -> Nat]
  BY Parts DEF InvParts, CountTypes
<1> QED
  BY <1>0, <1>1, <1>2, <1>3, <1>4, CallFacts DEF Remaps, Told

\* mremap to a larger size: it maps, or fails its assertion.
LEMMA MremapGrowRemaps ==
  ASSUME Inv, NEW t \in Thread, pc[t] = "kernel", NEW r \in Ranges, NEW old \in 1 .. r[2],
         MremapGrow(t, r[1], old, r[2])
  PROVE  Remaps(t) \/ GoWild("mremap")
<1> SUFFICES ASSUME ~GoWild("mremap")
             PROVE  Remaps(t)
  OBVIOUS
<1>0. PICK m \in Space : m = mem[t]
  BY CallFacts
<1> DEFINE S == r[1] + old .. r[1] + r[2] - 1
           flags == pt[m][r[1]].flags
<1>1. /\ Has(m, r[1]) /\ \A p \in S : ~Has(m, p)
      /\ PtMap(m, S, r[1] + old, flags, Zeroes) /\ CallReturns(t)
      /\ suspect' = suspect /\ brk' = brk /\ wild' = wild
  BY <1>0 DEF MremapGrow
<1>2. /\ r[1] \in Page /\ r[1] + old \in Nat /\ S \in SUBSET Page
      /\ \A p \in S : r[1] + old <= p
  BY MemoryAssumption DEF Page
<1>3. m \in Space /\ DataTypes /\ DataCounted
  BY <1>0, CallFacts
<1>4. flags \in SUBSET Flag
  BY <1>1, <1>2, <1>3 DEF DataTypes, Has, PageEntry
<1> HIDE DEF S, flags
<1>5. Repaints(m, S) /\ \A p \in S : Show(m, p)' \in {None, ZeroPage}
  BY <1>1, <1>2, <1>3, <1>4, ZeroesMapped
<1>6. \A q \in Page : Has(m, q) => pt'[m][q] = pt[m][q]
  BY <1>1, <1>3, <1>5 DEF Repaints
<1>7. brk \in [Space -> Nat]
  BY Parts DEF InvParts, CountTypes
<1> QED
  BY <1>0, <1>1, <1>2, <1>5, <1>6, <1>7, CallFacts DEF Remaps, Told

\* A call that maps or unmaps keeps the invariant.
LEMMA RemapsKeeps ==
  ASSUME Inv, wild = None, NEW t \in Thread, Remaps(t)
  PROVE  Inv'
<1>1. PICK m \in Space, S \in SUBSET Page : mem[t] = m /\ Repaints(m, S)
  BY DEF Remaps
<1>2. Alters(mem[t])
  BY <1>1, RepaintAlters
<1>3. CowKept
  BY Parts DEF InvParts
<1>4. CowKept'
  BY <1>1, <1>3, CowOfRepaint
<1>5. Told(t) /\ GoesOn(t) /\ CountTypes' /\ tlb' = tlb /\ pc'[t] # "guest"
  BY DEF Remaps
<1> QED
  BY <1>2, <1>4, <1>5, CallKeeps

(***************************************************************************)
(* mprotect                                                                *)
(***************************************************************************)

\* No entry leads elsewhere than before.
SameLeads ==
  \A n \in Space, q \in Page :
    /\ pt'[n][q] # None <=> pt[n][q] # None
    /\ pt[n][q] # None => pt'[n][q].data = pt[n][q].data /\ pt'[n][q].off = pt[n][q].off

\* Entries that lead where they led leave the counts exact.
LEMMA SameCounts ==
  ASSUME SameLeads, DataCounted, dataRefs' = dataRefs
  PROVE  DataCounted'
<1>1. \A d : Everywhere(pt', d) = Everywhere(pt, d)
  BY DEF Everywhere, SameLeads, Leads
<1> QED
  BY <1>1 DEF DataCounted

\* And every page shows what it showed.
LEMMA SameShows ==
  ASSUME SameLeads, contents' = contents
  PROVE  \A n \in Space, q \in Page : Show(n, q)' = Show(n, q)
  BY DEF SameLeads, Show

\* And no page is shared that was not.
LEMMA SameShared ==
  ASSUME SameLeads, NEW n \in Space, NEW q \in Page, Has(n, q), Shared(n, q)'
  PROVE  Shared(n, q)
  BY DEF SameLeads, Shared, Has

\* What mprotect leaves, apart from copy-on-write.
LEMMA MprotectFacts ==
  ASSUME Inv, NEW t \in Thread, pc[t] = "kernel", NEW r \in Ranges, NEW prot \in Prots,
         Mprotect(t, r[1], r[2], prot)
  PROVE  /\ Alters(mem[t]) /\ Told(t) /\ GoesOn(t) /\ CountTypes'
         /\ tlb' = tlb /\ pc'[t] # "guest" /\ SameLeads /\ contents' = contents
         /\ \A n \in Space, q \in Page : pt'[n][q] # pt[n][q] =>
              Has(n, q) /\ pt'[n][q].flags = prot /\ (prot # {} /\ Shared(n, q) => wild' # None)
<1>0. PICK m \in Space : m = mem[t]
  BY CallFacts
<1> DEFINE S == r[1] .. r[1] + r[2] - 1
<1>1. /\ NoGuest(m) /\ \A p \in S : Has(m, p)
      /\ pt' = [pt EXCEPT ![m] = [p \in Page |->
                  IF p \in S THEN [@[p] EXCEPT !.flags = prot] ELSE @[p]]]
      /\ changes' = [changes EXCEPT ![m] = @ + 1]
      /\ wild' = IF prot # {} /\ \E p \in S : Shared(m, p) THEN "mprotect" ELSE wild
      /\ CallReturns(t)
      /\ suspect' = suspect /\ brk' = brk /\ dataRefs' = dataRefs /\ contents' = contents
  BY <1>0 DEF Mprotect, datas
<1>2. S \in SUBSET Page /\ prot \in SUBSET Flag
  BY MemoryAssumption DEF Page, Prots, Flag
<1> HIDE DEF S
<1>3. DataTypes /\ DataCounted /\ CountTypes
  BY Parts DEF InvParts
<1>4. /\ \A n \in Space \ {m} : pt'[n] = pt[n]
      /\ \A q \in Page \ S : pt'[m][q] = pt[m][q]
      /\ \A q \in S : /\ pt[m][q] \in PageEntry
                      /\ pt'[m][q] = [pt[m][q] EXCEPT !.flags = prot]
  BY <1>1, <1>2, <1>3 DEF DataTypes, Has
<1>5. \A q \in S : /\ pt'[m][q] \in PageEntry /\ pt'[m][q] # None /\ pt[m][q] # None
                   /\ pt'[m][q].data = pt[m][q].data /\ pt'[m][q].off = pt[m][q].off
                   /\ pt'[m][q].flags = prot
  <2> SUFFICES ASSUME NEW q \in S
               PROVE  /\ pt'[m][q] \in PageEntry /\ pt'[m][q] # None /\ pt[m][q] # None
                      /\ pt'[m][q].data = pt[m][q].data /\ pt'[m][q].off = pt[m][q].off
                      /\ pt'[m][q].flags = prot
    OBVIOUS
  <2>1. pt[m][q] \in PageEntry /\ pt'[m][q] = [pt[m][q] EXCEPT !.flags = prot]
    BY <1>4
  <2>2. /\ pt'[m][q] \in PageEntry
        /\ pt'[m][q].data = pt[m][q].data /\ pt'[m][q].off = pt[m][q].off
        /\ pt'[m][q].flags = prot
    BY <1>2, <2>1 DEF PageEntry
  <2> QED
    BY <2>1, <2>2, NoneIsNothing
<1>6. SameLeads
  BY <1>4, <1>5 DEF SameLeads
<1>7. pt' \in [Space -> [Page -> PageEntry \cup {None}]]
  <2>1. pt \in [Space -> [Page -> PageEntry \cup {None}]]
    BY <1>3 DEF DataTypes
  <2>2. [p \in Page |-> IF p \in S THEN [pt[m][p] EXCEPT !.flags = prot] ELSE pt[m][p]]
          \in [Page -> PageEntry \cup {None}]
    <3>1. \A p \in S : [pt[m][p] EXCEPT !.flags = prot] \in PageEntry
      BY <1>2, <1>4 DEF PageEntry
    <3> QED
      BY <2>1, <3>1
  <2> QED
    BY <1>1, <2>1, <2>2
<1>8. /\ changes' \in [Space -> Nat] /\ changes[m] < changes'[m]
      /\ \A n \in Space : changes[n] <= changes'[n]
  BY <1>1, <1>3 DEF DataTypes
<1>9. Alters(m)
  <2>1. DataTypes'
    BY <1>1, <1>3, <1>7, <1>8 DEF DataTypes
  <2>2. DataCounted'
    BY <1>1, <1>3, <1>6, SameCounts
  <2>3. \A n \in Space, q \in Page : pt'[n][q] # pt[n][q] =>
          n = m /\ (Has(n, q) => changes[m] < changes'[m])
    BY <1>4, <1>8
  <2> QED
    BY <1>8, <2>1, <2>2, <2>3 DEF Alters
<1>10. wild' \in {None, "stale", "mprotect", "mremap"}
  BY <1>1, <1>3 DEF CountTypes
<1>11. GoesOn(t) /\ tlb' = tlb /\ pc'[t] # "guest" /\ CountTypes'
  <2>1. GoesOn(t) /\ tlb' = tlb /\ pc'[t] # "guest"
    BY <1>1, CallFacts
  <2>2. /\ ops' = ops + 1 /\ tasks' = tasks /\ stores' = stores /\ refs' = refs
    BY <1>1 DEF CallReturns
  <2> QED
    BY <1>1, <1>3, <1>10, <2>1, <2>2 DEF CountTypes
<1>12. \A n \in Space, q \in Page : pt'[n][q] # pt[n][q] =>
         Has(n, q) /\ pt'[n][q].flags = prot /\ (prot # {} /\ Shared(n, q) => wild' # None)
  BY <1>1, <1>4, <1>5, NoneIsNothing DEF Has
<1> QED
  BY <1>0, <1>1, <1>6, <1>9, <1>11, <1>12 DEF Told

\* mprotect keeps the invariant; taking copy-on-write from a shared page is wild.
LEMMA MprotectKeeps ==
  ASSUME Inv, wild = None, NEW t \in Thread, pc[t] = "kernel", NEW r \in Ranges, NEW prot \in Prots,
         Mprotect(t, r[1], r[2], prot)
  PROVE  Inv'
<1>1. /\ Alters(mem[t]) /\ Told(t) /\ GoesOn(t) /\ CountTypes'
      /\ tlb' = tlb /\ pc'[t] # "guest" /\ SameLeads
      /\ \A n \in Space, q \in Page : pt'[n][q] # pt[n][q] =>
           Has(n, q) /\ pt'[n][q].flags = prot /\ (prot # {} /\ Shared(n, q) => wild' # None)
  BY MprotectFacts
<1>2. SharedAreCow
  BY Parts DEF InvParts, CowKept
<1>3. ASSUME wild' = None
      PROVE  SharedAreCow'
  <2> SUFFICES ASSUME NEW n \in Space, NEW q \in Page, Has(n, q)', Shared(n, q)'
               PROVE  ~Writable(pt'[n][q])
    BY DEF SharedAreCow
  <2>1. Has(n, q)
    BY <1>1 DEF SameLeads, Has
  <2>2. Shared(n, q)
    BY <1>1, <2>1, SameShared
  <2>3. CASE pt'[n][q] = pt[n][q]
    BY <1>2, <2>1, <2>2, <2>3 DEF SharedAreCow
  <2>4. CASE pt'[n][q] # pt[n][q]
    BY <1>1, <1>3, <2>2, <2>4 DEF Writable
  <2> QED
    BY <2>3, <2>4
<1>4. CowKept'
  BY <1>3 DEF CowKept
<1> QED
  BY <1>1, <1>4, CallKeeps

(***************************************************************************)
(* Accesses, and the way into the guest and out of it                      *)
(***************************************************************************)

\* A load or a store by t went to page p of its space, and to no other.
Accessed(t, p, write, c, v) ==
  \E m \in Space :
    /\ mem[t] = m /\ Repaints(m, {p})
    /\ Show(m, p)' = Written(Shown(m, p), write, c, v)
    /\ Has(m, p) \/ \E q \in Page : q > p /\ Has(m, q)

\* A store keeps the types.
LEMMA CountStoreTypes ==
  ASSUME CountTypes, NEW write \in BOOLEAN, CountStore(write),
         refs' = refs, brk' = brk, wild' = wild
  PROVE  CountTypes'
<1>1. ops' = ops /\ tasks' = tasks /\ stores' \in Nat
  BY DEF CountStore, CountTypes
<1> QED
  BY <1>1 DEF CountTypes

\* A running thread has a space.
LEMMA SpaceOf ==
  ASSUME Inv, NEW t \in Thread, pc[t] # "unused"
  PROVE  mem[t] \in Space
  BY Parts DEF InvParts, ThreadTypes

\* The kernel reading or writing user memory: never through the TLB.
LEMMA UserAccessKeeps ==
  ASSUME Inv, wild = None, NEW t \in Thread, pc[t] = "kernel", NEW p \in Page,
         NEW write \in BOOLEAN, NEW c \in Cell, NEW v \in Value, UserAccess(t, p, write, c, v)
  PROVE  Inv' /\ Accessed(t, p, write, c, v)
<1>0. PICK m \in Space : m = mem[t]
  BY CallFacts
<1>1. /\ MemPtr(t, m, p, write, c, v) /\ CountStore(write)
      /\ pc' = pc /\ mem' = mem /\ tlb' = tlb /\ seen' = seen
      /\ refs' = refs /\ brk' = brk /\ wild' = wild
  BY <1>0 DEF UserAccess
<1>2. DataTypes /\ DataCounted /\ CountTypes /\ ThreadTypes /\ CowKept /\ SharedAreCow
  BY Parts DEF InvParts, CowKept
<1>3. /\ Repaints(m, {p})
      /\ Show(m, p)' = Written(Shown(m, p), write, c, v)
      /\ Has(m, p) \/ \E q \in Page : q > p /\ Has(m, q)
      /\ \/ suspect' = suspect /\ (Has(m, p) => pt'[m][p] = pt[m][p])
         \/ suspect' = [u \in Thread |-> suspect[u] \/ u \in Running(t, m)]
  BY <1>1, <1>2, MemPtrFacts
<1>4. Told(t)
  BY <1>0, <1>3 DEF Told, Repaints
<1>5. GoesOn(t) /\ pc'[t] # "guest"
  BY <1>1, <1>2 DEF GoesOn, ThreadTypes
<1>6. CountTypes'
  BY <1>1, <1>2, CountStoreTypes
<1>7. CowKept'
  BY <1>2, <1>3, CowOfRepaint
<1>8. Alters(m)
  BY <1>3, RepaintAlters
<1>9. Inv'
  BY <1>0, <1>1, <1>4, <1>5, <1>6, <1>7, <1>8, CallKeeps
<1> QED
  BY <1>0, <1>3, <1>9 DEF Accessed

\* What a thread finds in its TLB is what the page table says.
LEMMA HitKeeps ==
  ASSUME Inv, wild = None, NEW t \in Thread, pc[t] = "guest", NEW p \in Page,
         NEW write \in BOOLEAN, NEW c \in Cell, NEW v \in Value,
         Access(t, p, write, c, v), Hit(t, p, write), Current(t, tlb[t][TlbIndex(p)])
  PROVE  Inv' /\ Accessed(t, p, write, c, v)
<1>0. PICK m \in Space : m = mem[t]
  BY SpaceOf
<1> DEFINE e == tlb[t][TlbIndex(p)]
<1>1. /\ contents' = [contents EXCEPT ![e.data][e.off] =
                        Written(contents[e.data][e.off], write, c, v)]
      /\ CountStore(write)
      /\ pc' = pc /\ mem' = mem /\ tlb' = tlb /\ seen' = seen /\ suspect' = suspect
      /\ refs' = refs /\ changes' = changes /\ brk' = brk /\ pt' = pt
      /\ dataRefs' = dataRefs /\ wild' = wild
  BY DEF Access, spaces
<1>2. /\ DataTypes /\ DataCounted /\ CountTypes /\ ThreadTypes /\ CowKept /\ SharedAreCow
      /\ FlushAt(t) /\ TlbIndexed
  BY Parts DEF InvParts, CowKept
<1>3. /\ Has(m, p) /\ pt[m][p].data = e.data /\ pt[m][p].off = e.off
      /\ write => Writable(pt[m][p])
  BY <1>0 DEF Hit, Current
<1>4. Repaints(m, {p}) /\ Show(m, p)' = Written(Shown(m, p), write, c, v)
  <2>1. contents' = [contents EXCEPT ![pt[m][p].data][pt[m][p].off] =
                       Written(Shown(m, p), write, c, v)]
    BY <1>1, <1>3 DEF Shown
  <2>2. UNCHANGED <<pt, dataRefs, changes>>
    BY <1>1
  <2> HIDE DEF e
  <2> QED
    BY <1>2, <1>3, <2>1, <2>2, StoreFacts
<1>5. Told(t) /\ GoesOn(t)
  BY <1>0, <1>1, <1>2 DEF Told, GoesOn, ThreadTypes
<1>6. CountTypes'
  BY <1>1, <1>2, CountStoreTypes
<1>7. CowKept'
  BY <1>2, <1>4, CowOfRepaint
<1>8. Alters(m)
  BY <1>4, RepaintAlters
<1>9. FlushAt(t)'
  BY <1>1, <1>2 DEF FlushAt, Current, Has
<1>10. /\ tlb' \in [Thread -> [0 .. TlbSize - 1 -> TlbEntry \cup {None}]]
       /\ \A u \in Thread \ {t} : tlb'[u] = tlb[u]
       /\ \A i \in 0 .. TlbSize - 1 : tlb'[t][i] # None => TlbIndex(tlb'[t][i].page) = i
  BY <1>1, <1>2 DEF ThreadTypes, TlbIndexed
<1>11. Inv'
  BY <1>0, <1>5, <1>6, <1>7, <1>8, <1>9, <1>10, AlterKeeps
<1> QED
  BY <1>0, <1>3, <1>4, <1>11 DEF Accessed

\* A thread that misses, fills the entry of the page.
LEMMA MissKeeps ==
  ASSUME Inv, wild = None, NEW t \in Thread, pc[t] = "guest", NEW p \in Page,
         NEW write \in BOOLEAN, NEW c \in Cell, NEW v \in Value,
         Access(t, p, write, c, v), ~Hit(t, p, write)
  PROVE  Inv' /\ Accessed(t, p, write, c, v)
<1>0. PICK m \in Space : m = mem[t]
  BY SpaceOf
<1> DEFINE i == TlbIndex(p)
           new == [page |-> p, data |-> pt'[m][p].data, off |-> pt'[m][p].off,
                   writable |-> write]
<1>1. /\ MemPtr(t, m, p, write, c, v) /\ CountStore(write)
      /\ tlb' = [tlb EXCEPT ![t][i] = new]
      /\ pc' = pc /\ mem' = mem /\ seen' = seen
      /\ refs' = refs /\ brk' = brk /\ wild' = wild
  BY <1>0 DEF Access
<1>2. /\ DataTypes /\ DataCounted /\ CountTypes /\ ThreadTypes /\ CowKept /\ SharedAreCow
      /\ FlushAt(t) /\ TlbIndexed
  BY Parts DEF InvParts, CowKept
<1>3. /\ Repaints(m, {p})
      /\ Show(m, p)' = Written(Shown(m, p), write, c, v)
      /\ pt'[m][p] # None /\ (write => Writable(pt'[m][p]))
      /\ Has(m, p) \/ \E q \in Page : q > p /\ Has(m, q)
      /\ \/ suspect' = suspect /\ (Has(m, p) => pt'[m][p] = pt[m][p])
         \/ suspect' = [u \in Thread |-> suspect[u] \/ u \in Running(t, m)]
  BY <1>1, <1>2, MemPtrFacts
<1>4. Told(t) /\ GoesOn(t)
  <2>1. Told(t)
    BY <1>0, <1>3 DEF Told, Repaints
  <2> QED
    BY <1>1, <1>2, <2>1 DEF GoesOn, ThreadTypes
<1>5. CountTypes'
  BY <1>1, <1>2, CountStoreTypes
<1>6. CowKept'
  BY <1>2, <1>3, CowOfRepaint
<1>7. Alters(m)
  BY <1>3, RepaintAlters
<1>8. new \in TlbEntry /\ new # None /\ i \in 0 .. TlbSize - 1
  <2>1. pt'[m][p] \in PageEntry
    BY <1>3 DEF Repaints, DataTypes
  <2>2. new \in TlbEntry
    BY <2>1 DEF TlbEntry, PageEntry
  <2>3. i \in 0 .. TlbSize - 1
    BY MemoryAssumption DEF TlbIndex, Page
  <2>4. \A x \in TlbEntry : x # None
    BY NoneIsNothing
  <2>5. new # None
    <3> HIDE DEF new
    <3> QED
      BY <2>2, <2>4, Zenon
  <2> QED
    BY <2>2, <2>3, <2>5, Zenon
<1> DEFINE was == tlb[t]
<1>9. /\ \A u \in Thread \ {t} : tlb'[u] = tlb[u]
      /\ tlb'[t] = [was EXCEPT ![i] = new]
      /\ was \in [0 .. TlbSize - 1 -> TlbEntry \cup {None}]
      /\ tlb \in [Thread -> [0 .. TlbSize - 1 -> TlbEntry \cup {None}]]
  BY <1>1, <1>2 DEF ThreadTypes
<1> HIDE DEF new, i
<1>10. /\ tlb'[t][i] = new
       /\ \A j \in 0 .. TlbSize - 1 : j # i => tlb'[t][j] = tlb[t][j]
       /\ tlb'[t] \in [0 .. TlbSize - 1 -> TlbEntry \cup {None}]
  BY <1>8, <1>9
<1>11. /\ tlb' \in [Thread -> [0 .. TlbSize - 1 -> TlbEntry \cup {None}]]
       /\ \A j \in 0 .. TlbSize - 1 : tlb'[t][j] # None => TlbIndex(tlb'[t][j].page) = j
  <2>1. tlb' = [u \in Thread |-> tlb'[u]]
    BY <1>1, <1>9
  <2>2. TlbIndex(new.page) = i
    BY DEF new, i
  <2>3. \A u \in Thread : tlb'[u] \in [0 .. TlbSize - 1 -> TlbEntry \cup {None}]
    BY <1>9, <1>10
  <2>4. tlb' \in [Thread -> [0 .. TlbSize - 1 -> TlbEntry \cup {None}]]
    BY <2>1, <2>3
  <2>5. \A j \in 0 .. TlbSize - 1 : tlb'[t][j] # None => TlbIndex(tlb'[t][j].page) = j
    <3> SUFFICES ASSUME NEW j \in 0 .. TlbSize - 1, tlb'[t][j] # None
                 PROVE  TlbIndex(tlb'[t][j].page) = j
      OBVIOUS
    <3>1. j # i => tlb'[t][j] = tlb[t][j]
      BY <1>10
    <3>2. tlb[t][j] # None => TlbIndex(tlb[t][j].page) = j
      BY <1>2 DEF TlbIndexed
    <3> QED
      BY <1>10, <2>2, <3>1, <3>2
  <2> QED
    BY <2>4, <2>5
<1>12. FlushAt(t)'
  <2>1. mem'[t] = m /\ seen'[t] = seen[t] /\ pc'[t] = "guest"
    BY <1>0, <1>1
  <2>2. seen[t] <= changes'[m]
    <3>1. seen[t] <= changes[m] /\ changes[m] <= changes'[m]
      BY <1>0, <1>2, <1>7 DEF FlushAt, Alters
    <3>2. seen[t] \in Nat /\ changes[m] \in Nat /\ changes'[m] \in Nat
      BY <1>2, <1>7 DEF ThreadTypes, DataTypes, Alters
    <3> QED
      BY <3>1, <3>2
  <2>3. ASSUME ~suspect'[t], NEW j \in 0 .. TlbSize - 1, tlb'[t][j] # None
        PROVE  Current(t, tlb[t][j])'
    <3>1. CASE j = i
      <4>1. tlb'[t][j] = new /\ pt'[m][p] # None
        BY <1>3, <1>10, <3>1
      <4> QED
        BY <1>3, <2>1, <4>1 DEF Current, Has, new
    <3>2. CASE j # i
      <4> DEFINE e == tlb[t][j]
      <4>1. tlb'[t][j] = e /\ e # None /\ e \in TlbEntry
        BY <1>9, <1>10, <2>3, <3>2
      <4>2. e.page # p /\ e.page \in Page
        BY <1>2, <3>2, <4>1 DEF TlbIndexed, TlbEntry, i
      <4>3. ~suspect[t]
        BY <1>2, <1>3, <2>3 DEF ThreadTypes
      <4>4. Current(t, e)
        BY <1>2, <4>1, <4>3 DEF FlushAt
      <4>5. pt'[m][e.page] = pt[m][e.page]
        BY <1>3, <4>2 DEF Repaints
      <4> QED
        BY <1>0, <2>1, <4>1, <4>4, <4>5 DEF Current, Has
    <3> QED
      BY <3>1, <3>2
  <2> QED
    BY <2>1, <2>2, <2>3 DEF FlushAt
<1>13. Inv'
  BY <1>0, <1>4, <1>5, <1>6, <1>7, <1>9, <1>11, <1>12, AlterKeeps
<1> QED
  BY <1>0, <1>3, <1>13 DEF Accessed

\* Nothing changes but where the thread is.
LEMMA TablesIdle ==
  ASSUME Inv, pt' = pt, changes' = changes, dataRefs' = dataRefs, contents' = contents,
         wild' = wild
  PROVE  /\ \A m \in Space : Alters(m)
         /\ CowKept' /\ DataTypes' /\ DataCounted'
<1>1. DataTypes /\ DataCounted /\ CowKept
  BY Parts DEF InvParts
<1>2. DataTypes' /\ DataCounted'
  BY <1>1 DEF DataTypes, DataCounted
<1>3. \A n \in Space : changes[n] <= changes'[n]
  BY <1>1 DEF DataTypes
<1>4. CowKept'
  BY <1>1 DEF CowKept, SharedAreCow, Shared, Has
<1> QED
  BY <1>2, <1>3, <1>4 DEF Alters

\* A guest that traps into the kernel keeps its TLB.
LEMMA InterruptKeeps ==
  ASSUME Inv, NEW t \in Thread, Interrupt(t)
  PROVE  Inv'
<1>1. /\ pc[t] = "guest" /\ pc' = [pc EXCEPT ![t] = "kernel"]
      /\ mem' = mem /\ tlb' = tlb /\ seen' = seen /\ suspect' = suspect
      /\ refs' = refs /\ changes' = changes /\ brk' = brk /\ pt' = pt
      /\ dataRefs' = dataRefs /\ contents' = contents
      /\ ops' = ops /\ tasks' = tasks /\ stores' = stores /\ wild' = wild
  BY DEF Interrupt, Goto, spaces, datas
<1>2. CountTypes /\ ThreadTypes
  BY Parts DEF InvParts
<1>3. CountTypes'
  BY <1>1, <1>2 DEF CountTypes
<1>4. Told(t) /\ GoesOn(t) /\ pc'[t] # "guest"
  BY <1>1, <1>2 DEF Told, GoesOn, ThreadTypes
<1>5. mem[t] \in Space
  BY <1>1, SpaceOf
<1> QED
  BY <1>1, <1>3, <1>4, <1>5, TablesIdle, CallKeeps

\* The flush on the way back.
LEMMA ResumeKeeps ==
  ASSUME Inv, NEW t \in Thread, Resume(t)
  PROVE  Inv'
<1>1. /\ pc[t] \in {"kernel", "ret"} /\ pc' = [pc EXCEPT ![t] = "guest"]
      /\ IF changes[mem[t]] = seen[t] THEN UNCHANGED <<tlb, seen, suspect>>
         ELSE /\ tlb' = [tlb EXCEPT ![t] = NoTlb]
              /\ seen' = [seen EXCEPT ![t] = changes[mem[t]]]
              /\ suspect' = [suspect EXCEPT ![t] = FALSE]
      /\ mem' = mem
      /\ refs' = refs /\ changes' = changes /\ brk' = brk /\ pt' = pt
      /\ dataRefs' = dataRefs /\ contents' = contents
      /\ ops' = ops /\ tasks' = tasks /\ stores' = stores /\ wild' = wild
  BY DEF Resume, Goto, spaces, datas
<1>2. /\ ThreadTypes /\ CountTypes /\ DataTypes
      /\ ThreadsCounted /\ EmptyWhenLeft /\ UnusedAreClean /\ TlbIndexed
      /\ \A u \in Thread : FlushAt(u)
  BY Parts DEF InvParts
<1>3. mem[t] \in Space /\ changes[mem[t]] \in Nat
  BY <1>1, <1>2, SpaceOf DEF DataTypes
<1>4. CowKept' /\ DataTypes' /\ DataCounted'
  BY <1>1, TablesIdle
<1>5. CountTypes' /\ ThreadsCounted' /\ EmptyWhenLeft'
  BY <1>1, <1>2 DEF CountTypes, ThreadsCounted, EmptyWhenLeft
<1>6. /\ \A u \in Thread \ {t} : /\ pc'[u] = pc[u] /\ tlb'[u] = tlb[u]
                                 /\ seen'[u] = seen[u] /\ suspect'[u] = suspect[u]
      /\ pc'[t] = "guest"
  BY <1>1, <1>2 DEF ThreadTypes
<1>7. \/ /\ changes[mem[t]] = seen[t]
         /\ tlb'[t] = tlb[t] /\ seen'[t] = seen[t] /\ suspect'[t] = suspect[t]
      \/ tlb'[t] = NoTlb /\ seen'[t] = changes[mem[t]]
  BY <1>1, <1>2 DEF ThreadTypes
<1>8. ThreadTypes'
  <2>1. NoTlb \in [0 .. TlbSize - 1 -> TlbEntry \cup {None}]
    BY DEF NoTlb
  <2>2. /\ tlb' \in [Thread -> [0 .. TlbSize - 1 -> TlbEntry \cup {None}]]
        /\ seen' \in [Thread -> Nat] /\ suspect' \in [Thread -> BOOLEAN]
    BY <1>1, <1>2, <1>3, <2>1 DEF ThreadTypes
  <2>3. /\ pc' \in [Thread -> {"guest", "kernel", "ret", "unused"}]
        /\ \A u \in Thread : mem'[u] = None <=> pc'[u] = "unused"
    BY <1>1, <1>2, <1>6 DEF ThreadTypes
  <2> QED
    BY <1>1, <1>2, <2>2, <2>3 DEF ThreadTypes
<1>9. UnusedAreClean' /\ TlbIndexed'
  <2>1. UnusedAreClean'
    BY <1>2, <1>6 DEF UnusedAreClean
  <2>2. \A i \in 0 .. TlbSize - 1 : NoTlb[i] = None
    BY DEF NoTlb
  <2>3. \A u \in Thread \ {t}, i \in 0 .. TlbSize - 1 :
          tlb'[u][i] # None => TlbIndex(tlb'[u][i].page) = i
    BY <1>2, <1>6 DEF TlbIndexed
  <2>4. \A i \in 0 .. TlbSize - 1 : tlb'[t][i] # None => TlbIndex(tlb'[t][i].page) = i
    BY <1>2, <1>7, <2>2 DEF TlbIndexed
  <2> QED
    BY <2>1, <2>3, <2>4 DEF TlbIndexed
<1>10. \A u \in Thread : FlushAt(u)'
  <2>1. \A u \in Thread \ {t} : FlushAt(u)'
    BY <1>1, <1>2, <1>6 DEF FlushAt, Current, Has
  <2>2. seen'[t] <= changes'[mem'[t]]
    BY <1>1, <1>2, <1>3, <1>7 DEF ThreadTypes
  <2>3. CASE tlb'[t] = NoTlb
    <3>1. \A i \in 0 .. TlbSize - 1 : tlb'[t][i] = None
      BY <2>3 DEF NoTlb
    <3> QED
      BY <2>1, <2>2, <3>1 DEF FlushAt
  <2>4. CASE changes[mem[t]] = seen[t] /\ tlb'[t] = tlb[t] /\ suspect'[t] = suspect[t]
    <3>1. pc[t] # "unused"
      BY <1>1
    <3> QED
      BY <1>1, <1>2, <2>2, <2>4, <3>1 DEF FlushAt, Current, Has
  <2> QED
    BY <1>7, <2>1, <2>3, <2>4
<1> QED
  BY <1>4, <1>5, <1>8, <1>9, <1>10, Parts DEF InvParts

\* Nothing else happens when the program goes wrong.
LEMMA WildKeeps ==
  ASSUME Inv, NEW why \in {"stale", "mprotect", "mremap"}, GoWild(why)
  PROVE  Inv'
<1>1. /\ wild' = why
      /\ pc' = pc /\ mem' = mem /\ tlb' = tlb /\ seen' = seen /\ suspect' = suspect
      /\ refs' = refs /\ changes' = changes /\ brk' = brk /\ pt' = pt
      /\ dataRefs' = dataRefs /\ contents' = contents
      /\ ops' = ops /\ tasks' = tasks /\ stores' = stores
  BY DEF GoWild, threads, spaces, datas
<1>2. InvParts
  BY Parts
<1>3. why # None
  BY NoneIsNothing
<1>4. CowKept' /\ CountTypes'
  BY <1>1, <1>2, <1>3 DEF InvParts, CowKept, CountTypes
<1>5. ThreadTypes' /\ ThreadsCounted' /\ EmptyWhenLeft' /\ UnusedAreClean' /\ TlbIndexed'
  BY <1>1, <1>2 DEF InvParts, ThreadTypes, ThreadsCounted, EmptyWhenLeft, UnusedAreClean, TlbIndexed
<1>6. DataTypes' /\ DataCounted'
  BY <1>1, <1>2 DEF InvParts, DataTypes, DataCounted
<1>7. \A u \in Thread : FlushAt(u)'
  BY <1>1, <1>2 DEF InvParts, FlushAt, Current, Has
<1> QED
  BY <1>4, <1>5, <1>6, <1>7, Parts DEF InvParts

(***************************************************************************)
(* fork, clone, exec and exit                                              *)
(***************************************************************************)

\* u comes to a space, or leaves one.
Moves(old, new, u, x) ==
  old \in [Thread -> Space \cup {None}] /\ new = [old EXCEPT ![u] = x]

\* A thread that moves to a space is one more there and one fewer where it was.
LEMMA MoveCounts ==
  ASSUME NEW old, NEW new, NEW u \in Thread, NEW x, NEW k, Moves(old, new, u, x)
  PROVE  Cardinality(Who(new, k)) =
           IF x = k /\ old[u] # k THEN Cardinality(Who(old, k)) + 1
           ELSE IF x # k /\ old[u] = k THEN Cardinality(Who(old, k)) - 1
           ELSE Cardinality(Who(old, k))
<1> DEFINE M == Who(old, k)
           Mn == Who(new, k)
<1>1. IsFiniteSet(M) /\ Cardinality(M) \in Nat
  BY Members
<1>2. new[u] = x /\ \A v \in Thread \ {u} : new[v] = old[v]
  BY DEF Moves
<1>3. /\ x = k /\ old[u] # k => Mn = M \cup {u} /\ u \notin M
      /\ x # k /\ old[u] = k => Mn = M \ {u} /\ u \in M
      /\ (x = k <=> old[u] = k) => Mn = M
  BY <1>2 DEF Who
<1> HIDE DEF M, Mn
<1>4. CASE x = k /\ old[u] # k
  BY <1>1, <1>3, <1>4, FS_AddElement DEF Mn, M
<1>5. CASE x # k /\ old[u] = k
  BY <1>1, <1>3, <1>5, FS_RemoveElement DEF Mn, M
<1>6. CASE x = k <=> old[u] = k
  BY <1>1, <1>3, <1>6 DEF Mn, M
<1> QED
  BY <1>4, <1>5, <1>6

\* The calls about tasks keep the types.
LEMMA TaskCallTypes ==
  ASSUME CountTypes, TaskCall, refs' \in [Space -> Nat], brk' \in [Space -> Nat], wild' = wild
  PROVE  CountTypes'
  BY DEF CountTypes, TaskCall

\* A task that starts has nothing in its TLB.
LEMMA UnusedFresh ==
  ASSUME UnusedAreClean, NEW u \in Thread, pc[u] = "unused", tlb'[u] = tlb[u], pc'[u] # "guest"
  PROVE  FlushAt(u)'
<1>1. \A i \in 0 .. TlbSize - 1 : tlb'[u][i] = None
  BY DEF UnusedAreClean, NoTlb
<1> QED
  BY <1>1 DEF FlushAt

\* clone with CLONE_VM: one more thread in the space.
LEMMA CloneVmKeeps ==
  ASSUME Inv, NEW t \in Thread, pc[t] = "kernel", NEW u \in Thread, CloneVm(t, u)
  PROVE  Inv'
<1>0. PICK m \in Space : m = mem[t]
  BY SpaceOf
<1>1. /\ TaskCall /\ refs' = [refs EXCEPT ![m] = @ + 1]
      /\ pc[u] = "unused" /\ pc' = [pc EXCEPT ![t] = "ret", ![u] = "ret"]
      /\ mem' = [mem EXCEPT ![u] = m]
      /\ tlb' = tlb /\ seen' = seen /\ suspect' = suspect
      /\ changes' = changes /\ brk' = brk /\ pt' = pt
      /\ dataRefs' = dataRefs /\ contents' = contents /\ wild' = wild
  BY <1>0 DEF CloneVm, StartThread, datas
<1>2. /\ ThreadTypes /\ CountTypes /\ DataTypes
      /\ ThreadsCounted /\ EmptyWhenLeft /\ UnusedAreClean /\ TlbIndexed
      /\ \A v \in Thread : FlushAt(v)
  BY Parts DEF InvParts
<1>3. CowKept' /\ DataTypes' /\ DataCounted'
  BY <1>1, TablesIdle
<1>4. refs' \in [Space -> Nat] /\ brk' \in [Space -> Nat]
  BY <1>1, <1>2 DEF CountTypes
<1>5. CountTypes'
  BY <1>1, <1>2, <1>4, TaskCallTypes
<1>6. mem[u] = None /\ None \notin Space
  BY <1>1, <1>2, NoneIsNothing DEF ThreadTypes
<1>7. /\ \A v \in Thread \ {t, u} : pc'[v] = pc[v] /\ mem'[v] = mem[v]
      /\ pc'[t] = "ret" /\ pc'[u] = "ret" /\ mem'[u] = m /\ (t # u => mem'[t] = mem[t])
  BY <1>1, <1>2 DEF ThreadTypes
<1>8. ThreadTypes'
  <2>1. /\ pc' \in [Thread -> {"guest", "kernel", "ret", "unused"}]
        /\ mem' \in [Thread -> Space \cup {None}]
    BY <1>0, <1>1, <1>2 DEF ThreadTypes
  <2>2. \A v \in Thread : mem'[v] = None <=> pc'[v] = "unused"
    BY <1>0, <1>2, <1>6, <1>7 DEF ThreadTypes
  <2> QED
    BY <1>1, <1>2, <2>1, <2>2 DEF ThreadTypes
<1>9. ThreadsCounted'
  <2>1. \A k \in Space : refs'[k] = IF m = k THEN refs[k] + 1 ELSE refs[k]
    BY <1>1, <1>2 DEF CountTypes
  <2>2. \A k \in Space : mem[u] # k
    BY <1>6
  <2>3. Moves(mem, mem', u, m)
    BY <1>1, <1>2 DEF ThreadTypes, Moves
  <2>4. \A k \in Space : Cardinality(Who(mem', k)) =
                           IF m = k THEN Cardinality(Who(mem, k)) + 1
                           ELSE Cardinality(Who(mem, k))
    BY <2>2, <2>3, MoveCounts
  <2> QED
    BY <1>2, <2>1, <2>4 DEF ThreadsCounted
<1>10. EmptyWhenLeft' /\ UnusedAreClean' /\ TlbIndexed'
  <2>1. \A k \in Space : refs'[k] = 0 => refs[k] = 0
    BY <1>1, <1>2 DEF CountTypes
  <2> QED
    BY <1>1, <1>2, <1>7, <2>1 DEF EmptyWhenLeft, UnusedAreClean, TlbIndexed
<1>11. \A v \in Thread : FlushAt(v)'
  <2>1. FlushAt(u)'
    BY <1>1, <1>2, <1>7, UnusedFresh
  <2>2. ASSUME NEW v \in Thread \ {u}
        PROVE  Bystander(v)
    <3>1. changes \in [Space -> Nat] /\ mem[v] \in Space \cup {None}
      BY <1>2, <2>2 DEF DataTypes, ThreadTypes
    <3>2. pc[t] # "unused"
      OBVIOUS
    <3>3. /\ mem'[v] = mem[v] /\ (pc'[v] = "unused" <=> pc[v] = "unused")
          /\ pc'[v] = "guest" => pc[v] = "guest"
      BY <1>1, <1>7, <2>2, <3>2
    <3> QED
      BY <1>1, <3>1, <3>3 DEF Bystander
  <2> QED
    BY <1>2, <1>3, <2>1, <2>2, BystanderFresh DEF DataTypes
<1> QED
  BY <1>3, <1>5, <1>8, <1>9, <1>10, <1>11, Parts DEF InvParts

\* When t leaves the space m, the pages S go: all of them if it was the last.
Leaves(t, m, S) ==
  /\ m = mem[t] /\ S = IF refs[m] = 1 THEN Page ELSE {}
  /\ DataTypes' /\ DataCounted'
  /\ \A p \in S : pt'[m][p] = None /\ Show(m, p)' = None
  /\ \A n \in Space, q \in Page : ~(n = m /\ q \in S) =>
       pt'[n][q] = pt[n][q] /\ Show(n, q)' = Show(n, q)

\* What exit leaves: the last thread of a space unmaps all of it.
LEMMA ExitFacts ==
  ASSUME Inv, NEW t \in Thread, pc[t] = "kernel", Exit(t)
  PROVE  \E m \in Space, S \in SUBSET Page : Leaves(t, m, S)
<1>0. PICK m \in Space : m = mem[t]
  BY SpaceOf
<1>6. PICK S \in SUBSET Page : S = IF refs[m] = 1 THEN Page ELSE {}
  OBVIOUS
<1>1. /\ pt' = IF refs[m] = 1 THEN [pt EXCEPT ![m] = NoPages] ELSE pt
      /\ dataRefs' = IF refs[m] = 1 THEN Dropped(pt[m], Page) ELSE dataRefs
      /\ Keep(dataRefs', None, Zeroes)
      /\ changes' = changes
  BY <1>0 DEF Exit, Last, ReleasedCounts
<1>2. DataTypes /\ DataCounted
  BY Parts DEF InvParts
<1>3. Unmaps(m, S)
  <2>1. CASE refs[m] = 1
    <3>1. NoPages = [p \in Page |-> IF p \in S THEN None ELSE pt[m][p]]
      BY <1>6, <2>1 DEF NoPages
    <3>2. pt' = [pt EXCEPT ![m] = [p \in Page |-> IF p \in S THEN None ELSE pt[m][p]]]
      BY <1>1, <2>1, <3>1
    <3>3. dataRefs' = Dropped(pt[m], S)
      BY <1>1, <1>6, <2>1
    <3> QED
      BY <1>1, <3>2, <3>3 DEF Unmaps
  <2>2. CASE refs[m] # 1
    <3>1. pt[m] = [p \in Page |-> IF p \in S THEN None ELSE pt[m][p]]
      BY <1>2, <1>6, <2>2 DEF DataTypes
    <3>2. pt' = [pt EXCEPT ![m] = [p \in Page |-> IF p \in S THEN None ELSE pt[m][p]]]
      BY <1>1, <1>2, <2>2, <3>1 DEF DataTypes
    <3>3. \A d \in Data : Uses(pt[m], S, d) = 0
      BY <1>6, <2>2, UsesNone
    <3>4. dataRefs = [d \in Data |-> dataRefs[d]] /\ \A d \in Data : dataRefs[d] \in Nat
      BY <1>2 DEF DataTypes
    <3>5. dataRefs' = Dropped(pt[m], S)
      BY <1>1, <2>2, <3>3, <3>4 DEF Dropped
    <3> QED
      BY <1>1, <3>2, <3>5 DEF Unmaps
  <2> QED
    BY <2>1, <2>2
<1>4. changes' \in [Space -> Nat] /\ S \subseteq Page
  BY <1>1, <1>2 DEF DataTypes
<1>5. /\ DataTypes' /\ DataCounted'
      /\ \A p \in S : pt'[m][p] = None /\ Show(m, p)' = None
      /\ \A n \in Space, q \in Page : ~(n = m /\ q \in S) =>
           pt'[n][q] = pt[n][q] /\ Show(n, q)' = Show(n, q)
  BY <1>2, <1>3, <1>4, UnmapCore
<1> QED
  BY <1>0, <1>6, <1>5 DEF Leaves

\* exit keeps the invariant.
LEMMA ExitKeeps ==
  ASSUME Inv, wild = None, NEW t \in Thread, pc[t] = "kernel", Exit(t)
  PROVE  Inv'
<1>14. PICK m \in Space, S \in SUBSET Page : Leaves(t, m, S)
  BY ExitFacts
<1>0. /\ m = mem[t] /\ S = IF refs[m] = 1 THEN Page ELSE {}
      /\ DataTypes' /\ DataCounted'
      /\ \A p \in S : pt'[m][p] = None
      /\ \A n \in Space, q \in Page : ~(n = m /\ q \in S) => pt'[n][q] = pt[n][q]
  BY <1>14 DEF Leaves
<1>1. /\ TaskCall /\ refs' = [refs EXCEPT ![m] = @ - 1]
      /\ pc' = [pc EXCEPT ![t] = "unused"]
      /\ mem' = [mem EXCEPT ![t] = None]
      /\ tlb' = [tlb EXCEPT ![t] = NoTlb]
      /\ suspect' = [suspect EXCEPT ![t] = FALSE]
      /\ seen' = seen /\ changes' = changes /\ brk' = brk /\ wild' = wild
  BY <1>0 DEF Exit, Goto
<1>2. /\ ThreadTypes /\ CountTypes /\ DataTypes
      /\ ThreadsCounted /\ EmptyWhenLeft /\ UnusedAreClean /\ TlbIndexed /\ SharedAreCow
      /\ \A v \in Thread : FlushAt(v)
  BY Parts DEF InvParts, CowKept
<1>3. refs[m] \in Nat /\ refs[m] # 0
  BY <1>0, <1>2, WhoIsIn DEF CountTypes
<1>4. refs' \in [Space -> Nat] /\ brk' \in [Space -> Nat]
  BY <1>1, <1>2, <1>3 DEF CountTypes
<1>5. CountTypes'
  BY <1>1, <1>2, <1>4, TaskCallTypes
<1>6. /\ \A v \in Thread \ {t} : /\ pc'[v] = pc[v] /\ mem'[v] = mem[v]
                                 /\ tlb'[v] = tlb[v] /\ suspect'[v] = suspect[v]
      /\ pc'[t] = "unused" /\ mem'[t] = None
      /\ tlb'[t] = NoTlb /\ ~suspect'[t]
  BY <1>1, <1>2 DEF ThreadTypes
<1>7. None \notin Space /\ \A i \in 0 .. TlbSize - 1 : NoTlb[i] = None
  BY NoneIsNothing DEF NoTlb
<1>8. ThreadTypes'
  <2>1. NoTlb \in [0 .. TlbSize - 1 -> TlbEntry \cup {None}]
    BY DEF NoTlb
  <2>2. /\ tlb' \in [Thread -> [0 .. TlbSize - 1 -> TlbEntry \cup {None}]]
        /\ seen' \in [Thread -> Nat] /\ suspect' \in [Thread -> BOOLEAN]
    BY <1>1, <1>2, <2>1 DEF ThreadTypes
  <2>3. /\ pc' \in [Thread -> {"guest", "kernel", "ret", "unused"}]
        /\ mem' \in [Thread -> Space \cup {None}]
    BY <1>1, <1>2 DEF ThreadTypes
  <2>4. \A v \in Thread : mem'[v] = None <=> pc'[v] = "unused"
    BY <1>2, <1>6 DEF ThreadTypes
  <2> QED
    BY <2>2, <2>3, <2>4 DEF ThreadTypes
<1>9. ThreadsCounted'
  <2>1. \A k \in Space : refs'[k] = IF k = m THEN refs[k] - 1 ELSE refs[k]
    BY <1>1, <1>2 DEF CountTypes
  <2>2. Moves(mem, mem', t, None)
    BY <1>1, <1>2 DEF ThreadTypes, Moves
  <2>3. \A k \in Space : Cardinality(Who(mem', k)) =
                           IF k = m THEN Cardinality(Who(mem, k)) - 1
                           ELSE Cardinality(Who(mem, k))
    BY <1>0, <1>7, <2>2, MoveCounts
  <2> QED
    BY <1>2, <2>1, <2>3 DEF ThreadsCounted
<1>10. EmptyWhenLeft'
  <2> SUFFICES ASSUME NEW k \in Space, refs'[k] = 0
               PROVE  pt'[k] = NoPages
    BY DEF EmptyWhenLeft
  <2>1. pt'[k] = [q \in Page |-> pt'[k][q]]
    BY <1>0 DEF DataTypes
  <2>2. CASE k = m
    <3>1. refs[m] = 1
      BY <1>1, <1>2, <1>3, <2>2 DEF CountTypes
    <3> QED
      BY <1>0, <2>1, <2>2, <3>1 DEF NoPages
  <2>3. CASE k # m
    <3>1. pt[k] = NoPages
      BY <1>1, <1>2, <2>3 DEF CountTypes, EmptyWhenLeft
    <3> QED
      BY <1>0, <2>1, <2>3, <3>1 DEF NoPages
  <2> QED
    BY <2>2, <2>3
<1>11. UnusedAreClean' /\ TlbIndexed'
  BY <1>2, <1>6, <1>7 DEF UnusedAreClean, TlbIndexed
<1>12. CowKept'
  <2>1. OnlyOnes
    BY <1>0 DEF OnlyOnes
  <2> QED
    BY <1>2, <2>1, CowStays DEF CowKept
<1>13. \A v \in Thread : FlushAt(v)'
  <2>1. FlushAt(t)'
    BY <1>6, <1>7 DEF FlushAt
  <2>2. ASSUME NEW v \in Thread \ {t}
        PROVE  Bystander(v)
    <3>1. changes \in [Space -> Nat] /\ mem[v] \in Space \cup {None}
      BY <1>2, <2>2 DEF DataTypes, ThreadTypes
    <3>2. \A q \in Page : mem[v] # None => pt'[mem[v]][q] = pt[mem[v]][q]
      <4>1. refs[m] = 1 => mem[v] # m
        BY <1>0, <1>2, <2>2, WhoIsIn
      <4> QED
        BY <1>0, <3>1, <4>1
    <3> QED
      BY <1>1, <1>6, <2>2, <3>1, <3>2 DEF Bystander
  <2> QED
    BY <1>0, <1>2, <2>1, <2>2, BystanderFresh DEF DataTypes
<1> QED
  BY <1>0, <1>5, <1>8, <1>9, <1>10, <1>11, <1>12, <1>13, Parts DEF InvParts

(***************************************************************************)
(* fork                                                                    *)
(***************************************************************************)

\* A table that was empty comes to use what another one does.
Copied(old, new, m, n, d) ==
  /\ Elsewhere(old, new, n) /\ old[n] = NoPages
  /\ \A q \in Page : Leads(new[n][q], d) <=> Leads(old[m][q], d)

\* A copied table counts each object once more for each of its pages.
LEMMA CountCopied ==
  ASSUME NEW old, NEW new, NEW m \in Space, NEW n \in Space, NEW d, Copied(old, new, m, n, d)
  PROVE  Cardinality(Everywhere(new, d))
           = Cardinality(Everywhere(old, d)) + Uses(old[m], Page, d)
<1>1. Cardinality(Everywhere(new, d)) + Uses(old[n], Page, d)
        = Cardinality(Everywhere(old, d)) + Uses(new[n], Page, d)
  BY OneTable DEF Copied
<1>2. Uses(old[n], Page, d) = 0
  BY UsesNone DEF Copied, NoPages, Leads
<1>3. Uses(new[n], Page, d) = Uses(old[m], Page, d)
  BY UsesSame DEF Copied
<1>4. /\ Uses(old[m], Page, d) \in Nat
      /\ Cardinality(Everywhere(new, d)) \in Nat /\ Cardinality(Everywhere(old, d)) \in Nat
  BY Finite
<1> QED
  BY <1>1, <1>2, <1>3, <1>4

\* Entries that lead where others lead.
Alike(e, f) ==
  /\ e = None <=> f = None
  /\ f # None => e.data = f.data /\ e.off = f.off

\* The new space n is a copy of m: both are copy-on-write.
Forks(m, n) ==
  /\ m # n /\ pt[n] = NoPages
  /\ DataTypes' /\ DataCounted' /\ contents' = contents
  /\ \A k \in Space \ {m, n} : pt'[k] = pt[k] /\ changes'[k] = changes[k]
  /\ changes[m] < changes'[m]
  /\ \A k \in {m, n}, q \in Page :
       Alike(pt'[k][q], pt[m][q]) /\ (pt'[k][q] # None => ~Writable(pt'[k][q]))

\* pt_copy_on_write: parent and child show the same, in shared pages that are copy-on-write.
LEMMA CopyOnWriteForks ==
  ASSUME Inv, NEW t \in Thread, NEW m \in Space, NEW n \in Space, m = mem[t], refs[n] = 0,
         CopyOnWrite(t, n), contents' = contents
  PROVE  Forks(m, n)
<1>1. /\ pt' = [pt EXCEPT ![m] = CowTable(@), ![n] = CowTable(pt[m])]
      /\ dataRefs' = [d \in Data |-> dataRefs[d] + Uses(pt[m], Page, d)]
      /\ changes' = [changes EXCEPT ![m] = @ + 1,
                                    ![n] = 1 + Cardinality({p \in Page : Has(m, p)})]
  BY DEF CopyOnWrite
<1>2. DataTypes /\ DataCounted /\ EmptyWhenLeft /\ ThreadsCounted
  BY Parts DEF InvParts
<1>3. m # n /\ pt[n] = NoPages
  BY <1>2, WhoIsIn DEF EmptyWhenLeft
<1>4. \A q \in Page : /\ CowTable(pt[m])[q] \in PageEntry \cup {None}
                      /\ Alike(CowTable(pt[m])[q], pt[m][q])
                      /\ CowTable(pt[m])[q] # None => ~Writable(CowTable(pt[m])[q])
  <2> SUFFICES ASSUME NEW q \in Page
               PROVE  /\ CowTable(pt[m])[q] \in PageEntry \cup {None}
                      /\ Alike(CowTable(pt[m])[q], pt[m][q])
                      /\ CowTable(pt[m])[q] # None => ~Writable(CowTable(pt[m])[q])
    OBVIOUS
  <2>1. CowTable(pt[m])[q] = IF pt[m][q] = None THEN None
                             ELSE [pt[m][q] EXCEPT !.flags = @ \cup {"cow"}]
    BY DEF CowTable
  <2>2. CASE pt[m][q] = None
    BY <2>1, <2>2 DEF Alike
  <2>3. CASE pt[m][q] # None
    <3>1. pt[m][q] \in PageEntry
      BY <1>2, <2>3 DEF DataTypes
    <3> DEFINE e == [pt[m][q] EXCEPT !.flags = @ \cup {"cow"}]
    <3>2. "cow" \in Flag
      BY DEF Flag
    <3>3. /\ e \in PageEntry /\ e.data = pt[m][q].data /\ e.off = pt[m][q].off
          /\ "cow" \in e.flags
      BY <3>1, <3>2 DEF PageEntry
    <3>4. e # None
      BY <3>3, NoneIsNothing
    <3>5. CowTable(pt[m])[q] = e
      BY <2>1, <2>3
    <3> HIDE DEF e
    <3> QED
      BY <2>3, <3>3, <3>4, <3>5 DEF Alike, Writable
  <2> QED
    BY <2>2, <2>3
<1>5. CowTable(pt[m]) \in [Page -> PageEntry \cup {None}]
  <2>1. CowTable(pt[m]) = [q \in Page |-> CowTable(pt[m])[q]]
    BY DEF CowTable
  <2> QED
    BY <1>4, <2>1
<1> DEFINE copy == CowTable(pt[m])
<1>6. pt' = [pt EXCEPT ![m] = copy, ![n] = copy] /\ copy \in [Page -> PageEntry \cup {None}]
  BY <1>1, <1>5
<1>7. \A q \in Page : Alike(copy[q], pt[m][q]) /\ (copy[q] # None => ~Writable(copy[q]))
  BY <1>4
<1> HIDE DEF copy
<1>8. /\ pt' \in [Space -> [Page -> PageEntry \cup {None}]]
      /\ \A k \in Space \ {m, n} : pt'[k] = pt[k]
      /\ pt'[m] = copy /\ pt'[n] = copy
  BY <1>2, <1>6 DEF DataTypes
<1>9. /\ changes' \in [Space -> Nat] /\ changes[m] < changes'[m]
      /\ \A k \in Space \ {m, n} : changes'[k] = changes[k]
  <2> DEFINE H == {p \in Page : Has(m, p)}
  <2>1. H \in SUBSET Page
    OBVIOUS
  <2>2. Cardinality(H) \in Nat
    BY <2>1, Finite, FS_Subset, FS_CardinalityType
  <2>3. changes' = [changes EXCEPT ![m] = @ + 1, ![n] = 1 + Cardinality(H)]
    BY <1>1
  <2>4. changes \in [Space -> Nat]
    BY <1>2 DEF DataTypes
  <2> HIDE DEF H
  <2> DEFINE x == 1 + Cardinality(H)
             y == changes[m] + 1
  <2>5. x \in Nat /\ y \in Nat /\ changes[m] < y /\ changes' = [changes EXCEPT ![m] = y, ![n] = x]
    BY <2>2, <2>3, <2>4
  <2> HIDE DEF x, y
  <2> QED
    BY <1>3, <2>4, <2>5
<1>10. \A d \in Data : /\ dataRefs[d] \in Nat /\ Uses(pt[m], Page, d) \in Nat
                       /\ Cardinality(Everywhere(pt', d)) = dataRefs[d] + Uses(pt[m], Page, d)
  <2> SUFFICES ASSUME NEW d \in Data
               PROVE  /\ dataRefs[d] \in Nat /\ Uses(pt[m], Page, d) \in Nat
                      /\ Cardinality(Everywhere(pt', d)) = dataRefs[d] + Uses(pt[m], Page, d)
    OBVIOUS
  <2> DEFINE mid == [pt EXCEPT ![m] = copy]
  <2>1. /\ mid[m] = copy /\ mid[n] = NoPages /\ \A k \in Space \ {m} : mid[k] = pt[k]
        /\ \A k \in Space \ {n} : pt'[k] = mid[k]
    BY <1>2, <1>3, <1>8 DEF DataTypes
  <2> HIDE DEF mid
  <2>2. \A q \in Page : Leads(copy[q], d) <=> Leads(pt[m][q], d)
    BY <1>7 DEF Alike, Leads
  <2>3. Everywhere(mid, d) = Everywhere(pt, d)
    <3>1. \A k \in Space, q \in Page : Leads(mid[k][q], d) <=> Leads(pt[k][q], d)
      BY <2>1, <2>2
    <3> QED
      BY <3>1 DEF Everywhere
  <2>4. Copied(mid, pt', m, n, d)
    BY <1>8, <2>1 DEF Copied, Elsewhere
  <2>5. Cardinality(Everywhere(pt', d)) = Cardinality(Everywhere(mid, d)) + Uses(mid[m], Page, d)
    BY <2>4, CountCopied
  <2>6. Uses(mid[m], Page, d) = Uses(pt[m], Page, d)
    BY <2>1, <2>2, UsesSame
  <2>7. dataRefs[d] = Cardinality(Everywhere(pt, d)) /\ dataRefs[d] \in Nat
    BY <1>2 DEF DataCounted, DataTypes
  <2> QED
    BY <2>3, <2>5, <2>6, <2>7, Finite
<1>11. DataCounted'
  BY <1>1, <1>10 DEF DataCounted
<1>12. DataTypes'
  <2>1. \A d \in Data : dataRefs[d] + Uses(pt[m], Page, d) \in Nat
    BY <1>10
  <2>2. dataRefs' \in [Data -> Nat]
    BY <1>1, <2>1
  <2> QED
    BY <1>2, <1>8, <1>9, <2>2 DEF DataTypes
<1>13. \A k \in {m, n}, q \in Page :
         Alike(pt'[k][q], pt[m][q]) /\ (pt'[k][q] # None => ~Writable(pt'[k][q]))
  BY <1>7, <1>8
<1> QED
  BY <1>3, <1>8, <1>9, <1>11, <1>12, <1>13 DEF Forks

\* fork keeps the invariant.
LEMMA ForkKeeps ==
  ASSUME Inv, wild = None, NEW t \in Thread, pc[t] = "kernel", NEW u \in Thread, NEW n \in Space,
         Fork(t, u, n)
  PROVE  Inv'
<1>0. PICK m \in Space : m = mem[t]
  BY SpaceOf
<1>1. /\ TaskCall /\ NoGuest(m) /\ refs[n] = 0 /\ refs' = [refs EXCEPT ![n] = 1]
      /\ brk' = [brk EXCEPT ![n] = brk[m]] /\ CopyOnWrite(t, n)
      /\ pc[u] = "unused" /\ pc' = [pc EXCEPT ![t] = "ret", ![u] = "ret"]
      /\ mem' = [mem EXCEPT ![u] = n]
      /\ tlb' = tlb /\ seen' = seen /\ suspect' = suspect
      /\ contents' = contents /\ wild' = wild
  BY <1>0 DEF Fork, StartThread
<1>2. /\ ThreadTypes /\ CountTypes /\ DataTypes
      /\ ThreadsCounted /\ EmptyWhenLeft /\ UnusedAreClean /\ TlbIndexed /\ SharedAreCow
      /\ \A v \in Thread : FlushAt(v)
  BY Parts DEF InvParts, CowKept
<1>3. Forks(m, n)
  BY <1>0, <1>1, CopyOnWriteForks
<1>4. DataTypes' /\ DataCounted'
  BY <1>3 DEF Forks
<1>5. refs' \in [Space -> Nat] /\ brk' \in [Space -> Nat]
  BY <1>1, <1>2 DEF CountTypes
<1>6. CountTypes'
  BY <1>1, <1>2, <1>5, TaskCallTypes
<1>7. mem[u] = None /\ None \notin Space
  BY <1>1, <1>2, NoneIsNothing DEF ThreadTypes
<1>8. /\ \A v \in Thread \ {t, u} : pc'[v] = pc[v]
      /\ \A v \in Thread \ {u} : mem'[v] = mem[v]
      /\ pc'[t] = "ret" /\ pc'[u] = "ret" /\ mem'[u] = n
  BY <1>1, <1>2 DEF ThreadTypes
<1>9. ThreadTypes'
  <2>1. /\ pc' \in [Thread -> {"guest", "kernel", "ret", "unused"}]
        /\ mem' \in [Thread -> Space \cup {None}]
    BY <1>1, <1>2 DEF ThreadTypes
  <2>2. \A v \in Thread : mem'[v] = None <=> pc'[v] = "unused"
    BY <1>0, <1>2, <1>7, <1>8 DEF ThreadTypes
  <2> QED
    BY <1>1, <1>2, <2>1, <2>2 DEF ThreadTypes
<1>10. ThreadsCounted'
  <2>1. \A k \in Space : refs'[k] = IF n = k THEN refs[k] + 1 ELSE refs[k]
    BY <1>1, <1>2 DEF CountTypes
  <2>2. \A k \in Space : mem[u] # k
    BY <1>7
  <2>3. Moves(mem, mem', u, n)
    BY <1>1, <1>2 DEF ThreadTypes, Moves
  <2>4. \A k \in Space : Cardinality(Who(mem', k)) =
                           IF n = k THEN Cardinality(Who(mem, k)) + 1
                           ELSE Cardinality(Who(mem, k))
    BY <2>2, <2>3, MoveCounts
  <2> QED
    BY <1>2, <2>1, <2>4 DEF ThreadsCounted
<1>11. EmptyWhenLeft'
  <2> SUFFICES ASSUME NEW k \in Space, refs'[k] = 0
               PROVE  pt'[k] = NoPages
    BY DEF EmptyWhenLeft
  <2>1. k # n /\ refs[k] = 0
    BY <1>1, <1>2 DEF CountTypes
  <2>2. k # m
    BY <1>0, <1>2, <2>1, WhoIsIn
  <2> QED
    BY <1>2, <1>3, <2>1, <2>2 DEF EmptyWhenLeft, Forks
<1>12. UnusedAreClean' /\ TlbIndexed'
  BY <1>1, <1>2, <1>8 DEF UnusedAreClean, TlbIndexed
<1>13. SharedAreCow'
  <2> SUFFICES ASSUME NEW k \in Space, NEW q \in Page, pt'[k][q] # None, Shared(k, q)',
                      Writable(pt'[k][q])
               PROVE  FALSE
    BY DEF SharedAreCow, Has
  <2>1. PICK j \in Space, r \in Page :
          /\ <<j, r>> # <<k, q>> /\ pt'[j][r] # None
          /\ pt'[j][r].data = pt'[k][q].data /\ pt'[j][r].off = pt'[k][q].off
    BY DEF Shared, Has
  <2>2. k \notin {m, n} /\ pt'[k] = pt[k]
    BY <1>3 DEF Forks
  <2>3. \E i \in Space : /\ <<i, r>> # <<k, q>> /\ pt[i][r] # None
                         /\ pt[i][r].data = pt[k][q].data /\ pt[i][r].off = pt[k][q].off
    <3>1. CASE j \in {m, n}
      <4>1. Alike(pt'[j][r], pt[m][r])
        BY <1>3, <3>1 DEF Forks
      <4> QED
        BY <2>1, <2>2, <4>1 DEF Alike
    <3>2. CASE j \notin {m, n}
      <4>1. pt'[j] = pt[j]
        BY <1>3, <3>2 DEF Forks
      <4> QED
        BY <2>1, <2>2, <4>1
    <3> QED
      BY <3>1, <3>2
  <2>4. Has(k, q) /\ Shared(k, q)
    BY <2>2, <2>3 DEF Has, Shared
  <2> QED
    BY <1>2, <2>2, <2>4 DEF SharedAreCow
<1>14. \A v \in Thread : FlushAt(v)'
  <2>1. FlushAt(u)'
    BY <1>1, <1>2, <1>8, UnusedFresh
  <2>2. ASSUME NEW v \in Thread \ {u}
        PROVE  Bystander(v)
    <3>1. changes \in [Space -> Nat] /\ mem[v] \in Space \cup {None}
      BY <1>2, <2>2 DEF DataTypes, ThreadTypes
    <3>2. /\ mem'[v] = mem[v] /\ (pc'[v] = "unused" <=> pc[v] = "unused")
          /\ pc'[v] = "guest" => pc[v] = "guest"
      BY <1>1, <1>8, <2>2
    <3>3. mem[v] # n
      BY <1>1, <1>2, <2>2, WhoIsIn
    <3>4. mem[v] = m => pc'[v] # "guest"
      BY <1>1, <2>2, <3>2 DEF NoGuest
    <3>5. changes'[m] \in Nat /\ changes[m] \in Nat /\ changes[m] < changes'[m]
      BY <1>2, <1>3 DEF Forks, DataTypes
    <3>6. mem[v] \in Space \ {m, n} =>
            pt'[mem[v]] = pt[mem[v]] /\ changes'[mem[v]] = changes[mem[v]]
      BY <1>3 DEF Forks
    <3>7. CASE mem[v] = m
      <4>1. /\ changes[mem[v]] < changes'[mem[v]] /\ changes[mem[v]] <= changes'[mem[v]]
            /\ pc'[v] # "guest"
        BY <3>4, <3>5, <3>7
      <4> QED
        BY <1>1, <3>2, <4>1 DEF Bystander
    <3>8. CASE mem[v] # m
      BY <1>1, <3>1, <3>2, <3>3, <3>6, <3>8 DEF Bystander
    <3> QED
      BY <3>7, <3>8
  <2> QED
    BY <1>2, <1>4, <2>1, <2>2, BystanderFresh DEF DataTypes
<1>15. CowKept'
  BY <1>13 DEF CowKept
<1> QED
  BY <1>4, <1>6, <1>9, <1>10, <1>11, <1>12, <1>14, <1>15, Parts DEF InvParts

(***************************************************************************)
(* exec                                                                    *)
(***************************************************************************)

\* An empty table comes to show the image of a and b.
Imaged(old, new, n, a, b) ==
  Elsewhere(old, new, n) /\ old[n] = NoPages /\ new[n] = Image(a, b)

\* The image of a program: a page of text and a stack.
LEMMA ImageFacts ==
  ASSUME NEW a \in Data, NEW b \in Data, a # b
  PROVE  /\ Image(a, b) \in [Page -> PageEntry \cup {None}]
         /\ 0 \in Page /\ StackPage \in Page /\ StackPage # 0
         /\ \A p \in Page : Image(a, b)[p] # None <=> p \in {0, StackPage}
         /\ Image(a, b)[0].data = a /\ Image(a, b)[0].off = 0
         /\ Image(a, b)[StackPage].data = b /\ Image(a, b)[StackPage].off = 0
<1>1. 0 \in Page /\ StackPage \in Page /\ StackPage # 0
  BY MemoryAssumption DEF Page, StackPage
<1>2. /\ Entry(a, 0, {"w"}) \in PageEntry /\ Entry(a, 0, {"w"}).data = a
      /\ Entry(a, 0, {"w"}).off = 0
      /\ Entry(b, 0, {"w", "grow", "anon"}) \in PageEntry
      /\ Entry(b, 0, {"w", "grow", "anon"}).data = b
      /\ Entry(b, 0, {"w", "grow", "anon"}).off = 0
  BY <1>1 DEF Entry, PageEntry, Flag
<1>3. /\ Image(a, b)[0] = Entry(a, 0, {"w"})
      /\ Image(a, b)[StackPage] = Entry(b, 0, {"w", "grow", "anon"})
      /\ \A p \in Page : p \notin {0, StackPage} => Image(a, b)[p] = None
  BY <1>1 DEF Image
<1>4. Image(a, b) = [p \in Page |-> Image(a, b)[p]]
  BY DEF Image
<1> HIDE DEF Image
<1>5. \A p \in Page : /\ Image(a, b)[p] \in PageEntry \cup {None}
                      /\ Image(a, b)[p] # None <=> p \in {0, StackPage}
  BY <1>1, <1>2, <1>3, NoneIsNothing
<1>6. Image(a, b) \in [Page -> PageEntry \cup {None}]
  BY <1>4, <1>5
<1> QED
  BY <1>1, <1>2, <1>3, <1>5, <1>6

\* The image adds one to the counts of its two objects.
LEMMA CountImaged ==
  ASSUME NEW old, NEW new, NEW n \in Space, NEW a \in Data, NEW b \in Data, NEW d,
         a # b, Imaged(old, new, n, a, b)
  PROVE  Cardinality(Everywhere(new, d)) =
           Cardinality(Everywhere(old, d)) + IF d \in {a, b} THEN 1 ELSE 0
<1>1. Cardinality(Everywhere(new, d)) + Uses(old[n], Page, d)
        = Cardinality(Everywhere(old, d)) + Uses(new[n], Page, d)
  BY OneTable DEF Imaged
<1>2. Uses(old[n], Page, d) = 0
  BY UsesNone DEF Imaged, NoPages, Leads
<1>3. /\ \A p \in Page : Leads(new[n][p], d) <=>
           (p = 0 /\ d = a) \/ (p = StackPage /\ d = b)
      /\ 0 \in Page /\ StackPage \in Page
  BY ImageFacts DEF Imaged, Leads
<1>4. Uses(new[n], Page, d) = IF d \in {a, b} THEN 1 ELSE 0
  <2>1. CASE d \notin {a, b}
    BY <1>3, <2>1, UsesNone
  <2>2. CASE d \in {a, b}
    <3>1. PICK p \in Page : Pages(new[n], Page, d) = {p}
      BY <1>3, <2>2 DEF Pages
    <3> QED
      BY <2>2, <3>1, FS_Singleton DEF Uses, Pages
  <2> QED
    BY <2>1, <2>2
<1>5. Cardinality(Everywhere(new, d)) \in Nat /\ Cardinality(Everywhere(old, d)) \in Nat
  BY Finite
<1> QED
  BY <1>1, <1>2, <1>4, <1>5

\* The first program's image satisfies the invariant.
LEMMA InitInv == Init => Inv
<1> SUFFICES ASSUME Init
             PROVE  Inv
  OBVIOUS
<1> DEFINE a == CHOOSE d \in Data : TRUE
           b == CHOOSE d \in Data : d # a
<1>1. a \in Data /\ b \in Data /\ a # b
  <2>1. a \in Data
    BY MemoryAssumption
  <2>2. \E d \in Data : d # a
    BY <2>1, MemoryAssumption
  <2> HIDE DEF a
  <2> QED
    BY <2>1, <2>2
<1>2. /\ pc = [t \in Thread |-> IF t = Root THEN "ret" ELSE "unused"]
      /\ mem = [t \in Thread |-> IF t = Root THEN First ELSE None]
      /\ tlb = [t \in Thread |-> NoTlb]
      /\ seen = [t \in Thread |-> 0]
      /\ suspect = [t \in Thread |-> FALSE]
      /\ refs = [m \in Space |-> IF m = First THEN 1 ELSE 0]
      /\ changes = [m \in Space |-> 0]
      /\ brk = [m \in Space |-> StartBrk]
      /\ pt = [m \in Space |-> IF m = First THEN Image(a, b) ELSE NoPages]
      /\ dataRefs = [d \in Data |-> IF d \in {a, b} THEN 1 ELSE 0]
      /\ contents = [d \in Data |-> IF d = a THEN FromFile ELSE Zeroes]
      /\ ops = 0 /\ tasks = 0 /\ stores = 0
      /\ wild = None
  BY DEF Init
<1> HIDE DEF a, b
<1>3. /\ NoTlb \in [0 .. TlbSize - 1 -> TlbEntry \cup {None}]
      /\ \A i \in 0 .. TlbSize - 1 : NoTlb[i] = None
  BY DEF NoTlb
<1>4. ThreadTypes
  <2>1. Root \in Thread /\ First \in Space /\ First # None
    BY MemoryAssumption, NoneIsNothing
  <2> QED
    BY <1>2, <1>3, <2>1 DEF ThreadTypes
<1>5. CountTypes
  BY <1>2 DEF CountTypes, StartBrk
<1>6. DataTypes
  <2>1. NoPages \in [Page -> PageEntry \cup {None}]
    BY DEF NoPages
  <2>2. Zeroes \in [Page -> Content] /\ FromFile \in [Page -> Content]
    BY MemoryAssumption DEF Zeroes, ZeroPage, Content, FromFile
  <2> QED
    BY <1>1, <1>2, <2>1, <2>2, ImageFacts DEF DataTypes
<1>7. DataCounted
  <2> DEFINE old == [m \in Space |-> NoPages]
  <2>1. Imaged(old, pt, First, a, b)
    BY <1>2, MemoryAssumption DEF Imaged, Elsewhere
  <2>2. ASSUME NEW d \in Data
        PROVE  dataRefs[d] = Cardinality(Everywhere(pt, d))
    <3>1. \A m \in Space, q \in Page : ~Leads(old[m][q], d)
      BY DEF Leads, NoPages
    <3>2. Everywhere(old, d) = {}
      BY <3>1 DEF Everywhere
    <3>3. Cardinality(Everywhere(old, d)) = 0
      BY <3>2, FS_EmptySet
    <3> HIDE DEF old
    <3>4. Cardinality(Everywhere(pt, d)) =
            Cardinality(Everywhere(old, d)) + IF d \in {a, b} THEN 1 ELSE 0
      BY <1>1, <2>1, MemoryAssumption, CountImaged
    <3> QED
      BY <1>2, <3>3, <3>4
  <2> QED
    BY <2>2 DEF DataCounted
<1>8. ThreadsCounted
  <2>1. Who(mem, First) = {Root}
    BY <1>2, MemoryAssumption, NoneIsNothing DEF Who
  <2>2. Cardinality(Who(mem, First)) = 1
    BY <2>1, FS_Singleton
  <2>3. ASSUME NEW m \in Space, m # First
        PROVE  Cardinality(Who(mem, m)) = 0
    <3>1. Who(mem, m) = {}
      BY <1>2, <2>3, NoneIsNothing DEF Who
    <3> QED
      BY <3>1, FS_EmptySet
  <2> QED
    BY <1>2, <2>2, <2>3 DEF ThreadsCounted
<1>9. EmptyWhenLeft
  BY <1>2 DEF EmptyWhenLeft
<1>10. UnusedAreClean /\ TlbIndexed
  BY <1>2, <1>3 DEF UnusedAreClean, TlbIndexed
<1>11. CowKept
  <2>1. \A n \in Space, q \in Page : pt[n][q] # None => n = First
    BY <1>2 DEF NoPages
  <2>2. pt[First] = Image(a, b)
    BY <1>2, MemoryAssumption
  <2>3. \A n \in Space, q \in Page : ~(Has(n, q) /\ Shared(n, q))
    BY <1>1, <2>1, <2>2, ImageFacts DEF Has, Shared
  <2> QED
    BY <2>3 DEF CowKept, SharedAreCow
<1>12. \A t \in Thread : FlushAt(t)
  BY <1>2, <1>3 DEF FlushAt
<1> QED
  BY <1>4, <1>5, <1>6, <1>7, <1>8, <1>9, <1>10, <1>11, <1>12, Parts DEF InvParts

\* t leaves the space m and comes to n, which shows the image.
Execs(t, m, n, a, b) ==
  /\ m = mem[t] /\ (refs[n] = 0 \/ (n = m /\ refs[m] = 1))
  /\ a \in Data /\ b \in Data /\ a # b
  /\ DataTypes' /\ DataCounted'
  /\ pt'[n] = Image(a, b)
  /\ Show(n, 0)' = FromFile[0] /\ Show(n, StackPage)' = Zeroes[0]
  /\ refs[m] = 1 /\ m # n => pt'[m] = NoPages
  /\ \A k \in Space \ {n} : ~(k = m /\ refs[m] = 1) =>
       pt'[k] = pt[k] /\ \A q \in Page : Show(k, q)' = Show(k, q)
  /\ OnlyOnes

\* What exec leaves: the old space given up, a new one with the image.
LEMMA ExecFacts ==
  ASSUME Inv, NEW t \in Thread, pc[t] = "kernel", NEW n \in Space, Exec(t, n)
  PROVE  \E m \in Space : \E a \in Data, b \in Data : Execs(t, m, n, a, b)
<1>0. PICK m \in Space : m = mem[t]
  BY SpaceOf
<1> DEFINE counts == ReleasedCounts(t)
           a == NewData(counts)
           b == NewData([counts EXCEPT ![a] = 1])
           mid == [pt EXCEPT ![m] = IF refs[m] = 1 THEN NoPages ELSE @]
<1>1. /\ refs[n] = 0 \/ (n = m /\ refs[m] = 1)
      /\ Room(counts) /\ Room([counts EXCEPT ![a] = 1])
      /\ pt' = [mid EXCEPT ![n] = Image(a, b)]
      /\ dataRefs' = [counts EXCEPT ![a] = 1, ![b] = 1]
      /\ Keep(counts, a, FromFile)
      /\ changes' = [changes EXCEPT ![n] = 0]
  BY <1>0 DEF Exec, Last
<1>2. DataTypes /\ DataCounted /\ EmptyWhenLeft
  BY Parts DEF InvParts
<1>3. counts = IF refs[m] = 1 THEN Dropped(pt[m], Page) ELSE dataRefs
  BY <1>0 DEF ReleasedCounts, Last
<1>4. /\ mid \in [Space -> [Page -> PageEntry \cup {None}]]
      /\ \A k \in Space \ {m} : mid[k] = pt[k]
      /\ mid[m] = IF refs[m] = 1 THEN NoPages ELSE pt[m]
      /\ mid[n] = NoPages
  <2>1. NoPages \in [Page -> PageEntry \cup {None}]
    BY DEF NoPages
  <2>2. /\ mid \in [Space -> [Page -> PageEntry \cup {None}]]
        /\ \A k \in Space \ {m} : mid[k] = pt[k]
        /\ mid[m] = IF refs[m] = 1 THEN NoPages ELSE pt[m]
    BY <1>2, <2>1 DEF DataTypes
  <2> HIDE DEF mid
  <2>3. mid[n] = NoPages
    BY <1>1, <1>2, <2>2 DEF EmptyWhenLeft
  <2> QED
    BY <2>2, <2>3
<1> HIDE DEF mid, counts
<1>5. /\ counts = [d \in Data |-> counts[d]]
      /\ \A d \in Data : counts[d] = Cardinality(Everywhere(mid, d))
  <2>1. /\ dataRefs \in [Data -> Nat]
        /\ \A d \in Data : dataRefs[d] = Cardinality(Everywhere(pt, d))
    BY <1>2 DEF DataTypes, DataCounted
  <2>2. CASE refs[m] = 1
    <3>1. Outside(pt, mid, m, Page) /\ NoneOf(mid[m], Page) /\ Page \subseteq Page
      BY <1>4, <2>2 DEF Outside, Elsewhere, NoneOf, NoPages
    <3>2. \A d \in Data : Cardinality(Everywhere(mid, d))
                            = Cardinality(Everywhere(pt, d)) - Uses(pt[m], Page, d)
      BY <3>1, CountDropped
    <3> QED
      BY <1>3, <2>1, <2>2, <3>2 DEF Dropped
  <2>3. CASE refs[m] # 1
    <3>1. \A k \in Space : mid[k] = pt[k]
      BY <1>4, <2>3
    <3>2. \A d \in Data : Everywhere(mid, d) = Everywhere(pt, d)
      BY <3>1 DEF Everywhere
    <3> QED
      BY <1>3, <2>1, <2>3, <3>2
  <2> QED
    BY <2>2, <2>3
<1>6. counts \in [Data -> Nat]
  <2>1. \A d \in Data : counts[d] \in Nat
    BY <1>5, Finite
  <2> QED
    BY <1>5, <2>1
<1>7. a \in Data /\ counts[a] = 0
  BY <1>1 DEF Room, NewData
<1>8. b \in Data /\ counts[b] = 0 /\ a # b
  <2> DEFINE two == [counts EXCEPT ![a] = 1]
  <2>1. b \in Data /\ two[b] = 0
    BY <1>1 DEF Room, NewData
  <2> HIDE DEF a, b
  <2>2. \A d \in Data : two[d] = IF d = a THEN 1 ELSE counts[d]
    BY <1>6
  <2> QED
    BY <1>7, <2>1, <2>2
<1> HIDE DEF a, b
<1>9. /\ Image(a, b) \in [Page -> PageEntry \cup {None}]
      /\ 0 \in Page /\ StackPage \in Page /\ StackPage # 0
      /\ \A p \in Page : Image(a, b)[p] # None <=> p \in {0, StackPage}
      /\ Image(a, b)[0].data = a /\ Image(a, b)[0].off = 0
      /\ Image(a, b)[StackPage].data = b /\ Image(a, b)[StackPage].off = 0
  BY <1>7, <1>8, ImageFacts
<1>10. /\ pt' \in [Space -> [Page -> PageEntry \cup {None}]]
       /\ pt'[n] = Image(a, b) /\ \A k \in Space \ {n} : pt'[k] = mid[k]
  BY <1>1, <1>4, <1>9
<1>11. Imaged(mid, pt', n, a, b)
  BY <1>4, <1>10 DEF Imaged, Elsewhere
<1>12. \A d \in Data : Cardinality(Everywhere(pt', d)) = counts[d] + IF d \in {a, b} THEN 1 ELSE 0
  BY <1>5, <1>7, <1>8, <1>11, CountImaged
<1>13. \A d \in Data : dataRefs'[d] = IF d \in {a, b} THEN 1 ELSE counts[d]
  BY <1>1, <1>6, <1>7, <1>8
<1>14. DataCounted'
  BY <1>6, <1>7, <1>8, <1>12, <1>13 DEF DataCounted
<1>15. /\ contents' \in [Data -> [Page -> Content]]
       /\ contents'[a] = FromFile /\ contents'[b] = Zeroes
       /\ \A d \in Data : counts[d] # 0 => contents'[d] = contents[d]
  <2>1. Zeroes \in [Page -> Content] /\ FromFile \in [Page -> Content]
    BY MemoryAssumption DEF Zeroes, ZeroPage, Content, FromFile
  <2>2. contents' = [d \in Data |-> IF d = a THEN FromFile
                                   ELSE IF counts[d] = 0 THEN Zeroes ELSE contents[d]]
    BY <1>1 DEF Keep
  <2>3. contents \in [Data -> [Page -> Content]]
    BY <1>2 DEF DataTypes
  <2> HIDE DEF FromFile, Zeroes
  <2> QED
    BY <1>7, <1>8, <2>1, <2>2, <2>3
<1>16. DataTypes'
  <2>1. changes' \in [Space -> Nat]
    BY <1>1, <1>2 DEF DataTypes
  <2>2. dataRefs' \in [Data -> Nat]
    BY <1>1, <1>6
  <2> QED
    BY <1>10, <1>15, <2>1, <2>2 DEF DataTypes
<1>17. Show(n, 0)' = FromFile[0] /\ Show(n, StackPage)' = Zeroes[0]
  <2>1. /\ pt'[n][0] # None /\ pt'[n][0].data = a /\ pt'[n][0].off = 0
        /\ pt'[n][StackPage] # None /\ pt'[n][StackPage].data = b
        /\ pt'[n][StackPage].off = 0
    BY <1>9, <1>10
  <2> QED
    BY <1>15, <2>1 DEF Show
<1>18. \A k \in Space, q \in Page : ~Leads(mid[k][q], a) /\ ~Leads(mid[k][q], b)
  BY <1>5, <1>7, <1>8, UnusedObjects
<1>19. refs[m] = 1 /\ m # n => pt'[m] = NoPages
  BY <1>4, <1>10
<1>20. ASSUME NEW k \in Space \ {n}, ~(k = m /\ refs[m] = 1)
       PROVE  pt'[k] = pt[k] /\ \A q \in Page : Show(k, q)' = Show(k, q)
  <2>1. pt'[k] = pt[k] /\ mid[k] = pt[k]
    BY <1>4, <1>10, <1>20
  <2>2. ASSUME NEW q \in Page
        PROVE  Show(k, q)' = Show(k, q)
    <3>1. CASE pt[k][q] = None
      BY <2>1, <3>1 DEF Show
    <3>2. CASE pt[k][q] # None
      <4> DEFINE e == pt[k][q].data
      <4>1. e \in Data /\ Leads(mid[k][q], e)
        BY <1>2, <2>1, <3>2 DEF Leads, DataTypes, PageEntry
      <4>2. Cardinality(Everywhere(mid, e)) # 0
        BY <4>1, UnusedObjects
      <4>3. contents'[e] = contents[e]
        BY <1>5, <1>15, <4>1, <4>2
      <4> QED
        BY <2>1, <3>2, <4>3 DEF Show
    <3> QED
      BY <3>1, <3>2
  <2> QED
    BY <2>1, <2>2
<1>21. OnlyOnes
  <2> SUFFICES ASSUME NEW k \in Space, NEW q \in Page, pt'[k][q] # pt[k][q], pt'[k][q] # None,
                      Shared(k, q)'
               PROVE  FALSE
    BY DEF OnlyOnes
  <2>1. PICK j \in Space, r \in Page :
          /\ <<j, r>> # <<k, q>> /\ pt'[j][r] # None
          /\ pt'[j][r].data = pt'[k][q].data /\ pt'[j][r].off = pt'[k][q].off
    BY DEF Shared, Has
  <2>2. k = n /\ q \in {0, StackPage}
    <3>1. k = n
      BY <1>4, <1>10, NoneIsNothing DEF NoPages
    <3> QED
      BY <1>9, <1>10, <3>1
  <2>3. pt'[k][q].data \in {a, b}
    BY <1>9, <1>10, <2>2
  <2>4. j = n
    BY <1>10, <1>18, <2>1, <2>3 DEF Leads
  <2>5. r \in {0, StackPage} /\ r # q
    BY <1>9, <1>10, <2>1, <2>2, <2>4
  <2> QED
    BY <1>8, <1>9, <1>10, <2>1, <2>2, <2>4, <2>5
<1>22. \A k \in Space \ {n} : ~(k = m /\ refs[m] = 1) =>
         pt'[k] = pt[k] /\ \A q \in Page : Show(k, q)' = Show(k, q)
  BY <1>20
<1>23. Execs(t, m, n, a, b)
  BY <1>0, <1>1, <1>7, <1>8, <1>10, <1>14, <1>16, <1>17, <1>19, <1>21, <1>22 DEF Execs
<1> QED
  BY <1>7, <1>8, <1>23

\* exec keeps the invariant.
LEMMA ExecKeeps ==
  ASSUME Inv, wild = None, NEW t \in Thread, pc[t] = "kernel", NEW n \in Space, Exec(t, n)
  PROVE  Inv'
<1>0. PICK m \in Space, a \in Data, b \in Data : Execs(t, m, n, a, b)
  BY ExecFacts
<1>1. /\ m = mem[t] /\ (refs[n] = 0 \/ (n = m /\ refs[m] = 1))
      /\ DataTypes' /\ DataCounted' /\ OnlyOnes
      /\ refs[m] = 1 /\ m # n => pt'[m] = NoPages
      /\ \A k \in Space \ {n} : ~(k = m /\ refs[m] = 1) => pt'[k] = pt[k]
  BY <1>0 DEF Execs
<1>2. /\ TaskCall /\ refs' = [[refs EXCEPT ![m] = @ - 1] EXCEPT ![n] = 1]
      /\ changes' = [changes EXCEPT ![n] = 0] /\ brk' = [brk EXCEPT ![n] = StartBrk]
      /\ mem' = [mem EXCEPT ![t] = n] /\ suspect' = [suspect EXCEPT ![t] = TRUE]
      /\ pc' = [pc EXCEPT ![t] = "ret"]
      /\ tlb' = tlb /\ seen' = seen /\ wild' = wild
  BY <1>1 DEF Exec, Goto
<1>3. /\ ThreadTypes /\ CountTypes /\ DataTypes
      /\ ThreadsCounted /\ EmptyWhenLeft /\ UnusedAreClean /\ TlbIndexed /\ SharedAreCow
      /\ \A v \in Thread : FlushAt(v)
  BY Parts DEF InvParts, CowKept
<1>4. refs[m] \in Nat /\ refs[m] # 0
  BY <1>1, <1>3, WhoIsIn DEF CountTypes
<1>5. \A k \in Space : refs'[k] = IF k = n THEN 1 ELSE IF k = m THEN refs[k] - 1 ELSE refs[k]
  BY <1>2, <1>3 DEF CountTypes
<1>6. refs' \in [Space -> Nat] /\ brk' \in [Space -> Nat]
  <2>1. \A k \in Space : refs'[k] \in Nat
    BY <1>3, <1>4, <1>5 DEF CountTypes
  <2>2. refs' = [k \in Space |-> refs'[k]]
    BY <1>2, <1>3 DEF CountTypes
  <2> QED
    BY <1>2, <1>3, <2>1, <2>2 DEF CountTypes, StartBrk
<1>7. CountTypes'
  BY <1>2, <1>3, <1>6, TaskCallTypes
<1>8. /\ \A v \in Thread \ {t} : pc'[v] = pc[v] /\ mem'[v] = mem[v] /\ suspect'[v] = suspect[v]
      /\ pc'[t] = "ret" /\ mem'[t] = n /\ suspect'[t]
  BY <1>2, <1>3 DEF ThreadTypes
<1>9. None \notin Space
  BY NoneIsNothing
<1>10. ThreadTypes'
  <2>1. /\ pc' \in [Thread -> {"guest", "kernel", "ret", "unused"}]
        /\ mem' \in [Thread -> Space \cup {None}]
        /\ suspect' \in [Thread -> BOOLEAN]
    BY <1>2, <1>3 DEF ThreadTypes
  <2>2. \A v \in Thread : mem'[v] = None <=> pc'[v] = "unused"
    BY <1>3, <1>8, <1>9 DEF ThreadTypes
  <2> QED
    BY <1>2, <1>3, <2>1, <2>2 DEF ThreadTypes
<1>11. ThreadsCounted'
  <2>1. Moves(mem, mem', t, n)
    BY <1>2, <1>3 DEF ThreadTypes, Moves
  <2>2. \A k \in Space : Cardinality(Who(mem', k)) =
           IF n = k /\ m # k THEN Cardinality(Who(mem, k)) + 1
           ELSE IF n # k /\ m = k THEN Cardinality(Who(mem, k)) - 1
           ELSE Cardinality(Who(mem, k))
    BY <1>1, <2>1, MoveCounts
  <2>3. \A k \in Space : refs[k] = Cardinality(Who(mem, k))
    BY <1>3 DEF ThreadsCounted
  <2>4. ASSUME NEW k \in Space
        PROVE  refs'[k] = Cardinality(Who(mem', k))
    <3>1. refs'[k] = IF k = n THEN 1 ELSE IF k = m THEN refs[k] - 1 ELSE refs[k]
      BY <1>5
    <3>2. refs[n] = 0 \/ (n = m /\ refs[m] = 1)
      BY <1>1
    <3>3. Cardinality(Who(mem', k)) = IF n = k /\ m # k THEN refs[k] + 1
                                      ELSE IF n # k /\ m = k THEN refs[k] - 1 ELSE refs[k]
      BY <2>2, <2>3
    <3>4. refs[m] # 0
      BY <1>4
    <3> QED
      BY <3>1, <3>2, <3>3, <3>4
  <2> QED
    BY <2>4 DEF ThreadsCounted
<1>12. EmptyWhenLeft'
  <2> SUFFICES ASSUME NEW k \in Space, refs'[k] = 0
               PROVE  pt'[k] = NoPages
    BY DEF EmptyWhenLeft
  <2>1. k # n
    BY <1>5
  <2>2. CASE k = m
    BY <1>1, <1>4, <1>5, <2>1, <2>2
  <2>3. CASE k # m
    BY <1>1, <1>3, <1>5, <2>1, <2>3 DEF EmptyWhenLeft
  <2> QED
    BY <2>2, <2>3
<1>13. UnusedAreClean' /\ TlbIndexed'
  BY <1>2, <1>3, <1>8 DEF UnusedAreClean, TlbIndexed
<1>14. CowKept'
  BY <1>1, <1>3, CowStays DEF CowKept
<1>15. \A v \in Thread : FlushAt(v)'
  <2>1. FlushAt(t)'
    BY <1>8 DEF FlushAt
  <2>2. ASSUME NEW v \in Thread \ {t}
        PROVE  Bystander(v)
    <3>1. changes \in [Space -> Nat] /\ mem[v] \in Space \cup {None}
      BY <1>3, <2>2 DEF DataTypes, ThreadTypes
    <3>2. mem[v] # n
      <4>1. CASE refs[n] = 0
        BY <1>3, <2>2, <4>1, WhoIsIn
      <4>2. CASE n = m /\ refs[m] = 1
        BY <1>1, <1>3, <2>2, <4>2, WhoIsIn
      <4> QED
        BY <1>1, <4>1, <4>2
    <3>3. refs[m] = 1 => mem[v] # m
      BY <1>1, <1>3, <2>2, WhoIsIn
    <3>4. mem[v] # None => pt'[mem[v]] = pt[mem[v]] /\ changes'[mem[v]] = changes[mem[v]]
      BY <1>1, <1>2, <3>1, <3>2, <3>3
    <3> QED
      BY <1>2, <1>8, <2>2, <3>1, <3>4 DEF Bystander
  <2> QED
    BY <1>1, <1>3, <2>1, <2>2, BystanderFresh DEF DataTypes
<1> QED
  BY <1>1, <1>7, <1>10, <1>11, <1>12, <1>13, <1>14, <1>15, Parts DEF InvParts

(***************************************************************************)
(* The invariant                                                           *)
(***************************************************************************)

\* What the steps of the guest and of the kernel do, one line for each call.
Step(t) ==
  \/ \E why \in {"stale", "mprotect", "mremap"} : GoWild(why)
  \/ pc[t] = "guest" /\ Interrupt(t)
  \/ Resume(t)
  \/ \E p \in Page, write \in BOOLEAN, c \in Cell, v \in Value :
       \/ /\ pc[t] = "guest" /\ Access(t, p, write, c, v)
          /\ Hit(t, p, write) => Current(t, tlb[t][TlbIndex(p)])
       \/ pc[t] = "kernel" /\ UserAccess(t, p, write, c, v)
  \/ pc[t] = "kernel" /\ Remaps(t)
  \/ pc[t] = "kernel" /\ \E r \in Ranges, prot \in Prots : Mprotect(t, r[1], r[2], prot)
  \/ pc[t] = "kernel" /\ \E n \in Space : Exec(t, n)
  \/ pc[t] = "kernel" /\ \E n \in Space, u \in Thread : Fork(t, u, n)
  \/ pc[t] = "kernel" /\ \E u \in Thread : CloneVm(t, u)
  \/ pc[t] = "kernel" /\ Exit(t)

\* Both forms of mmap.
LEMMA MmapsRemap ==
  ASSUME Inv, NEW t \in Thread, pc[t] = "kernel", NEW r \in Ranges, NEW flags \in MapFlags,
         MmapAnywhere(t, r[2], flags) \/ MmapFixed(t, r[1], r[2], flags)
  PROVE  Remaps(t)
<1>0. r[1] \in 0 .. N - 1 /\ r[2] \in 1 .. N /\ r[1] + r[2] <= N /\ N \in Nat
  BY MemoryAssumption DEF Page
<1>1. CASE MmapFixed(t, r[1], r[2], flags)
  <2> DEFINE S == r[1] .. r[1] + r[2] - 1
  <2>1. S \in SUBSET Page /\ r[1] \in Nat /\ \A p \in S : r[1] <= p
    BY <1>0 DEF Page
  <2>2. Mmap(t, S, r[1], flags)
    BY <1>1 DEF MmapFixed
  <2> HIDE DEF S
  <2> QED
    BY <2>1, <2>2, MmapRemaps
<1>2. CASE MmapAnywhere(t, r[2], flags)
  <2>1. PICK q \in Holes(mem[t], r[2]) : Mmap(t, q .. q + r[2] - 1, q, flags)
    BY <1>2 DEF MmapAnywhere
  <2> DEFINE S == q .. q + r[2] - 1
  <2>2. q \in 0 .. N - 1 /\ q + r[2] <= N - 1
    BY <2>1 DEF Holes, Page, StackPage
  <2>3. S \in SUBSET Page /\ q \in Nat /\ \A p \in S : q <= p
    BY <1>0, <2>2 DEF Page
  <2>4. Mmap(t, S, q, flags)
    BY <2>1
  <2> HIDE DEF S
  <2> QED
    BY <2>3, <2>4, MmapRemaps
<1> QED
  BY <1>1, <1>2

\* Every step is some thread's, and the program has not gone wrong before it.
LEMMA NextSteps ==
  ASSUME Inv, Next
  PROVE  wild = None /\ \E t \in Thread : Step(t)
<1>1. PICK t \in Thread : wild = None /\ (Guest(t) \/ Kernel(t))
  BY DEF Next
<1> SUFFICES Step(t)
  BY <1>1
<1>2. \A p \in Touched, s \in Stored : p \in Page /\ s[1] \in Cell /\ s[2] \in Value
  BY MemoryAssumption
<1>3. CASE Guest(t)
  <2>1. CASE Interrupt(t)
    BY <2>1 DEF Step, Interrupt
  <2>2. CASE Resume(t)
    BY <2>2 DEF Step
  <2>3. CASE Accesses(LAMBDA p, write, c, v : Access(t, p, write, c, v))
    <3>1. PICK p \in Touched, s \in Stored, write \in BOOLEAN : Access(t, p, write, s[1], s[2])
      BY <2>3 DEF Accesses
    <3>2. CASE Hit(t, p, write) => Current(t, tlb[t][TlbIndex(p)])
      <4>1. pc[t] = "guest"
        BY <3>1 DEF Access
      <4> QED
        BY <1>2, <3>1, <3>2, <4>1 DEF Step
    <3>3. CASE Hit(t, p, write) /\ ~Current(t, tlb[t][TlbIndex(p)])
      <4>1. GoWild("stale")
        BY <3>1, <3>3 DEF Access
      <4> QED
        BY <4>1 DEF Step
    <3> QED
      BY <3>2, <3>3
  <2> QED
    BY <1>3, <2>1, <2>2, <2>3 DEF Guest
<1>4. CASE Kernel(t)
  <2>0. pc[t] = "kernel"
    BY <1>4 DEF Kernel
  <2>1. CASE Accesses(LAMBDA p, write, c, v : UserAccess(t, p, write, c, v))
    <3>1. PICK p \in Touched, s \in Stored, write \in BOOLEAN : UserAccess(t, p, write, s[1], s[2])
      BY <2>1 DEF Accesses
    <3> QED
      BY <1>2, <2>0, <3>1 DEF Step
  <2>2. ASSUME NEW r \in Ranges, NEW flags \in MapFlags,
               MmapAnywhere(t, r[2], flags) \/ MmapFixed(t, r[1], r[2], flags)
        PROVE  Step(t)
    BY <2>0, <2>2, MmapsRemap DEF Step
  <2>3. ASSUME NEW r \in Ranges, Munmap(t, r[1], r[2])
        PROVE  Step(t)
    BY <2>0, <2>3, MunmapRemaps DEF Step
  <2>4. ASSUME NEW r \in Ranges, NEW prot \in Prots, Mprotect(t, r[1], r[2], prot)
        PROVE  Step(t)
    BY <2>0, <2>4 DEF Step
  <2>5. ASSUME NEW r \in Ranges, NEW new \in 0 .. r[2], MremapShrink(t, r[1], r[2], new)
        PROVE  Step(t)
    BY <2>0, <2>5, MremapShrinkRemaps DEF Step
  <2>6. ASSUME NEW r \in Ranges, NEW old \in 1 .. r[2], MremapGrow(t, r[1], old, r[2])
        PROVE  Step(t)
    BY <2>0, <2>6, MremapGrowRemaps DEF Step
  <2>7. ASSUME NEW new \in Breaks, BrkGrow(t, new) \/ BrkShrink(t, new)
        PROVE  Step(t)
    BY <2>0, <2>7, BrkGrowRemaps, BrkShrinkRemaps DEF Step
  <2>8. CASE \/ \E n \in Space : Exec(t, n) \/ \E u \in Thread : Fork(t, u, n)
             \/ \E u \in Thread : CloneVm(t, u)
             \/ Exit(t)
    BY <2>0, <2>8 DEF Step
  <2> QED
    BY <1>4, <2>1, <2>2, <2>3, <2>4, <2>5, <2>6, <2>7, <2>8 DEF Kernel
<1> QED
  BY <1>1, <1>3, <1>4

\* The invariant is inductive.
LEMMA NextInv == Inv /\ [Next]_vars => Inv'
<1> SUFFICES ASSUME Inv, [Next]_vars
             PROVE  Inv'
  OBVIOUS
<1>1. CASE Next
  <2>1. PICK t \in Thread : wild = None /\ Step(t)
    BY <1>1, NextSteps
  <2>2. ASSUME NEW why \in {"stale", "mprotect", "mremap"}, GoWild(why)
        PROVE  Inv'
    BY <2>2, WildKeeps
  <2>3. CASE Interrupt(t)
    BY <2>3, InterruptKeeps
  <2>4. CASE Resume(t)
    BY <2>4, ResumeKeeps
  <2>5. ASSUME NEW p \in Page, NEW write \in BOOLEAN, NEW c \in Cell, NEW v \in Value,
               pc[t] = "guest", Access(t, p, write, c, v),
               Hit(t, p, write) => Current(t, tlb[t][TlbIndex(p)])
        PROVE  Inv'
    BY <2>1, <2>5, HitKeeps, MissKeeps
  <2>6. ASSUME NEW p \in Page, NEW write \in BOOLEAN, NEW c \in Cell, NEW v \in Value,
               pc[t] = "kernel", UserAccess(t, p, write, c, v)
        PROVE  Inv'
    BY <2>1, <2>6, UserAccessKeeps
  <2>7. CASE pc[t] = "kernel" /\ Remaps(t)
    BY <2>1, <2>7, RemapsKeeps
  <2>8. ASSUME NEW r \in Ranges, NEW prot \in Prots, pc[t] = "kernel",
               Mprotect(t, r[1], r[2], prot)
        PROVE  Inv'
    BY <2>1, <2>8, MprotectKeeps
  <2>9. ASSUME NEW n \in Space, pc[t] = "kernel", Exec(t, n)
        PROVE  Inv'
    BY <2>1, <2>9, ExecKeeps
  <2>10. ASSUME NEW n \in Space, NEW u \in Thread, pc[t] = "kernel", Fork(t, u, n)
         PROVE  Inv'
    BY <2>1, <2>10, ForkKeeps
  <2>11. ASSUME NEW u \in Thread, pc[t] = "kernel", CloneVm(t, u)
         PROVE  Inv'
    BY <2>1, <2>11, CloneVmKeeps
  <2>12. CASE pc[t] = "kernel" /\ Exit(t)
    BY <2>1, <2>12, ExitKeeps
  <2> QED
    BY <2>1, <2>2, <2>3, <2>4, <2>5, <2>6, <2>7, <2>8, <2>9, <2>10, <2>11, <2>12, Zenon DEF Step
<1>2. CASE UNCHANGED vars
  <2>1. /\ pc' = pc /\ mem' = mem /\ tlb' = tlb /\ seen' = seen /\ suspect' = suspect
        /\ refs' = refs /\ changes' = changes /\ brk' = brk /\ pt' = pt
        /\ dataRefs' = dataRefs /\ contents' = contents
        /\ ops' = ops /\ tasks' = tasks /\ stores' = stores /\ wild' = wild
    BY <1>2 DEF vars, threads, spaces, datas
  <2>2. DataTypes' /\ DataCounted' /\ CowKept'
    BY <2>1, TablesIdle
  <2>3. InvParts
    BY Parts
  <2>4. /\ ThreadTypes' /\ CountTypes' /\ ThreadsCounted' /\ EmptyWhenLeft'
        /\ UnusedAreClean' /\ TlbIndexed'
    BY <2>1, <2>3 DEF InvParts, ThreadTypes, CountTypes, ThreadsCounted, EmptyWhenLeft,
         UnusedAreClean, TlbIndexed
  <2>5. \A u \in Thread : FlushAt(u)'
    BY <2>1, <2>3 DEF InvParts, FlushAt, Current, Has
  <2> QED
    BY <2>2, <2>4, <2>5, Parts DEF InvParts
<1> QED
  BY <1>1, <1>2

\* The inductive invariant: types, counts, TLBs (each fresh, or behind a counter that
\* will flush it on the way back to the guest) and copy-on-write of shared pages.
THEOREM Invariance == Spec => []Inv
<1>1. Init => Inv
  BY InitInv
<1>2. Inv /\ [Next]_vars => Inv'
  BY NextInv
<1> QED
  BY <1>1, <1>2, PTL DEF Spec

\* Every state is made of spaces, pages, entries and counters.
THEOREM TypeCorrect == Spec => []TypeOK
<1>1. Inv => TypeOK
  BY DEF Inv
<1> QED
  BY <1>1, Invariance, PTL

\* Data lives as long as a page shows it, and a space as long as a thread runs in
\* it, whatever the order of maps, faults, forks and exits.
THEOREM CountsAreExact == Spec => []CountsExact
<1>1. Inv => CountsExact
  BY DEF Inv
<1> QED
  BY <1>1, Invariance, PTL

\* What a thread in the guest has cached is what the page table says, unless the
\* table changed without the lock (the cases `suspect` marks).
THEOREM TlbsAreFresh == Spec => []TlbFresh
<1>1. Inv => TlbFresh
  <2> SUFFICES ASSUME Inv, NEW t \in Thread, pc[t] = "guest", ~suspect[t],
                      NEW i \in DOMAIN tlb[t], tlb[t][i] # None
               PROVE  Current(t, tlb[t][i])
    BY DEF TlbFresh
  <2>1. ThreadTypes /\ FlushAt(t)
    BY Parts DEF InvParts
  <2>2. i \in 0 .. TlbSize - 1
    BY <2>1 DEF ThreadTypes
  <2> QED
    BY <2>1, <2>2 DEF FlushAt
<1> QED
  BY <1>1, Invariance, PTL

(***************************************************************************)
(* The refinement of PrivateMemory                                         *)
(***************************************************************************)
LEMMA ViewFacts ==
  /\ \A m \in Space : View[m] \in [Page -> {View[m][p] : p \in Page}]
  /\ \A m \in Space, p \in Page : View[m][p] = Show(m, p)
  /\ View \in [Space -> {View[m] : m \in Space}]
<1>1. /\ View = [m \in Space |-> View[m]]
      /\ \A m \in Space : View[m] = [p \in Page |-> View[m][p]]
      /\ \A m \in Space, p \in Page : View[m][p] = Show(m, p)
  BY DEF View, Show
<1> HIDE DEF View
<1> QED
  BY <1>1

\* The view after a step, page by page.
LEMMA ViewFactsNext ==
  /\ \A m \in Space : View'[m] \in [Page -> {View'[m][p] : p \in Page}]
  /\ \A m \in Space, p \in Page : View'[m][p] = Show(m, p)'
  /\ View' \in [Space -> {View'[m] : m \in Space}]
<1>1. /\ View' = [m \in Space |-> View'[m]]
      /\ \A m \in Space : View'[m] = [p \in Page |-> View'[m][p]]
      /\ \A m \in Space, p \in Page : View'[m][p] = Show(m, p)'
  BY DEF View, Show
<1> HIDE DEF View
<1> QED
  BY <1>1

\* Two views, page by page.
LEMMA Pagewise ==
  ASSUME NEW f, NEW g, f \in [Space -> {f[m] : m \in Space}], g \in [Space -> {g[m] : m \in Space}],
         \A m \in Space : f[m] \in [Page -> {f[m][p] : p \in Page}],
         \A m \in Space : g[m] \in [Page -> {g[m][p] : p \in Page}],
         \A m \in Space, p \in Page : f[m][p] = g[m][p]
  PROVE  f = g
<1>1. \A m \in Space : f[m] = g[m]
  OBVIOUS
<1> QED
  BY <1>1

\* Pages that show what they showed leave the view as it was.
LEMMA SameView ==
  ASSUME \A n \in Space, q \in Page : Show(n, q)' = Show(n, q)
  PROVE  View' = View
  BY ViewFacts, ViewFactsNext, Pagewise

\* What a page shows.
LEMMA ShowTypes ==
  ASSUME DataTypes, NEW m \in Space, NEW p \in Page
  PROVE  /\ Show(m, p) \in Content \cup {None}
         /\ Show(m, p) # None <=> Has(m, p)
         /\ Has(m, p) => Show(m, p) = Shown(m, p)
<1>1. CASE pt[m][p] = None
  BY <1>1 DEF Show, Has
<1>2. CASE pt[m][p] # None
  <2>1. pt[m][p] \in PageEntry
    BY <1>2 DEF DataTypes
  <2>2. contents[pt[m][p].data][pt[m][p].off] \in Content
    BY <2>1 DEF DataTypes, PageEntry
  <2>3. contents[pt[m][p].data][pt[m][p].off] # None
    BY <2>2, NoneIsNothing
  <2> QED
    BY <1>2, <2>2, <2>3 DEF Show, Has, Shown
<1> QED
  BY <1>1, <1>2

\* The view is a state of PrivateMemory.
LEMMA ViewTypes ==
  ASSUME DataTypes
  PROVE  View \in [Space -> [Page -> Content \cup {None}]]
<1>1. \A m \in Space, p \in Page : View[m][p] \in Content \cup {None}
  BY ViewFacts, ShowTypes
<1>2. \A m \in Space : View[m] \in [Page -> Content \cup {None}]
  BY <1>1, ViewFacts
<1> QED
  BY <1>2, ViewFacts

\* The view after a step, too.
LEMMA ViewTypesNext ==
  ASSUME DataTypes'
  PROVE  View' \in [Space -> [Page -> Content \cup {None}]]
<1>1. \A m \in Space, p \in Page : View'[m][p] \in Content \cup {None}
  <2> SUFFICES ASSUME NEW m \in Space, NEW p \in Page
               PROVE  Show(m, p)' \in Content \cup {None}
    BY ViewFactsNext
  <2>1. CASE pt'[m][p] = None
    BY <2>1 DEF Show
  <2>2. CASE pt'[m][p] # None
    <3>1. pt'[m][p] \in PageEntry
      BY <2>2 DEF DataTypes
    <3> QED
      BY <2>2, <3>1 DEF DataTypes, PageEntry, Show
  <2> QED
    BY <2>1, <2>2
<1>2. \A m \in Space : View'[m] \in [Page -> Content \cup {None}]
  BY <1>1, ViewFactsNext
<1> QED
  BY <1>2, ViewFactsNext

\* The two modules mean the same by contents.
LEMMA SameContents ==
  Private!Content = Content /\ Private!ZeroPage = ZeroPage /\ Private!Blank = NoPages
  BY DEF Private!Content, Content, Private!ZeroPage, ZeroPage, Private!Blank, NoPages

\* A load or a store is one of the abstract memory.
LEMMA AccessRefines ==
  ASSUME Inv, NEW t \in Thread, NEW p \in Page, NEW write \in BOOLEAN, NEW c \in Cell,
         NEW v \in Value, Accessed(t, p, write, c, v), mem' = mem
  PROVE  Private!Next
<1>1. PICK m \in Space :
        /\ mem[t] = m /\ Repaints(m, {p})
        /\ Show(m, p)' = Written(Shown(m, p), write, c, v)
        /\ Has(m, p) \/ \E q \in Page : q > p /\ Has(m, q)
  BY DEF Accessed
<1>2. DataTypes
  BY Parts DEF InvParts
<1>3. \A q \in Page : View[m][q] # None <=> Has(m, q)
  BY <1>2, ViewFacts, ShowTypes
<1>4. Private!Reachable(m, p)
  BY <1>1, <1>3 DEF Private!Reachable, Private!Mapped
<1>5. Private!Shown(m, p) = Shown(m, p)
  <2>1. Has(m, p) => View[m][p] = Shown(m, p)
    BY <1>2, ViewFacts, ShowTypes
  <2>2. ~Has(m, p) => Shown(m, p) = ZeroPage
    BY DEF Shown
  <2> QED
    BY <1>3, <2>1, <2>2, SameContents DEF Private!Shown, Private!Mapped
<1> DEFINE w == Written(Shown(m, p), write, c, v)
<1>6. View' = [View EXCEPT ![m][p] = w]
  <2> DEFINE g == [View EXCEPT ![m][p] = w]
  <2>1. /\ View'[m][p] = w
        /\ \A n \in Space, q \in Page : ~(n = m /\ q = p) => View'[n][q] = View[n][q]
    <3>1. \A n \in Space, q \in Page : ~(n = m /\ q = p) => Show(n, q)' = Show(n, q)
      BY <1>1 DEF Repaints
    <3> QED
      BY <1>1, <3>1, ViewFacts, ViewFactsNext
  <2> HIDE DEF w
  <2>2. /\ \A n \in Space \ {m} : g[n] = View[n]
        /\ g[m] = [View[m] EXCEPT ![p] = w]
        /\ g = [n \in Space |-> g[n]]
    BY ViewFacts
  <2>3. /\ \A n \in Space : g[n] = [q \in Page |-> g[n][q]]
        /\ g[m][p] = w /\ \A q \in Page \ {p} : g[m][q] = View[m][q]
    BY <2>2, ViewFacts
  <2> HIDE DEF g
  <2>4. \A n \in Space, q \in Page : View'[n][q] = g[n][q]
    BY <2>1, <2>2, <2>3
  <2>5. View' = g
    BY <2>2, <2>3, <2>4, ViewFactsNext, Pagewise
  <2> QED
    BY <2>5 DEF g
<1>7. mem[t] # None
  BY <1>1, NoneIsNothing
<1>8. CASE write = FALSE
  <2>1. w = Private!Shown(m, p)
    BY <1>5, <1>8 DEF Written
  <2>2. Private!Load(t, p)
    BY <1>1, <1>4, <1>6, <2>1 DEF Private!Load
  <2> QED
    BY <1>7, <2>2 DEF Private!Next
<1>9. CASE write = TRUE
  <2>1. w = [Private!Shown(m, p) EXCEPT ![c] = v]
    BY <1>5, <1>9 DEF Written
  <2>2. Private!Store(t, p, c, v)
    BY <1>1, <1>4, <1>6, <2>1 DEF Private!Store
  <2> QED
    BY <1>7, <2>2 DEF Private!Next
<1> QED
  BY <1>8, <1>9

\* Mapping and unmapping change the pages of one space.
LEMMA RemapsRefines ==
  ASSUME Inv, NEW t \in Thread, Remaps(t)
  PROVE  Private!Next
<1>1. PICK m \in Space, S \in SUBSET Page :
        /\ mem[t] = m /\ Repaints(m, S)
        /\ \A p \in S : Show(m, p)' \in {None, ZeroPage}
  BY DEF Remaps
<1>2. mem' = mem
  BY DEF Remaps, GoesOn
<1>3. View' \in [Space -> [Page -> Content \cup {None}]]
  BY <1>1, ViewTypesNext DEF Repaints
<1>4. \A n \in Space, p \in Page :
        \/ View'[n][p] = View[n][p]
        \/ n = m /\ View'[n][p] \in {None, ZeroPage}
  <2>1. \A n \in Space, p \in Page : ~(n = m /\ p \in S) => Show(n, p)' = Show(n, p)
    BY <1>1 DEF Repaints
  <2> QED
    BY <1>1, <2>1, ViewFacts, ViewFactsNext
<1>5. Private!Remap(t)
  BY <1>1, <1>2, <1>3, <1>4, SameContents DEF Private!Remap
<1>6. mem[t] # None
  BY <1>1, NoneIsNothing
<1> QED
  BY <1>5, <1>6 DEF Private!Next

\* The count of a space tells whether others are in it.
LEMMA OthersKnown ==
  ASSUME Inv, NEW t \in Thread, NEW m \in Space
  PROVE  /\ mem[t] = m => (refs[m] = 1 <=> ~Private!OthersIn(t, m))
         /\ refs[m] = 0 => ~Private!OthersIn(t, m)
<1>1. ThreadsCounted
  BY Parts DEF InvParts
<1>2. refs[m] = 0 => ~Private!OthersIn(t, m)
  BY <1>1, WhoIsIn DEF Private!OthersIn
<1>3. ASSUME mem[t] = m, refs[m] = 1
      PROVE  ~Private!OthersIn(t, m)
  BY <1>1, <1>3, WhoIsIn DEF Private!OthersIn
<1>4. ASSUME mem[t] = m, ~Private!OthersIn(t, m)
      PROVE  refs[m] = 1
  <2>1. Who(mem, m) = {t}
    BY <1>4 DEF Private!OthersIn, Who
  <2> QED
    BY <1>1, <2>1, FS_Singleton DEF ThreadsCounted
<1> QED
  BY <1>2, <1>3, <1>4

\* exit empties the space that the last thread leaves.
LEMMA ExitRefines ==
  ASSUME Inv, NEW t \in Thread, pc[t] = "kernel", Exit(t)
  PROVE  Private!Next
<1>1. PICK m \in Space, S \in SUBSET Page : Leaves(t, m, S)
  BY ExitFacts
<1>2. /\ m = mem[t] /\ S = IF refs[m] = 1 THEN Page ELSE {}
      /\ \A p \in S : Show(m, p)' = None
      /\ \A n \in Space, q \in Page : ~(n = m /\ q \in S) => Show(n, q)' = Show(n, q)
  BY <1>1 DEF Leaves
<1>3. mem' = [mem EXCEPT ![t] = None]
  BY DEF Exit
<1>4. View' = Private!Left(t)
  <2>1. CASE Private!OthersIn(t, m)
    <3>1. S = {}
      BY <1>2, <2>1, OthersKnown
    <3>2. View' = View
      BY <1>2, <3>1, SameView
    <3> QED
      BY <1>2, <2>1, <3>2 DEF Private!Left
  <2>2. CASE ~Private!OthersIn(t, m)
    <3> DEFINE g == [View EXCEPT ![m] = NoPages]
    <3>1. S = Page
      BY <1>2, <2>2, OthersKnown
    <3>2. /\ \A n \in Space \ {m} : g[n] = View[n]
          /\ g[m] = NoPages /\ g = [n \in Space |-> g[n]]
      BY ViewFacts
    <3>3. \A n \in Space : g[n] = [q \in Page |-> g[n][q]]
      BY <3>2, ViewFacts DEF NoPages
    <3> HIDE DEF g
    <3>4. ASSUME NEW n \in Space, NEW q \in Page
          PROVE  View'[n][q] = g[n][q]
      <4>1. View'[n][q] = Show(n, q)' /\ View[n][q] = Show(n, q)
        BY ViewFacts, ViewFactsNext
      <4>2. CASE n = m
        <5>1. Show(m, q)' = None
          BY <1>2, <3>1
        <5> QED
          BY <3>2, <4>1, <4>2, <5>1 DEF NoPages
      <4>3. CASE n # m
        <5>1. Show(n, q)' = Show(n, q)
          BY <1>2, <4>3
        <5> QED
          BY <3>2, <4>1, <4>3, <5>1
      <4> QED
        BY <4>2, <4>3
    <3>5. View' = g
      BY <3>2, <3>3, <3>4, ViewFactsNext, Pagewise
    <3> QED
      BY <1>2, <2>2, <3>5, SameContents DEF Private!Left, g
  <2> QED
    BY <2>1, <2>2
<1>5. mem[t] # None
  BY <1>2, NoneIsNothing
<1>6. Private!Exit(t)
  BY <1>3, <1>4 DEF Private!Exit
<1> QED
  BY <1>5, <1>6 DEF Private!Next

\* CLONE_VM gives the new thread the same space.
LEMMA CloneVmRefines ==
  ASSUME Inv, NEW t \in Thread, pc[t] = "kernel", NEW u \in Thread, CloneVm(t, u)
  PROVE  Private!Next
<1>1. /\ pc[u] = "unused" /\ mem' = [mem EXCEPT ![u] = mem[t]]
      /\ pt' = pt /\ contents' = contents
  BY DEF CloneVm, StartThread, datas
<1>2. mem[u] = None /\ mem[t] # None
  BY <1>1, Parts DEF InvParts, ThreadTypes
<1>3. View' = View
  BY <1>1 DEF View
<1>4. Private!CloneThread(t, u)
  BY <1>1, <1>2, <1>3 DEF Private!CloneThread
<1> QED
  BY <1>2, <1>4 DEF Private!Next

\* fork gives the new thread a copy.
LEMMA ForkRefines ==
  ASSUME Inv, NEW t \in Thread, pc[t] = "kernel", NEW u \in Thread, NEW n \in Space, Fork(t, u, n)
  PROVE  Private!Next
<1>0. PICK m \in Space : m = mem[t]
  BY SpaceOf
<1>1. /\ refs[n] = 0 /\ CopyOnWrite(t, n) /\ contents' = contents
      /\ pc[u] = "unused" /\ mem' = [mem EXCEPT ![u] = n]
  BY DEF Fork, StartThread
<1>2. mem[u] = None
  BY <1>1, Parts DEF InvParts, ThreadTypes
<1>3. Forks(m, n)
  BY <1>0, <1>1, CopyOnWriteForks
<1>4. /\ \A k \in Space \ {m, n}, q \in Page : Show(k, q)' = Show(k, q)
      /\ \A k \in {m, n}, q \in Page : Show(k, q)' = Show(m, q)
  <2>1. contents' = contents /\ \A k \in Space \ {m, n} : pt'[k] = pt[k]
    BY <1>3 DEF Forks
  <2>2. \A k \in {m, n}, q \in Page : Alike(pt'[k][q], pt[m][q])
    BY <1>3 DEF Forks
  <2>3. ASSUME NEW k \in {m, n}, NEW q \in Page
        PROVE  Show(k, q)' = Show(m, q)
    BY <2>1, <2>2 DEF Show, Alike
  <2> QED
    BY <2>1, <2>3 DEF Show
<1> DEFINE g == [View EXCEPT ![n] = View[m]]
<1>5. View' = g
  <2>1. /\ \A k \in Space \ {n} : g[k] = View[k]
        /\ g[n] = View[m] /\ g = [k \in Space |-> g[k]]
    BY ViewFacts
  <2>2. \A k \in Space : g[k] = [q \in Page |-> g[k][q]]
    BY <2>1, ViewFacts
  <2> HIDE DEF g
  <2>3. ASSUME NEW k \in Space, NEW q \in Page
        PROVE  View'[k][q] = g[k][q]
    <3>1. /\ View'[k][q] = Show(k, q)' /\ View[k][q] = Show(k, q)
          /\ View[m][q] = Show(m, q)
      BY ViewFacts, ViewFactsNext
    <3>2. CASE k \in {m, n}
      <4>1. Show(k, q)' = Show(m, q)
        BY <1>4, <3>2
      <4> QED
        BY <2>1, <3>1, <3>2, <4>1
    <3>3. CASE k \notin {m, n}
      <4>1. Show(k, q)' = Show(k, q)
        BY <1>4, <3>3
      <4> QED
        BY <2>1, <3>1, <3>3, <4>1
    <3> QED
      BY <3>2, <3>3
  <2> QED
    BY <2>1, <2>2, <2>3, ViewFactsNext, Pagewise
<1>6. m # n /\ m # None
  BY <1>3, NoneIsNothing DEF Forks
<1>7. ~Private!OthersIn(t, n)
  BY <1>1, OthersKnown
<1>8. Private!Fork(t, u, n)
  BY <1>0, <1>1, <1>2, <1>5, <1>6, <1>7 DEF Private!Fork
<1> QED
  BY <1>0, <1>6, <1>8 DEF Private!Next

\* exec gives the thread a new space.
LEMMA ExecRefines ==
  ASSUME Inv, NEW t \in Thread, pc[t] = "kernel", NEW n \in Space, Exec(t, n)
  PROVE  Private!Next
<1>0. PICK m \in Space, a \in Data, b \in Data : Execs(t, m, n, a, b)
  BY ExecFacts
<1>1. /\ m = mem[t] /\ (refs[n] = 0 \/ (n = m /\ refs[m] = 1))
      /\ a \in Data /\ b \in Data /\ a # b
      /\ pt'[n] = Image(a, b)
      /\ Show(n, 0)' = FromFile[0] /\ Show(n, StackPage)' = Zeroes[0]
      /\ refs[m] = 1 /\ m # n => pt'[m] = NoPages
      /\ \A k \in Space \ {n} : ~(k = m /\ refs[m] = 1) =>
           \A q \in Page : Show(k, q)' = Show(k, q)
  BY <1>0 DEF Execs
<1>2. mem' = [mem EXCEPT ![t] = n]
  BY DEF Exec
<1>3. ~Private!OthersIn(t, n)
  BY <1>1, OthersKnown
<1>4. \A p \in Page : View'[n][p] \in {None, Private!ZeroPage, Private!LoadedPage}
  <2>1. 0 \in Page /\ FromFile[0] = Private!LoadedPage /\ Zeroes[0] = Private!ZeroPage
    <3>1. 0 \in Page
      BY MemoryAssumption DEF Page
    <3> QED
      BY <3>1, SameContents DEF FromFile, Zeroes, Private!LoadedPage
  <2>2. \A p \in Page : pt'[n][p] # None => p \in {0, StackPage}
    BY <1>1, ImageFacts
  <2>3. \A p \in Page : pt'[n][p] = None => Show(n, p)' = None
    BY DEF Show
  <2> QED
    BY <1>1, <2>1, <2>2, <2>3, ViewFactsNext
<1>5. Private!Left(t) = IF refs[m] = 1 THEN [View EXCEPT ![m] = NoPages] ELSE View
  BY <1>1, OthersKnown, SameContents DEF Private!Left
<1> DEFINE left == Private!Left(t)
           g == [left EXCEPT ![n] = View'[n]]
<1>6. /\ \A k \in Space \ {m} : left[k] = View[k]
      /\ left[m] = IF refs[m] = 1 THEN NoPages ELSE View[m]
      /\ left = [k \in Space |-> left[k]]
      /\ \A k \in Space : left[k] = [q \in Page |-> left[k][q]]
  <2> DEFINE x == IF refs[m] = 1 THEN NoPages ELSE View[m]
  <2>1. left = [View EXCEPT ![m] = x]
    BY <1>5, ViewFacts
  <2>2. x = [q \in Page |-> x[q]]
    BY ViewFacts DEF NoPages
  <2> HIDE DEF left, x
  <2>3. left[m] = x /\ left = [k \in Space |-> left[k]] /\ \A k \in Space \ {m} : left[k] = View[k]
    BY <2>1, ViewFacts
  <2> QED
    BY <2>2, <2>3, ViewFacts DEF x
<1> HIDE DEF left
<1>7. View' = g
  <2>1. /\ \A k \in Space \ {n} : g[k] = left[k]
        /\ g[n] = View'[n] /\ g = [k \in Space |-> g[k]]
    BY <1>6
  <2>2. \A k \in Space : g[k] = [q \in Page |-> g[k][q]]
    BY <1>6, <2>1, ViewFactsNext
  <2> HIDE DEF g
  <2>3. ASSUME NEW k \in Space, NEW q \in Page
        PROVE  View'[k][q] = g[k][q]
    <3>1. CASE k = n
      BY <2>1, <3>1
    <3>2. CASE k # n /\ k = m /\ refs[m] = 1
      <4>1. pt'[k][q] = None
        BY <1>1, <3>2 DEF NoPages
      <4>2. Show(k, q)' = None
        BY <4>1 DEF Show
      <4> QED
        BY <1>6, <2>1, <3>2, <4>2, ViewFactsNext DEF NoPages
    <3>3. CASE k # n /\ ~(k = m /\ refs[m] = 1)
      <4>1. View'[k][q] = Show(k, q)' /\ View[k][q] = Show(k, q)
        BY ViewFacts, ViewFactsNext
      <4>2. Show(k, q)' = Show(k, q)
        BY <1>1, <3>3
      <4>3. left[k] = View[k]
        BY <1>6, <3>3
      <4> QED
        BY <2>1, <3>3, <4>1, <4>2, <4>3
    <3> QED
      BY <3>1, <3>2, <3>3
  <2> QED
    BY <2>1, <2>2, <2>3, ViewFactsNext, Pagewise
<1>8. mem[t] # None
  BY <1>1, NoneIsNothing
<1>9. Private!Exec(t, n)
  BY <1>2, <1>3, <1>4, <1>7 DEF Private!Exec, left
<1> QED
  BY <1>8, <1>9 DEF Private!Next

\* Initial states map to initial states.
LEMMA InitRefines == Inv /\ Init => Private!Init
<1> SUFFICES ASSUME Inv, Init
             PROVE  Private!Init
  OBVIOUS
<1> DEFINE a == CHOOSE d \in Data : TRUE
           b == CHOOSE d \in Data : d # a
<1>1. a \in Data /\ b \in Data /\ a # b
  <2>1. a \in Data
    BY MemoryAssumption
  <2>2. \E d \in Data : d # a
    BY <2>1, MemoryAssumption
  <2> HIDE DEF a
  <2> QED
    BY <2>1, <2>2
<1>2. /\ mem = [t \in Thread |-> IF t = Root THEN First ELSE None]
      /\ pt = [m \in Space |-> IF m = First THEN Image(a, b) ELSE NoPages]
      /\ contents = [d \in Data |-> IF d = a THEN FromFile ELSE Zeroes]
  BY DEF Init
<1> HIDE DEF a, b
<1>3. DataTypes /\ ThreadTypes
  BY Parts DEF InvParts
<1>4. Private!TypeOK
  BY <1>3, ViewTypes, SameContents DEF Private!TypeOK, ThreadTypes
<1>5. \A m \in Space \ {First}, p \in Page : View[m][p] = None
  BY <1>2, ViewFacts DEF Show, NoPages
<1>6. \A p \in Page : View[First][p] \in {None, Private!ZeroPage, Private!LoadedPage}
  <2>1. First \in Space /\ pt[First] = Image(a, b)
    BY <1>2, MemoryAssumption
  <2>2. contents[a] = FromFile /\ contents[b] = Zeroes
    BY <1>1, <1>2
  <2>3. \A p \in Page : pt[First][p] # None => p \in {0, StackPage}
    BY <1>1, <2>1, ImageFacts
  <2>4. Show(First, 0) \in {None, FromFile[0]} /\ Show(First, StackPage) \in {None, Zeroes[0]}
    BY <1>1, <2>1, <2>2, ImageFacts DEF Show
  <2>5. 0 \in Page /\ FromFile[0] = Private!LoadedPage /\ Zeroes[0] = Private!ZeroPage
    <3>1. 0 \in Page
      BY MemoryAssumption DEF Page
    <3> QED
      BY <3>1, SameContents DEF FromFile, Zeroes, Private!LoadedPage
  <2>6. \A p \in Page : pt[First][p] = None => Show(First, p) = None
    BY DEF Show
  <2> QED
    BY <2>1, <2>3, <2>4, <2>5, <2>6, ViewFacts
<1>7. \A m \in Space : View[m] # Private!Blank => \E t \in Thread : mem[t] = m
  <2>1. \A m \in Space \ {First} : View[m] = NoPages
    BY <1>5, ViewFacts DEF NoPages
  <2>2. Root \in Thread /\ mem[Root] = First
    BY <1>2, MemoryAssumption
  <2> QED
    BY <2>1, <2>2, SameContents
<1>8. \A m \in Space, p \in Page : View[m][p] \in {None, Private!ZeroPage, Private!LoadedPage}
  BY <1>5, <1>6
<1> QED
  BY <1>4, <1>7, <1>8 DEF Private!Init

\* Every step maps to a step or a stutter.
LEMMA StepRefines == Inv /\ [Next]_vars => [Private!Next]_(Private!vars)
<1> SUFFICES ASSUME Inv, [Next]_vars
             PROVE  Private!Next \/ (View' = View /\ mem' = mem)
  BY DEF Private!vars
<1>1. CASE Next
  <2>1. PICK t \in Thread : wild = None /\ Step(t)
    BY <1>1, NextSteps
  <2>2. ASSUME NEW why \in {"stale", "mprotect", "mremap"}, GoWild(why)
        PROVE  View' = View /\ mem' = mem
    BY <2>2 DEF GoWild, View, threads, spaces, datas
  <2>3. ASSUME Interrupt(t) \/ Resume(t)
        PROVE  View' = View /\ mem' = mem
    BY <2>3 DEF Interrupt, Resume, View, spaces, datas
  <2>4. ASSUME NEW p \in Page, NEW write \in BOOLEAN, NEW c \in Cell, NEW v \in Value,
               pc[t] = "guest", Access(t, p, write, c, v),
               Hit(t, p, write) => Current(t, tlb[t][TlbIndex(p)])
        PROVE  Private!Next
    <3>1. Accessed(t, p, write, c, v)
      BY <2>1, <2>4, HitKeeps, MissKeeps
    <3>2. mem' = mem
      BY <2>4 DEF Access
    <3> QED
      BY <3>1, <3>2, AccessRefines
  <2>5. ASSUME NEW p \in Page, NEW write \in BOOLEAN, NEW c \in Cell, NEW v \in Value,
               pc[t] = "kernel", UserAccess(t, p, write, c, v)
        PROVE  Private!Next
    <3>1. Accessed(t, p, write, c, v)
      BY <2>1, <2>5, UserAccessKeeps
    <3>2. mem' = mem
      BY <2>5 DEF UserAccess
    <3> QED
      BY <3>1, <3>2, AccessRefines
  <2>6. CASE pc[t] = "kernel" /\ Remaps(t)
    BY <2>6, RemapsRefines
  <2>7. ASSUME NEW r \in Ranges, NEW prot \in Prots, pc[t] = "kernel",
               Mprotect(t, r[1], r[2], prot)
        PROVE  View' = View /\ mem' = mem
    <3>1. SameLeads /\ contents' = contents /\ GoesOn(t)
      BY <2>7, MprotectFacts
    <3>2. \A n \in Space, q \in Page : Show(n, q)' = Show(n, q)
      BY <3>1, SameShows
    <3> QED
      BY <3>1, <3>2, SameView DEF GoesOn
  <2>8. ASSUME NEW n \in Space, pc[t] = "kernel", Exec(t, n)
        PROVE  Private!Next
    BY <2>8, ExecRefines
  <2>9. ASSUME NEW n \in Space, NEW u \in Thread, pc[t] = "kernel", Fork(t, u, n)
        PROVE  Private!Next
    BY <2>9, ForkRefines
  <2>10. ASSUME NEW u \in Thread, pc[t] = "kernel", CloneVm(t, u)
         PROVE  Private!Next
    BY <2>10, CloneVmRefines
  <2>11. CASE pc[t] = "kernel" /\ Exit(t)
    BY <2>11, ExitRefines
  <2> QED
    BY <2>1, <2>2, <2>3, <2>4, <2>5, <2>6, <2>7, <2>8, <2>9, <2>10, <2>11, Zenon DEF Step
<1>2. CASE UNCHANGED vars
  BY <1>2 DEF vars, threads, spaces, datas, View
<1> QED
  BY <1>1, <1>2

\* Sharing, copy-on-write, reference counts and cached translations together give
\* every process memory of its own: this holds as long as the program runs, up to
\* the steps that the model ends at (`wild`).
THEOREM MemoryIsPrivate == Spec => IsPrivate
<1>1. Init => Inv /\ Private!Init
  BY InitInv, InitRefines
<1>2. Inv /\ [Next]_vars => [Private!Next]_(Private!vars)
  BY StepRefines
<1>3. Spec => []Inv
  BY Invariance
<1> QED
  BY <1>1, <1>2, <1>3, PTL DEF Spec, IsPrivate, Private!Spec
=============================================================================
