------------------------------- MODULE Memory -------------------------------
(***************************************************************************)
(* Guest memory: address spaces with page tables over reference-counted    *)
(* data (emu/memory.c), the calls that change them (kernel/mmap.c, and the *)
(* parts of fork, exec and exit), the accesses of the kernel               *)
(* (kernel/user.c), and the TLB every thread keeps in cpu_run (emu/tlb.c,  *)
(* emu/interp.c).                                                          *)
(*                                                                         *)
(* A thread in the guest holds the space's lock for reading; what needs it *)
(* for writing is one action that waits for it.  mremap and the kernel's   *)
(* own accesses take no lock.  A data object is named by a number that     *)
(* malloc may hand out again once it is freed.                             *)
(***************************************************************************)
EXTENDS Naturals, FiniteSets

CONSTANTS
  Thread, Root,   \* tasks; the first process
  Space, First,   \* struct mem; the first process'
  Data,           \* struct data: bound on those alive at once
  N,              \* MEM_PAGES
  MmapLow,        \* the hole search stays above this page
  Cell, Value,
  Zero, Loaded,   \* a cell of a new page, and of a page from the executable
  TlbSize,
  Ranges,         \* the <<first page, number of pages>> that calls are given
  MapFlags,       \* the flags mmap may be asked for, P_ANON included
  Breaks,         \* the ends brk is given
  Touched,        \* the pages that are read and written
  Stored,         \* the <<cell, value>> pairs that are stored
  Bounds,         \* bound: how many calls map and unmap, how many fork, clone,
                  \* exec and exit, and how many stores there are, together
  None

Page == 0 .. N - 1
StackPage == N - 1

ASSUME MemoryAssumption ==
  /\ Root \in Thread /\ First \in Space
  /\ N \in Nat /\ N >= 2 /\ MmapLow \in Nat
  /\ TlbSize \in Nat \ {0}
  /\ Ranges \subseteq {r \in Page \X (1 .. N) : r[1] + r[2] <= N}
  /\ MapFlags \subseteq SUBSET {"w", "anon"}
  /\ Breaks \subseteq 2 .. 2 * N
  /\ Touched \subseteq Page /\ Stored \subseteq Cell \X Value
  /\ Bounds \subseteq Nat \X Nat \X Nat
  /\ IsFiniteSet(Data) /\ IsFiniteSet(Space) /\ IsFiniteSet(Thread)
  /\ Data # {} /\ \A d \in Data : Data # {d}   \* the image takes two
  /\ Zero \in Value /\ Loaded \in Value

Flag == {"w", "cow", "grow", "anon"}
PageEntry == [data : Data, off : Page, flags : SUBSET Flag]
TlbEntry  == [page : Page, data : Data, off : Page, writable : BOOLEAN]
Content   == [Cell -> Value]

ASSUME NoneIsNothing ==
  /\ None \notin Space \cup Thread /\ None \notin Data
  /\ None \notin {"stale", "mprotect", "mremap"}
  /\ None \notin PageEntry /\ None \notin TlbEntry /\ None \notin Content

VARIABLES
  pc,       \* "guest", "kernel" or "ret" (on the way back), "unused"
  mem,      \* task->mem and cpu->mem
  tlb,      \* the entries of each thread's TLB
  seen,     \* the `changes` of cpu_run
  suspect,  \* the TLB may have missed a change
  refs, changes, brk, \* of each space; brk counts half pages
  pt,       \* its page table
  dataRefs, contents, \* of each data object
  ops, tasks, stores, wild

threads == <<pc, mem, tlb, seen, suspect>>
spaces  == <<refs, changes, brk, pt>>
datas   == <<dataRefs, contents>>
vars    == <<threads, spaces, datas, ops, tasks, stores, wild>>

-----------------------------------------------------------------------------
(* Page tables *)

ZeroPage == [c \in Cell |-> Zero]
Zeroes   == [o \in Page |-> ZeroPage]
FromFile == [Zeroes EXCEPT ![0] = [c \in Cell |-> Loaded]]
NoPages  == [p \in Page |-> None]
NoTlb    == [i \in 0 .. TlbSize - 1 |-> None]

Has(m, p) == pt[m][p] # None
Leads(e, d) == e # None /\ e.data = d
Uses(table, S, d) == Cardinality({p \in S : Leads(table[p], d)})
Entry(d, o, f) == [data |-> d, off |-> o, flags |-> f]
Writable(e) == "w" \in e.flags /\ "cow" \notin e.flags

\* The counts after S is unmapped from a page table.
Dropped(table, S) == [d \in Data |-> dataRefs[d] - Uses(table, S, d)]

\* The object malloc returns when `counts` are in use.
NewData(counts) == CHOOSE d \in Data : counts[d] = 0
Room(counts)    == \E d \in Data : counts[d] = 0

\* munmap and free of every object whose count is zero; bytes are what is new.
Keep(counts, d, bytes) ==
  contents' = [e \in Data |-> IF e = d THEN bytes
                              ELSE IF counts[e] = 0 THEN Zeroes ELSE contents[e]]

PtUnmap(m, S) ==
  /\ pt' = [pt EXCEPT ![m] = [p \in Page |-> IF p \in S THEN None ELSE @[p]]]
  /\ dataRefs' = Dropped(pt[m], S)
  /\ Keep(dataRefs', None, Zeroes)
  /\ changes' = [changes EXCEPT ![m] = @ + 1]

\* pt_map of a new object over the pages S that start at `first`; each page
\* that is mapped already goes through pt_unmap.
PtMap(m, S, first, flags, bytes) ==
  LET d == NewData(dataRefs)
      counts == [Dropped(pt[m], S) EXCEPT ![d] = Cardinality(S)]
  IN  /\ Room(dataRefs)
      /\ pt' = [pt EXCEPT ![m] =
                  [p \in Page |-> IF p \in S THEN Entry(d, p - first, flags) ELSE @[p]]]
      /\ dataRefs' = counts
      /\ Keep(counts, d, bytes)
      /\ changes' = [changes EXCEPT ![m] = @ + Cardinality({p \in S : Has(m, p)})]

\* Data that more than one page table entry shows.
Shared(m, p) ==
  \E n \in Space, q \in Page :
    /\ <<n, q>> # <<m, p>>
    /\ Has(n, q) /\ pt[n][q].data = pt[m][p].data /\ pt[n][q].off = pt[m][p].off

\* Nobody holds the lock of m for reading: a writer gets it.
NoGuest(m) == \A u \in Thread : ~(mem[u] = m /\ pc[u] = "guest")

\* Threads other than t that run on with what their TLBs have cached of m.
Running(t, m) == {u \in Thread \ {t} : mem[u] = m /\ pc[u] = "guest"}

-----------------------------------------------------------------------------
\* The image exec leaves: a page of data and a page of stack.
Image(a, b) == [p \in Page |-> IF p = 0 THEN Entry(a, 0, {"w"})
                               ELSE IF p = StackPage
                                    THEN Entry(b, 0, {"w", "grow", "anon"})
                               ELSE None]
StartBrk == 2

Init ==
  LET a == CHOOSE d \in Data : TRUE
      b == CHOOSE d \in Data : d # a
  IN  /\ pc = [t \in Thread |-> IF t = Root THEN "ret" ELSE "unused"]
      /\ mem = [t \in Thread |-> IF t = Root THEN First ELSE None]
      /\ tlb = [t \in Thread |-> NoTlb]
      /\ seen = [t \in Thread |-> 0]
      /\ suspect = [t \in Thread |-> FALSE]
      /\ refs = [m \in Space |-> IF m = First THEN 1 ELSE 0]
      /\ changes = [m \in Space |-> 0]
      /\ brk = [m \in Space |-> StartBrk]
      /\ pt = [m \in Space |-> IF m = First THEN Image(a, b) ELSE NoPages]
      /\ dataRefs = [d \in Data |-> IF d \in {a, b} THEN 1 ELSE 0]
      /\ contents = [d \in Data |-> IF d = a THEN FromFile ELSE Zeroes]
      /\ ops = 0 /\ tasks = 0 /\ stores = 0
      /\ wild = None

Goto(t, next) == pc' = [pc EXCEPT ![t] = next]

\* The behaviour ends where nothing can be promised any more.
GoWild(why) == wild' = why /\ UNCHANGED <<threads, spaces, datas, ops, tasks, stores>>

-----------------------------------------------------------------------------
(* mem_ptr *)

\* The nearest mapped page above p is a stack that grows down.
GrowsInto(m, p) ==
  \E q \in Page : /\ q > p /\ Has(m, q) /\ "grow" \in pt[m][q].flags
                  /\ \A r \in p + 1 .. q - 1 : ~Has(m, r)

Faults(m, p, write) ==
  IF Has(m, p) THEN write /\ "w" \notin pt[m][p].flags ELSE ~GrowsInto(m, p)

BreaksCow(m, p, write) == Has(m, p) /\ write /\ "cow" \in pt[m][p].flags

\* The page as a guest sees it, and after the access.
Shown(m, p) == IF Has(m, p) THEN contents[pt[m][p].data][pt[m][p].off] ELSE ZeroPage
Written(page, write, c, v) == IF write THEN [page EXCEPT ![c] = v] ELSE page

WithinBounds ==
  \E b \in Bounds : ops' <= b[1] /\ tasks' <= b[2] /\ stores' <= b[3]

CountStore(write) ==
  /\ stores' = stores + (IF write THEN 1 ELSE 0)
  /\ UNCHANGED <<ops, tasks>>
  /\ WithinBounds

\* mem_ptr and the access through the pointer it returns.  A break takes the
\* page from under others that may have cached it.
MemPtr(t, m, p, write, c, v) ==
  LET page == Written(Shown(m, p), write, c, v)
      e == pt[m][p]
  IN  /\ ~Faults(m, p, write)
      /\ IF Has(m, p) /\ ~BreaksCow(m, p, write)
         THEN /\ contents' = [contents EXCEPT ![e.data][e.off] = page]
              /\ UNCHANGED <<pt, dataRefs, changes>>
         ELSE PtMap(m, {p}, p,
                    IF Has(m, p) THEN e.flags \ {"cow"} ELSE {"w", "grow", "anon"},
                    [Zeroes EXCEPT ![0] = page])
      /\ suspect' = IF BreaksCow(m, p, write)
                    THEN [u \in Thread |-> suspect[u] \/ u \in Running(t, m)]
                    ELSE suspect

-----------------------------------------------------------------------------
(* The guest *)

TlbIndex(p) == p % TlbSize

Hit(t, p, write) ==
  LET e == tlb[t][TlbIndex(p)] IN e # None /\ e.page = p /\ (write => e.writable)

\* A cached entry says what the page table says.
Current(t, e) ==
  /\ Has(mem[t], e.page)
  /\ pt[mem[t]][e.page].data = e.data /\ pt[mem[t]][e.page].off = e.off
  /\ e.writable => Writable(pt[mem[t]][e.page])

\* A load or a store through the TLB.
Access(t, p, write, c, v) ==
  LET m == mem[t]
      i == TlbIndex(p)
      e == tlb[t][i]
  IN  /\ pc[t] = "guest"
      /\ \/ /\ Hit(t, p, write) /\ ~Current(t, e)
            /\ GoWild("stale")
         \/ /\ Hit(t, p, write) /\ Current(t, e)
            /\ contents' = [contents EXCEPT ![e.data][e.off] =
                              Written(contents[e.data][e.off], write, c, v)]
            /\ CountStore(write)
            /\ UNCHANGED <<pc, mem, tlb, seen, suspect, spaces, dataRefs, wild>>
         \/ /\ ~Hit(t, p, write)
            /\ MemPtr(t, m, p, write, c, v)
            /\ tlb' = [tlb EXCEPT ![t][i] =
                         [page |-> p, data |-> pt'[m][p].data, off |-> pt'[m][p].off,
                          writable |-> write]]
            /\ CountStore(write)
            /\ UNCHANGED <<pc, mem, seen, refs, brk, wild>>

\* An interrupt of any kind: unlock, and into the kernel.
Interrupt(t) ==
  /\ pc[t] = "guest"
  /\ Goto(t, "kernel")
  /\ UNCHANGED <<mem, tlb, seen, suspect, spaces, datas, ops, tasks, stores, wild>>

\* Back to the guest: lock, and flush when the counter has moved.
Resume(t) ==
  /\ pc[t] \in {"kernel", "ret"}
  /\ Goto(t, "guest")
  /\ IF changes[mem[t]] = seen[t] THEN UNCHANGED <<tlb, seen, suspect>>
     ELSE /\ tlb' = [tlb EXCEPT ![t] = NoTlb]
          /\ seen' = [seen EXCEPT ![t] = changes[mem[t]]]
          /\ suspect' = [suspect EXCEPT ![t] = FALSE]
  /\ UNCHANGED <<mem, spaces, datas, ops, tasks, stores, wild>>

-----------------------------------------------------------------------------
(* System calls *)

\* A call of t that maps or unmaps, and returns to the guest.
CallReturns(t) ==
  /\ ops' = ops + 1 /\ UNCHANGED <<tasks, stores>> /\ WithinBounds
  /\ Goto(t, "ret")
  /\ UNCHANGED <<mem, tlb, seen, refs>>

\* A call that changes who runs in which space.
TaskCall ==
  tasks' = tasks + 1 /\ UNCHANGED <<ops, stores>> /\ WithinBounds

\* user_read and user_write, without the lock.
UserAccess(t, p, write, c, v) ==
  /\ MemPtr(t, mem[t], p, write, c, v)
  /\ CountStore(write)
  /\ UNCHANGED <<pc, mem, tlb, seen, refs, brk, wild>>

\* pt_find_hole: the highest hole of n pages.
Holes(m, n) ==
  {q \in Page : q > MmapLow /\ q + n <= StackPage
                /\ \A r \in q .. q + n - 1 : ~Has(m, r)}

Mmap(t, S, first, flags) ==
  /\ NoGuest(mem[t])
  /\ PtMap(mem[t], S, first, flags, Zeroes)
  /\ CallReturns(t)
  /\ UNCHANGED <<suspect, brk, wild>>

MmapFixed(t, first, n, flags) == Mmap(t, first .. first + n - 1, first, flags)

MmapAnywhere(t, n, flags) ==
  \E q \in Holes(mem[t], n) :
    /\ \A r \in Holes(mem[t], n) : r <= q
    /\ Mmap(t, q .. q + n - 1, q, flags)

Munmap(t, first, n) ==
  LET S == first .. first + n - 1 IN
  /\ NoGuest(mem[t])
  /\ \A p \in S : Has(mem[t], p)
  /\ PtUnmap(mem[t], S)
  /\ CallReturns(t)
  /\ UNCHANGED <<suspect, brk, wild>>

\* pt_set_flags replaces all flags, copy-on-write among them: the behaviour ends
\* when that lets a shared page be written to.
Mprotect(t, first, n, prot) ==
  LET m == mem[t]
      S == first .. first + n - 1
  IN  /\ NoGuest(m)
      /\ \A p \in S : Has(m, p)
      /\ pt' = [pt EXCEPT ![m] = [p \in Page |->
                  IF p \in S THEN [@[p] EXCEPT !.flags = prot] ELSE @[p]]]
      /\ changes' = [changes EXCEPT ![m] = @ + 1]
      /\ wild' = IF prot # {} /\ \E p \in S : Shared(m, p) THEN "mprotect" ELSE wild
      /\ CallReturns(t)
      /\ UNCHANGED <<suspect, brk, datas>>

PageUp(a)   == (a + 1) \div 2   \* PAGE_ROUND_UP
PageDown(a) == a \div 2         \* PAGE

BrkGrow(t, new) ==
  LET m == mem[t]
      S == PageUp(brk[m]) .. PageUp(new) - 1
  IN  /\ NoGuest(m)
      /\ new > brk[m]
      /\ IF S = {} THEN UNCHANGED <<pt, changes, datas>>
         ELSE PtMap(m, S, PageUp(brk[m]), {"w", "anon"}, Zeroes)
      /\ brk' = [brk EXCEPT ![m] = new]
      /\ CallReturns(t)
      /\ UNCHANGED <<suspect, wild>>

\* The third argument of pt_unmap is a number of pages; the code passes the page
\* of the old break.
BrkShrink(t, new) ==
  LET m == mem[t] IN
  /\ NoGuest(m)
  /\ StartBrk <= new /\ new < brk[m]
  /\ PtUnmap(m, {p \in Page : PageDown(new) <= p /\ p < PageDown(new) + PageDown(brk[m])})
  /\ brk' = [brk EXCEPT ![m] = new]
  /\ CallReturns(t)
  /\ UNCHANGED <<suspect, wild>>

\* mremap takes no lock: running threads keep what they have cached.
MremapShrink(t, first, old, new) ==
  LET m == mem[t]
      S == first + new .. first + old - 1
  IN  /\ new <= old
      /\ \A p \in S : Has(m, p)
      /\ PtUnmap(m, S)
      /\ suspect' = [u \in Thread |-> suspect[u] \/ u \in Running(t, m)]
      /\ CallReturns(t)
      /\ UNCHANGED <<brk, wild>>

\* Growing reads the entry of every old page, the missing ones included.
MremapGrow(t, first, old, new) ==
  LET m == mem[t]
      S == first + old .. first + new - 1
  IN  /\ new > old
      /\ Has(m, first)
      /\ IF \E p \in first .. first + old - 1 : ~Has(m, p)
         THEN GoWild("mremap")
         ELSE /\ "anon" \in pt[m][first].flags
              /\ \A p \in S : ~Has(m, p)
              /\ PtMap(m, S, first + old, pt[m][first].flags, Zeroes)
              /\ CallReturns(t)
              /\ UNCHANGED <<suspect, brk, wild>>

-----------------------------------------------------------------------------
(* fork, exec, exit *)

CowTable(table) ==
  [p \in Page |-> IF table[p] = None THEN None
                  ELSE [table[p] EXCEPT !.flags = @ \cup {"cow"}]]

\* A slip: only the child's entries are marked.
CowChildOnly(t, n) ==
  LET m == mem[t] IN
  /\ pt' = [pt EXCEPT ![n] = CowTable(pt[m])]
  /\ dataRefs' = [d \in Data |-> dataRefs[d] + Uses(pt[m], Page, d)]
  /\ changes' = [changes EXCEPT ![m] = @ + 1, ![n] = 1 + Cardinality({p \in Page : Has(m, p)})]

\* A slip: the parent's TLB is not told.
CowQuietly(t, n) ==
  LET m == mem[t] IN
  /\ pt' = [pt EXCEPT ![m] = CowTable(@), ![n] = CowTable(pt[m])]
  /\ dataRefs' = [d \in Data |-> dataRefs[d] + Uses(pt[m], Page, d)]
  /\ changes' = [changes EXCEPT ![n] = 1 + Cardinality({p \in Page : Has(m, p)})]

\* A slip: the objects are not counted again.
CowUncounted(t, n) ==
  LET m == mem[t] IN
  /\ pt' = [pt EXCEPT ![m] = CowTable(@), ![n] = CowTable(pt[m])]
  /\ changes' = [changes EXCEPT ![m] = @ + 1, ![n] = 1 + Cardinality({p \in Page : Has(m, p)})]
  /\ UNCHANGED dataRefs

\* pt_copy_on_write of all of t's memory into the new space n.
CopyOnWrite(t, n) ==
  LET m == mem[t] IN
  /\ pt' = [pt EXCEPT ![m] = CowTable(@), ![n] = CowTable(pt[m])]
  /\ dataRefs' = [d \in Data |-> dataRefs[d] + Uses(pt[m], Page, d)]
  /\ changes' = [changes EXCEPT ![m] = @ + 1, ![n] = 1 + Cardinality({p \in Page : Has(m, p)})]

\* The new task u starts in cpu_run with an empty TLB.
StartThread(t, u, m) ==
  /\ pc[u] = "unused"
  /\ pc' = [pc EXCEPT ![t] = "ret", ![u] = "ret"]
  /\ mem' = [mem EXCEPT ![u] = m]
  /\ UNCHANGED <<tlb, seen, suspect>>

Fork(t, u, n) ==
  /\ TaskCall
  /\ NoGuest(mem[t])
  /\ refs[n] = 0
  /\ refs' = [refs EXCEPT ![n] = 1]
  /\ brk' = [brk EXCEPT ![n] = brk[mem[t]]]
  /\ CopyOnWrite(t, n)
  /\ StartThread(t, u, n)
  /\ UNCHANGED <<contents, wild>>

CloneVm(t, u) ==
  /\ TaskCall
  /\ refs' = [refs EXCEPT ![mem[t]] = @ + 1]
  /\ StartThread(t, u, mem[t])
  /\ UNCHANGED <<changes, brk, pt, datas, wild>>

\* What mem_release leaves of the counts.
Last(t) == refs[mem[t]] = 1
ReleasedCounts(t) == IF Last(t) THEN Dropped(pt[mem[t]], Page) ELSE dataRefs

\* A slip: the task keeps its pointer to what it has released.
ExitKeeping(t) ==
  LET m == mem[t] IN
  /\ TaskCall
  /\ refs' = [refs EXCEPT ![m] = @ - 1]
  /\ pt' = IF Last(t) THEN [pt EXCEPT ![m] = NoPages] ELSE pt
  /\ dataRefs' = ReleasedCounts(t)
  /\ Keep(dataRefs', None, Zeroes)
  /\ Goto(t, "unused")
  /\ tlb' = [tlb EXCEPT ![t] = NoTlb]
  /\ suspect' = [suspect EXCEPT ![t] = FALSE]
  /\ UNCHANGED <<mem, seen, changes, brk, wild>>

Exit(t) ==
  LET m == mem[t] IN
  /\ TaskCall
  /\ refs' = [refs EXCEPT ![m] = @ - 1]
  /\ pt' = IF Last(t) THEN [pt EXCEPT ![m] = NoPages] ELSE pt
  /\ dataRefs' = ReleasedCounts(t)
  /\ Keep(dataRefs', None, Zeroes)
  /\ Goto(t, "unused")
  /\ mem' = [mem EXCEPT ![t] = None]
  /\ tlb' = [tlb EXCEPT ![t] = NoTlb]
  /\ suspect' = [suspect EXCEPT ![t] = FALSE]
  /\ UNCHANGED <<seen, changes, brk, wild>>

\* elf_exec: release the old space and load an image into a new one, whose
\* counter starts at 0.
Exec(t, n) ==
  LET m == mem[t]
      counts == ReleasedCounts(t)
      a == NewData(counts)
      b == NewData([counts EXCEPT ![a] = 1])
  IN  /\ TaskCall
      /\ refs[n] = 0 \/ (n = m /\ Last(t))
      /\ Room(counts) /\ Room([counts EXCEPT ![a] = 1])
      /\ refs' = [[refs EXCEPT ![m] = @ - 1] EXCEPT ![n] = 1]
      /\ pt' = [[pt EXCEPT ![m] = IF Last(t) THEN NoPages ELSE @] EXCEPT ![n] = Image(a, b)]
      /\ dataRefs' = [counts EXCEPT ![a] = 1, ![b] = 1]
      /\ Keep(counts, a, FromFile)
      /\ changes' = [changes EXCEPT ![n] = 0]
      /\ brk' = [brk EXCEPT ![n] = StartBrk]
      /\ mem' = [mem EXCEPT ![t] = n]
      /\ suspect' = [suspect EXCEPT ![t] = TRUE]
      /\ Goto(t, "ret")
      /\ UNCHANGED <<tlb, seen, wild>>

-----------------------------------------------------------------------------
Prots == {{}, {"w"}}

Accesses(Do(_, _, _, _)) ==
  \E p \in Touched, s \in Stored : Do(p, FALSE, s[1], s[2]) \/ Do(p, TRUE, s[1], s[2])

Guest(t) ==
  \/ Accesses(LAMBDA p, write, c, v : Access(t, p, write, c, v))
  \/ Interrupt(t) \/ Resume(t)

Kernel(t) ==
  /\ pc[t] = "kernel"
  /\ \/ Accesses(LAMBDA p, write, c, v : UserAccess(t, p, write, c, v))
     \/ \E r \in Ranges :
          \/ \E flags \in MapFlags :
               MmapAnywhere(t, r[2], flags) \/ MmapFixed(t, r[1], r[2], flags)
          \/ Munmap(t, r[1], r[2])
          \/ \E prot \in Prots : Mprotect(t, r[1], r[2], prot)
          \/ \E new \in 0 .. r[2] : MremapShrink(t, r[1], r[2], new)
          \/ \E old \in 1 .. r[2] : MremapGrow(t, r[1], old, r[2])
     \/ \E new \in Breaks : BrkGrow(t, new) \/ BrkShrink(t, new)
     \/ \E n \in Space : Exec(t, n) \/ \E u \in Thread : Fork(t, u, n)
     \/ \E u \in Thread : CloneVm(t, u)
     \/ Exit(t)

Next == wild = None /\ \E t \in Thread : Guest(t) \/ Kernel(t)

Spec == Init /\ [][Next]_vars

-----------------------------------------------------------------------------
TypeOK ==
  /\ pc \in [Thread -> {"guest", "kernel", "ret", "unused"}]
  /\ mem \in [Thread -> Space \cup {None}]
  /\ \A t \in Thread : mem[t] = None <=> pc[t] = "unused"
  /\ tlb \in [Thread -> [0 .. TlbSize - 1 -> TlbEntry \cup {None}]]
  /\ seen \in [Thread -> Nat]
  /\ suspect \in [Thread -> BOOLEAN]
  /\ refs \in [Space -> Nat] /\ changes \in [Space -> Nat] /\ brk \in [Space -> Nat]
  /\ pt \in [Space -> [Page -> PageEntry \cup {None}]]
  /\ dataRefs \in [Data -> Nat]
  /\ contents \in [Data -> [Page -> Content]]
  /\ ops \in Nat /\ tasks \in Nat /\ stores \in Nat
  /\ wild \in {None, "stale", "mprotect", "mremap"}

\* Every count is the number of its references, so data is freed when its last
\* page is unmapped and not before, and a space with its last thread.
CountsExact ==
  /\ \A d \in Data :
       dataRefs[d] = Cardinality({q \in Space \X Page : Leads(pt[q[1]][q[2]], d)})
  /\ \A m \in Space : refs[m] = Cardinality({t \in Thread : mem[t] = m})

\* What a running thread has cached is what the page table says, unless the
\* table changed behind its back (a copy-on-write break by another thread,
\* mremap) or the counter met an equal one (exec): every call that holds the
\* lock for writing makes every thread of the space flush.
TlbFresh ==
  \A t \in Thread : pc[t] = "guest" /\ ~suspect[t] =>
    \A i \in DOMAIN tlb[t] : tlb[t][i] # None => Current(t, tlb[t][i])

\* What the guests of each space see of its pages.
View == [m \in Space |-> [p \in Page |->
           IF pt[m][p] = None THEN None ELSE contents[pt[m][p].data][pt[m][p].off]]]

\* Processes, and threads with their spaces, see memory of their own.
Private == INSTANCE PrivateMemory WITH space <- mem, view <- View

\* The memory that every system call, fault and flush together implement is
\* PrivateMemory: no store of one process shows in another, fork copies, and
\* loads through the TLB see the last store.
IsPrivate == Private!Spec

\* memory.h: pages are copied "using copy-on-write": while two entries show the
\* same page, neither may be written to directly.
SharedAreCow ==
  \A m \in Space, p \in Page :
    Has(m, p) /\ Shared(m, p) => ~Writable(pt[m][p])

\* memory.h: the counter is incremented "whenever a tlb flush is needed": what a
\* running thread has cached is what the page table says.
FlushedWhenNeeded ==
  \A t \in Thread : pc[t] = "guest" =>
    \A i \in DOMAIN tlb[t] : tlb[t][i] # None => Current(t, tlb[t][i])

\* sys_brk: "unmap region from new_brk to old_brk": a moved break leaves the
\* pages above both ends alone.
BrkKeepsTheRest ==
  [][\A m \in Space : UNCHANGED mem /\ brk'[m] # brk[m] =>
       \A p \in Page : p >= PageUp(brk[m]) /\ p >= PageUp(brk'[m]) =>
         pt'[m][p] = pt[m][p]]_vars
=============================================================================
