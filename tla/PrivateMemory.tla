--------------------------- MODULE PrivateMemory ---------------------------
(***************************************************************************)
(* What the memory of iSL promises its guests: every address space has     *)
(* pages of its own, which show what was last stored there through that    *)
(* space and no other, and fork copies.  Sharing, reference counts and     *)
(* cached translations are none of a guest's business.                     *)
(***************************************************************************)
EXTENDS Naturals

CONSTANTS
  Thread,
  Space,   \* address spaces
  Page,    \* page numbers
  Cell,    \* the cells of a page
  Value,   \* what a cell can hold
  Zero,    \* what a cell of a new page holds
  Loaded,  \* what a cell of a page from an executable holds
  None

VARIABLES
  view,   \* the page that a space shows at a page number, or None
  space   \* the space of each thread, or None

vars == <<view, space>>

Content  == [Cell -> Value]
ZeroPage   == [c \in Cell |-> Zero]
LoadedPage == [c \in Cell |-> Loaded]
Blank    == [p \in Page |-> None]

TypeOK ==
  /\ view \in [Space -> [Page -> Content \cup {None}]]
  /\ space \in [Thread -> Space \cup {None}]

Init ==
  /\ TypeOK
  /\ \A m \in Space, p \in Page : view[m][p] \in {None, ZeroPage, LoadedPage}
  /\ \A m \in Space : view[m] # Blank => \E t \in Thread : space[t] = m

Mapped(m, p) == view[m][p] # None

\* A stack may grow down to any page below a mapped one, and grows by a page of
\* zeroes.
Reachable(m, p) == Mapped(m, p) \/ \E q \in Page : q > p /\ Mapped(m, q)

Shown(m, p) == IF Mapped(m, p) THEN view[m][p] ELSE ZeroPage

Load(t, p) ==
  /\ Reachable(space[t], p)
  /\ view' = [view EXCEPT ![space[t]][p] = Shown(space[t], p)]
  /\ UNCHANGED space

Store(t, p, c, v) ==
  /\ Reachable(space[t], p)
  /\ view' = [view EXCEPT ![space[t]][p] = [Shown(space[t], p) EXCEPT ![c] = v]]
  /\ UNCHANGED space

\* mmap, munmap, mremap and brk make pages come and go, in this space only.
Remap(t) ==
  /\ view' \in [Space -> [Page -> Content \cup {None}]]
  /\ \A m \in Space, p \in Page :
       \/ view'[m][p] = view[m][p]
       \/ m = space[t] /\ view'[m][p] \in {None, ZeroPage}
  /\ UNCHANGED space

OthersIn(t, m) == \E u \in Thread \ {t} : space[u] = m

Fork(t, u, m) ==
  /\ space[u] = None
  /\ ~OthersIn(t, m) /\ space[t] # m
  /\ space' = [space EXCEPT ![u] = m]
  /\ view' = [view EXCEPT ![m] = view[space[t]]]

CloneThread(t, u) ==
  /\ space[u] = None
  /\ space' = [space EXCEPT ![u] = space[t]]
  /\ UNCHANGED view

\* A space is blank again when its last thread has left it.
Left(t) == IF OthersIn(t, space[t]) THEN view
           ELSE [view EXCEPT ![space[t]] = Blank]

Exec(t, m) ==
  /\ ~OthersIn(t, m)
  /\ space' = [space EXCEPT ![t] = m]
  /\ \A p \in Page : view'[m][p] \in {None, ZeroPage, LoadedPage}
  /\ view' = [Left(t) EXCEPT ![m] = view'[m]]

Exit(t) ==
  /\ space' = [space EXCEPT ![t] = None]
  /\ view' = Left(t)

Next ==
  \E t \in Thread :
    /\ space[t] # None
    /\ \/ \E p \in Page :
            Load(t, p) \/ \E c \in Cell, v \in Value : Store(t, p, c, v)
       \/ Remap(t)
       \/ \E m \in Space : Exec(t, m) \/ \E u \in Thread : Fork(t, u, m)
       \/ \E u \in Thread : CloneThread(t, u)
       \/ Exit(t)

Spec == Init /\ [][Next]_vars
=============================================================================
