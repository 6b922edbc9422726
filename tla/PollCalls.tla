----------------------------- MODULE PollCalls -----------------------------
(***************************************************************************)
(* What select and poll make of their arguments and of what is ready:      *)
(* kernel/poll.c.  Descriptors are the keys of a table, several of which   *)
(* may name one open file; the waiting itself is in Polls.                 *)
(***************************************************************************)
EXTENDS Naturals, FiniteSets, Sequences, SequencesExt

CONSTANTS Fds,        \* descriptors a caller may write
          NegativeFds,\* those of them that are below zero
          Table,      \* the files f_get finds, for the descriptors in use
          RealFiles,  \* those without ops->poll, of which poll_wait asks the host
          Entries,    \* the events a caller may ask for
          ReadySets,  \* what a file may be ready for
          MaxEntries

\* What the constants have to be.
PollCallsAssumption ==
    MaxEntries \in Nat /\ IsFiniteSet(DOMAIN Table) /\ NegativeFds \cap DOMAIN Table = {}

VARIABLES pollCall,   \* none, adding, and the calls with an answer: poll or select
          polls,      \* the array of pollfd_, or the three sets of select
          next,       \* i of the loop that adds
          marked,     \* entries whose revents are the mark of that loop
          added,      \* the arguments of poll_add_fd
          ready,      \* what each file is ready for
          revents,    \* the array as it is written back
          returned    \* the number returned

loopVars == <<next, marked, added>>
pollVars == <<pollCall, polls, loopVars, ready, revents, returned>>

Always == {"err", "hup", "nval"}
Opened == {Table[fd] : fd \in DOMAIN Table}
FGet(fd) == IF fd \in DOMAIN Table THEN {Table[fd]} ELSE {}
-----------------------------------------------------------------------------
SysPoll ==
    /\ pollCall = "none" /\ pollCall' = "adding"
    /\ \E n \in 1 .. MaxEntries : polls' \in [1 .. n -> [fd : Fds, events : Entries]]
    /\ next' = 1 /\ marked' = {} /\ added' = <<>>
    /\ UNCHANGED <<ready, revents, returned>>

Adds(f, events) == added' = Append(added, [file |-> f, events |-> events \cup Always])

\* A slip: later entries of the same file are not marked.
AddEveryEntry ==
    /\ pollCall = "adding" /\ next \in DOMAIN polls /\ next' = next + 1
    /\ marked' = marked \cup {next}
    /\ LET file == FGet(polls[next].fd) IN
       \/ file = {} /\ UNCHANGED added
       \/ \E f \in file : Adds(f, polls[next].events)
    /\ UNCHANGED <<pollCall, polls, ready, revents, returned>>

(***************************************************************************)
(* One round of sys_poll's loop over the array: an entry not yet marked is *)
(* marked and, when its file is open, registered with the events of every  *)
(* other unmarked entry of the same file, which are marked too.            *)
(***************************************************************************)
AddEntry ==
    /\ pollCall = "adding" /\ next \in DOMAIN polls /\ next' = next + 1
    /\ LET file == FGet(polls[next].fd)
           same == {j \in DOMAIN polls \ marked : FGet(polls[j].fd) = file}
           skipped == polls[next].fd \in NegativeFds \/ next \in marked
       IN \/ skipped /\ UNCHANGED <<marked, added>>
          \/ ~skipped /\ file = {} /\ marked' = marked \cup {next} /\ UNCHANGED added
          \/ /\ ~skipped /\ marked' = marked \cup same
             /\ \E f \in file : Adds(f, UNION {polls[j].events : j \in same})
    /\ UNCHANGED <<pollCall, polls, ready, revents, returned>>

\* The files poll_wait finds ready for what they were registered for.
Reported(regs, rd) == {r.file : r \in {r \in Range(regs) : rd[r.file] \cap r.events # {}}}

\* A slip: everything the file is ready for is answered.
ReventsUnmasked(p, rd, rep) ==
    IF FGet(p.fd) = {} THEN {"nval"}
    ELSE IF FGet(p.fd) \subseteq rep THEN UNION {rd[f] : f \in FGet(p.fd)} ELSE {}

(***************************************************************************)
(* poll_event_callback: every entry of the file gets what it asked for or  *)
(* is always told.  An entry with no file has POLLNVAL from the start, a   *)
(* negative one too.                                                       *)
(***************************************************************************)
Revents(p, rd, rep) ==
    IF FGet(p.fd) = {} THEN {"nval"}
    ELSE IF FGet(p.fd) \subseteq rep
    THEN (UNION {rd[f] : f \in FGet(p.fd)}) \cap (p.events \cup Always)
    ELSE {}

\* The wait ends and the call returns.
PollReturns ==
    /\ pollCall = "adding" /\ next \notin DOMAIN polls /\ pollCall' = "poll"
    /\ ready' \in [Opened -> ReadySets]
    /\ LET rep == Reported(added, ready') IN
       /\ revents' = [i \in DOMAIN polls |-> Revents(polls[i], ready', rep)]
       /\ returned' = Cardinality(rep)
    /\ UNCHANGED <<polls, loopVars>>
-----------------------------------------------------------------------------
(***************************************************************************)
(* sys_select and select_event_callback.  What was asked for in any set is *)
(* registered; what comes back is sorted into the sets by its kind.        *)
(***************************************************************************)
SelectMask(kind) ==
    CASE kind = "read"   -> {"in", "hup", "err"}
      [] kind = "write"  -> {"out", "err"}
      [] kind = "except" -> {"pri"}

Kinds == {"read", "write", "except"}
Wanted(sets, fd) == UNION {SelectMask(k) : k \in {k \in Kinds : fd \in sets[k]}}
\* poll_wait's answer for a file registered with wanted.  What the host answers
\* is not cut to that, and it always tells of errors and hangups.
PollTypes(f, rd, wanted) ==
    rd[f] \cap (wanted \cup (IF f \in RealFiles THEN {"err", "hup"} ELSE {}))

\* A slip: all that is ready is sorted into the sets.
TypesUnasked(sets, rd, fd) == UNION {rd[f] : f \in FGet(fd)}

\* What a descriptor of some set is found ready for; no other is registered.
Types(sets, rd, fd) ==
    IF Wanted(sets, fd) = {} THEN {}
    ELSE UNION {PollTypes(f, rd, Wanted(sets, fd)) : f \in FGet(fd)}

SysSelect ==
    /\ pollCall = "none" /\ pollCall' = "select"
    /\ \E sets \in [Kinds -> SUBSET DOMAIN Table], rd \in [Opened -> ReadySets] :
          LET types == [fd \in DOMAIN Table |-> Types(sets, rd, fd)] IN
          /\ polls' = sets /\ ready' = rd
          /\ revents' = [k \in Kinds |->
                             {fd \in DOMAIN Table : types[fd] \cap SelectMask(k) # {}}]
          /\ returned' = Cardinality({fd \in DOMAIN Table : types[fd] # {}})
    /\ UNCHANGED loopVars

PollInit ==
    /\ pollCall = "none" /\ polls = <<>> /\ ready = <<>> /\ revents = <<>> /\ returned = 0
    /\ next = 1 /\ marked = {} /\ added = <<>>
CallDone ==
    /\ pollCall \in {"poll", "select"} /\ pollCall' = "none"
    /\ polls' = <<>> /\ ready' = <<>> /\ revents' = <<>> /\ returned' = 0
    /\ next' = 1 /\ marked' = {} /\ added' = <<>>
PollNext == SysPoll \/ AddEntry \/ PollReturns \/ SysSelect \/ CallDone
PollSpec == PollInit /\ [][PollNext]_pollVars
-----------------------------------------------------------------------------
\* All that the entries of f ask for.
Asked(f) ==
    (UNION {polls[i].events : i \in {j \in DOMAIN polls : f \in FGet(polls[j].fd)}}) \cup Always
Listed == UNION {FGet(polls[i].fd) : i \in DOMAIN polls}

\* However often the caller lists a file, under one descriptor or several, it
\* is registered once and with all that any entry asks of it (the marking loop
\* of sys_poll, kernel/poll.c:124-149): poll_add_fd would take it twice.
RegisteredOnce ==
    pollCall = "poll" =>
        /\ \A i, j \in DOMAIN added : added[i].file = added[j].file => i = j
        /\ {<<r.file, r.events>> : r \in Range(added)} = {<<f, Asked(f)>> : f \in Listed}

\* poll tells each entry of what it asked for and is ready, nothing it did not
\* ask for, and returns 0 exactly when no entry of an open file has an answer.
PollAnswers ==
    pollCall = "poll" =>
        /\ \A i \in DOMAIN polls : \A f \in FGet(polls[i].fd) :
              revents[i] = ready[f] \cap (polls[i].events \cup Always)
        /\ (returned = 0) <=> \A i \in DOMAIN polls : FGet(polls[i].fd) = {} \/ revents[i] = {}

\* select answers every set with what is ready of it, and returns the number of
\* descriptors it has an answer for.  A set may also hold a descriptor that was
\* asked about for another: an error belongs to reading and to writing, and a file
\* of the host is put among the readable ones for a hangup or an error that
\* nobody asked for (fs/poll.c:142, kernel/poll.c:26), but for nothing else.
SelectAnswers ==
    pollCall = "select" =>
        /\ \A k \in Kinds : \A fd \in polls[k] :
              fd \in revents[k] <=> ready[Table[fd]] \cap SelectMask(k) # {}
        /\ \A k \in Kinds : \A fd \in revents[k] \ polls[k] :
              \/ "err" \in ready[Table[fd]] /\ fd \in polls["read"] \cup polls["write"]
              \/ /\ Table[fd] \in RealFiles /\ fd \in UNION {polls[j] : j \in Kinds}
                 /\ ready[Table[fd]] \cap {"err", "hup"} \cap SelectMask(k) # {}
        /\ returned = Cardinality(UNION {revents[k] : k \in Kinds})
=============================================================================
