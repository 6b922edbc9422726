------------------------------- MODULE FakeFs -------------------------------
(***************************************************************************)
(* The fake file system: fs/fake.c and fs/fake-rebuild.c.  The files live  *)
(* in a directory of the host, their owner and mode in a database: `paths' *)
(* maps a path to the inode number the host gave it, `stats' maps a number *)
(* to the metadata.  A call changes the host first and then the database,  *)
(* in a transaction held under mount->lock; a crash undoes the transaction *)
(* but not what was done to the host.  When the tree has been copied to    *)
(* another device its inode numbers are new, and mounting rebuilds the     *)
(* database.                                                               *)
(*                                                                         *)
(* A file is an identity, and its metadata is the identity it was written  *)
(* for, so that metadata in the wrong place can be told.                   *)
(***************************************************************************)
EXTENDS Integers, Sequences, FiniteSets, SequencesExt

CONSTANTS Users,       \* tasks
          Tree,        \* the paths, sequences of components
          Inos,        \* inode numbers, positive
          FileIds, DirIds,
          Nobody,
          MaxCalls, MaxCrashes, MaxCopies

Ids == FileIds \cup DirIds
Components == UNION {{p[n] : n \in DOMAIN p} : p \in Tree}

\* The root is not a path, and what a path lies in is one.  0 stands for no
\* inode; a file is no directory.
ASSUME FakeFsAssumption ==
    /\ Tree \subseteq Seq(Components) /\ << >> \notin Tree
    /\ \A p \in Tree : \A n \in 1 .. Len(p) : SubSeq(p, 1, n) \in Tree
    /\ 0 \notin Inos /\ FileIds \cap DirIds = {} /\ Nobody \notin Ids

VARIABLES dir,     \* dir[p]: the inode of the host's file at p, or 0
          who,     \* who[i]: the file that has inode i, None when i is free
          paths,   \* the table paths: an inode or 0
          stats,   \* the table stats: whose metadata, or None
          pc,      \* pc[t]: what task t is doing
          mnt,     \* "on", "off", "rebuild" while fakefs_rebuild runs, "rebuilt"
          moved,   \* meta.db_inode is not the inode of the database file
          fits,    \* the tables are about this copy of the tree
          rb,      \* fakefs_rebuild's rows to do, hash table and new tables; the
                   \* path it has unlinked, with its inode and file; links refused
          hurt,    \* files whose metadata the code is known to lose
          leaked,  \* inode numbers whose row outlives the file
          badrow,  \* paths a rebuild recorded with the inode it had unlinked
          calls, crashes, copies

fakeVars == <<dir, who, paths, stats, pc, mnt, moved, fits, rb, hurt, leaked, badrow,
          calls, crashes, copies>>
hostVars == <<dir, who>>
tables == <<paths, stats>>
mounting == <<mnt, moved, fits, rb, crashes, copies>>

AtRest == [k |-> "idle"]
NoRebuild == [todo |-> {}, table |-> << >>, paths |-> << >>, stats |-> << >>,
              at |-> << >>, ino |-> 0, file |-> Nobody, refused |-> {}]
Phases == [k : {"idle"}] \cup [k : {"open"}, p : Tree] \cup [k : {"test"}, p : Tree, gone : BOOLEAN]
          \cup [k : {"txn"}, op : {"make", "link", "remove", "rename"}, p : Tree,
                old : Inos \cup {0}, gone : BOOLEAN]

LinksOf(d, i) == {p \in Tree : d[p] = i}
IsDir(p) == dir[p] # 0 /\ who[dir[p]] \in DirIds
ParentExists(p) == Len(p) > 1 => IsDir(Front(p))
Below(p) == {r \in Tree : IsStrictPrefix(p, r)}
LockFree == \A t \in Users : pc[t].k # "txn"        \* mount->lock
\* What a stat of p answers, fakefs_stat: read_stat by the host's inode.
StatAnswer(p) == IF dir[p] = 0 THEN Nobody ELSE stats[dir[p]]

\* The file at p if it has no metadata yet: it only gets some at that path.
Bare(p) == IF dir[p] # 0 /\ StatAnswer(p) = Nobody THEN {who[dir[p]]} ELSE {}

\* The identities a file made now can have; the choice is arbitrary.
Fresh(kind) ==
    LET unused == {f \in kind : f \notin {who[i] : i \in Inos} \cup {stats[i] : i \in Inos} \cup hurt}
    IN IF unused = {} THEN {} ELSE {CHOOSE f \in unused : TRUE}

\* The host frees an inode that has no name left.
Freed(d, w) == [i \in Inos |-> IF LinksOf(d, i) = {} THEN Nobody ELSE w[i]]
Live(w) == {w[i] : i \in Inos} \ {Nobody}
-----------------------------------------------------------------------------
(* Calls.                                                                  *)
Begins(t) == mnt = "on" /\ pc[t] = AtRest /\ calls < MaxCalls /\ calls' = calls + 1
HostMakes(p, kind) ==
    \E i \in Inos, f \in Fresh(kind) :
        /\ who[i] = Nobody
        /\ dir' = [dir EXCEPT ![p] = i] /\ who' = [who EXCEPT ![i] = f]

\* open with O_CREAT: realfs.open makes the file before the transaction.
OpenMakes(t, p) ==
    /\ Begins(t) /\ ParentExists(p) /\ ~ IsDir(p)
    /\ IF dir[p] = 0 THEN HostMakes(p, FileIds) ELSE UNCHANGED hostVars
    /\ pc' = [pc EXCEPT ![t] = [k |-> "open", p |-> p]]
    \* A number whose row was left behind gives the new file an old owner.
    /\ hurt' = IF dir[p] = 0 /\ stats[dir'[p]] # Nobody
               THEN hurt \cup {who'[dir'[p]]} ELSE hurt
    /\ UNCHANGED <<tables, mounting, leaked, badrow>>

\* ... and the transaction that gives it metadata unless it has some.
\* The path may be gone by then: write_stat asserts that it is not.
OpenRecords(t) ==
    LET p == pc[t].p IN
    /\ pc[t].k = "open" /\ LockFree /\ dir[p] # 0
    /\ IF StatAnswer(p) = Nobody
       THEN /\ paths' = [paths EXCEPT ![p] = dir[p]]
            /\ stats' = [stats EXCEPT ![dir[p]] = who[dir[p]]]
            /\ badrow' = badrow \ {p} /\ UNCHANGED hurt
       ELSE /\ UNCHANGED <<tables, badrow>>
            \* Linked and recorded at its other name in the meantime.
            /\ hurt' = IF paths[p] # dir[p] THEN hurt \cup {who[dir[p]]} ELSE hurt
    /\ pc' = [pc EXCEPT ![t] = AtRest]
    /\ UNCHANGED <<hostVars, mounting, leaked, calls>>

\* db_begin and the host's part of a call; the database follows at Commit.
Txn(t, op, p, old, gone) ==
    pc' = [pc EXCEPT ![t] = [k |-> "txn", op |-> op, p |-> p, old |-> old, gone |-> gone]]

\* A slip: mount->lock is not taken.
MakeUnlocked(t, p, kind) ==
    /\ Begins(t) /\ dir[p] = 0 /\ ParentExists(p)
    /\ HostMakes(p, kind)
    /\ Txn(t, "make", p, 0, FALSE)
    /\ UNCHANGED <<tables, mounting, hurt, leaked, badrow>>

\* symlink, mknod and mkdir; the host refuses when the path exists.
Make(t, p, kind) ==
    /\ Begins(t) /\ LockFree /\ dir[p] = 0 /\ ParentExists(p)
    /\ HostMakes(p, kind)
    /\ Txn(t, "make", p, 0, FALSE)
    /\ UNCHANGED <<tables, mounting, hurt, leaked, badrow>>

Link(t, p, q) ==
    /\ Begins(t) /\ LockFree /\ dir[p] # 0 /\ ~ IsDir(p) /\ dir[q] = 0 /\ ParentExists(q)
    /\ dir' = [dir EXCEPT ![q] = dir[p]]
    /\ Txn(t, "link", q, 0, FALSE)
    /\ UNCHANGED <<who, tables, mounting, hurt, leaked, badrow>>

\* unlink looks for the last link before it begins its transaction.
UnlinkTests(t, p) ==
    /\ Begins(t)
    /\ pc' = [pc EXCEPT ![t] = [k |-> "test", p |-> p,
                                gone |-> dir[p] # 0 /\ ~ IsDir(p) /\ Cardinality(LinksOf(dir, dir[p])) = 1]]
    /\ UNCHANGED <<hostVars, tables, mounting, hurt, leaked, badrow>>

HostRemoves(p) ==
    LET d == [dir EXCEPT ![p] = 0] IN dir' = d /\ who' = Freed(d, who)

Unlink(t) ==
    LET p == pc[t].p IN
    /\ pc[t].k = "test" /\ LockFree
    /\ IF dir[p] = 0 \/ IsDir(p)
       THEN pc' = [pc EXCEPT ![t] = AtRest] /\ UNCHANGED <<hostVars, hurt, leaked>>
       ELSE /\ HostRemoves(p)
            /\ Txn(t, "remove", p, dir[p], pc[t].gone)
            \* Another link made, or the other link removed, since the test.
            /\ hurt' = hurt \cup Bare(p)
                            \cup (IF pc[t].gone /\ LinksOf(dir', dir[p]) # {} THEN {who[dir[p]]} ELSE {})
            /\ leaked' = IF ~ pc[t].gone /\ LinksOf(dir', dir[p]) = {} THEN leaked \cup {dir[p]} ELSE leaked
    /\ UNCHANGED <<tables, mounting, badrow, calls>>

FakeRmdir(t, p) ==
    /\ Begins(t) /\ LockFree /\ IsDir(p) /\ \A r \in Below(p) : dir[r] = 0
    /\ HostRemoves(p)
    /\ Txn(t, "remove", p, dir[p], TRUE)
    /\ UNCHANGED <<tables, mounting, hurt, leaked, badrow>>

\* The path of r, which is p or below it, when p is called q.
Renamed(p, q, r) == q \o SubSeq(r, Len(p) + 1, Len(r))

\* Where the file comes from that lies at r once p is called q.
Origin(p, q, r) == IF IsPrefix(q, r) THEN Renamed(q, p, r) ELSE r
Renaming(p, q) == [r \in Tree |-> IF IsPrefix(p, r) \/ Origin(p, q, r) \notin Tree THEN 0
                                  ELSE dir[Origin(p, q, r)]]

\* rename: a directory takes what is below it along, and the host does
\* nothing when both names are links of one file.
Rename(t, p, q) ==
    LET d == Renaming(p, q)
    IN /\ Begins(t) /\ LockFree /\ dir[p] # 0 /\ ParentExists(q) /\ ~ IsPrefix(p, q) /\ ~ IsPrefix(q, p)
       /\ dir[q] # 0 => (IsDir(p) <=> IsDir(q)) /\ \A r \in Below(q) : dir[r] = 0
       \* A bound: what moves has its new path within Tree.
       /\ \A r \in Below(p) : dir[r] # 0 => Renamed(p, q, r) \in Tree
       /\ IF dir[p] = dir[q] THEN UNCHANGED hostVars ELSE dir' = d /\ who' = Freed(d, who)
       /\ Txn(t, "rename", q, dir[q], FALSE)
       \* The row of the file that was at q goes, even if q was not its only
       \* name; rows of what was below p keep naming the old path.
       /\ hurt' = hurt \cup Bare(p)
                       \cup (IF dir[q] # 0 /\ dir[q] # dir[p] /\ LinksOf(d, dir[q]) # {}
                             THEN {who[dir[q]]} ELSE {})
                       \cup {who[dir[r]] : r \in {r \in Below(p) : dir[r] # 0}}
       /\ UNCHANGED <<tables, mounting, leaked, badrow>>

\* Slips: the metadata goes with any of a file's names; it stays with the last
\* one; a new link gets no row.
Commits(t, deletes, records) ==
    LET c == pc[t]
        makes == c.op \in records IN
    /\ c.k = "txn"
    /\ paths' = IF makes THEN [paths EXCEPT ![c.p] = dir[c.p]] ELSE paths
    /\ stats' = CASE c.op = "make" -> [stats EXCEPT ![dir[c.p]] = who[dir[c.p]]]
                  [] c.op = "remove" /\ deletes -> [stats EXCEPT ![c.old] = Nobody]
                  [] OTHER -> stats
    /\ badrow' = IF makes THEN badrow \ {c.p} ELSE badrow
    /\ leaked' = {i \in leaked : stats'[i] # Nobody}
    /\ pc' = [pc EXCEPT ![t] = AtRest]
    /\ UNCHANGED <<hostVars, mounting, hurt, calls>>
CommitDeletingRow(t) == Commits(t, TRUE, {"make", "link", "rename"})
CommitKeepingRow(t) == Commits(t, FALSE, {"make", "link", "rename"})
CommitUnrecorded(t) == Commits(t, pc[t].k = "txn" /\ pc[t].gone, {"make", "rename"})

\* The rest of the transaction c, and its commit.
Records(c) == c.op \in {"make", "link", "rename"}
PathsAfter(c) == IF Records(c) THEN [paths EXCEPT ![c.p] = dir[c.p]] ELSE paths
StatsAfter(c) ==
    IF c.op = "make" THEN [stats EXCEPT ![dir[c.p]] = who[dir[c.p]]]
    ELSE IF \/ c.op = "remove" /\ c.gone
            \/ c.op = "rename" /\ c.old # 0 /\ c.old # dir[c.p]
    THEN [stats EXCEPT ![c.old] = Nobody]
    ELSE stats
Commit(t) ==
    LET c == pc[t] IN
    /\ c.k = "txn"
    /\ paths' = PathsAfter(c) /\ stats' = StatsAfter(c)
    /\ badrow' = IF Records(c) THEN badrow \ {c.p} ELSE badrow
    /\ leaked' = {i \in leaked : stats'[i] # Nobody}
    /\ pc' = [pc EXCEPT ![t] = AtRest]
    /\ UNCHANGED <<hostVars, mounting, hurt, calls>>

\* A symlink whose target cannot be written is taken back.
SymlinkFails(t) ==
    /\ pc[t].k = "txn" /\ pc[t].op = "make" /\ who[dir[pc[t].p]] \in FileIds
    /\ HostRemoves(pc[t].p)
    /\ pc' = [pc EXCEPT ![t] = AtRest]
    /\ UNCHANGED <<tables, mounting, hurt, leaked, badrow, calls>>

\* setattr of owner or mode writes back what it read, path and all.
SetAttr(t, p) ==
    /\ Begins(t) /\ LockFree /\ StatAnswer(p) # Nobody
    /\ paths' = [paths EXCEPT ![p] = dir[p]] /\ badrow' = badrow \ {p}
    /\ UNCHANGED <<hostVars, stats, pc, mounting, hurt, leaked>>
-----------------------------------------------------------------------------
(* Crashes, copies and mounting.                                           *)
\* What a crash leaves half done: a file without metadata, metadata without
\* a file, or a name whose row is the one of an earlier file.
HalfDone(t) ==
    LET c == pc[t] IN
    IF c.k = "open" THEN (IF dir[c.p] # 0 /\ (paths[c.p] # dir[c.p] \/ StatAnswer(c.p) = Nobody)
                           THEN {who[dir[c.p]]} ELSE {})
    ELSE IF c.k = "txn" /\ c.op # "remove" THEN {who[dir[c.p]]} ELSE {}

GoesDown ==
    /\ hurt' = hurt \cup UNION {HalfDone(t) : t \in Users}
    /\ leaked' = leaked \cup {i \in Inos : stats[i] # Nobody /\ who[i] = Nobody}
    /\ pc' = [t \in Users |-> AtRest]
    /\ mnt' = "off" /\ rb' = NoRebuild
    /\ UNCHANGED <<hostVars, tables, moved, fits, badrow, calls, copies>>

Crash == crashes < MaxCrashes /\ crashes' = crashes + 1 /\ GoesDown

\* write_stat's assertion ends the program.
Asserts ==
    /\ \E t \in Users : pc[t].k = "open" /\ LockFree /\ dir[pc[t].p] = 0
    /\ GoesDown /\ UNCHANGED crashes

Unmount ==
    /\ mnt = "on" /\ \A t \in Users : pc[t] = AtRest
    /\ mnt' = "off"
    /\ UNCHANGED <<hostVars, tables, pc, moved, fits, rb, hurt, leaked, badrow, calls, crashes, copies>>

\* A path whose row is not its own (delete_path deletes none), and the file
\* that its row names: a rebuild takes the two for links of one file.
Stale == {p \in Tree : dir[p] # 0 /\ paths[p] # dir[p]}
NamedBy(p) == {who[i] : i \in {dir[p], paths[p]} \cap Inos}
Confused == (UNION {NamedBy(p) : p \in Stale}) \ {Nobody}

\* The tree and the database are copied elsewhere: every inode number may
\* be another one, and links become files of their own with equal contents.
Copied ==
    /\ mnt = "off" /\ copies < MaxCopies /\ copies' = copies + 1
    /\ \E d \in [Tree -> Inos \cup {0}] :
        /\ \A p \in Tree : (d[p] = 0) = (dir[p] = 0)
        /\ \A p, q \in Tree : d[p] # 0 /\ p # q => d[p] # d[q]
        /\ dir' = d
        /\ who' = [i \in Inos |-> IF LinksOf(d, i) = {} THEN Nobody
                                  ELSE who[dir[CHOOSE p \in Tree : d[p] = i]]]
    /\ moved' = TRUE
    /\ IF fits THEN hurt' = hurt \cup Confused /\ badrow' = {} ELSE UNCHANGED <<hurt, badrow>>
    /\ fits' = FALSE
    /\ UNCHANGED <<tables, pc, mnt, rb, leaked, calls, crashes>>

Mount ==
    /\ mnt = "off"
    /\ IF moved
       THEN /\ mnt' = "rebuild"
            /\ rb' = [NoRebuild EXCEPT !.todo = {p \in Tree : paths[p] # 0},
                                       !.table = [i \in Inos |-> << >>],
                                       !.paths = [p \in Tree |-> 0],
                                       !.stats = [i \in Inos |-> Nobody]]
       ELSE mnt' = "on" /\ UNCHANGED rb
    /\ UNCHANGED <<hostVars, tables, pc, moved, fits, hurt, leaked, badrow, calls, crashes, copies>>

\* fakefs_rebuild, one row after the other in any order.  The row of p is
\* done: p is the first path with its old number if there was none, and its
\* metadata goes with the number ino.
RowKnown(p) == stats[paths[p]] # Nobody
NewRows(p, ino) ==
    [rb EXCEPT !.todo = @ \ {p}, !.at = << >>, !.ino = 0, !.file = Nobody,
               !.table = IF @[paths[p]] = << >> THEN [@ EXCEPT ![paths[p]] = p] ELSE @,
               !.paths = IF RowKnown(p) THEN [@ EXCEPT ![p] = ino] ELSE @,
               !.stats = IF RowKnown(p) THEN [@ EXCEPT ![ino] = stats[paths[p]]] ELSE @]

\* A path that the host does not have is left out; one whose old number was
\* seen before is unlinked.  A directory cannot be: the error is not looked at.
Rebuilding == <<tables, pc, mnt, moved, fits, hurt, leaked, calls, crashes, copies>>
Rebuilds(p, relinks) ==
    /\ mnt = "rebuild" /\ rb.at = << >> /\ p \in rb.todo
    /\ IF dir[p] = 0
       THEN rb' = [rb EXCEPT !.todo = @ \ {p}] /\ UNCHANGED <<hostVars, badrow>>
       ELSE IF relinks /\ rb.table[paths[p]] # << >> /\ ~ IsDir(p)
       THEN /\ HostRemoves(p)
            /\ rb' = [rb EXCEPT !.at = p, !.ino = dir[p], !.file = who[dir[p]]]
            /\ UNCHANGED badrow
       ELSE rb' = NewRows(p, dir[p]) /\ badrow' = badrow \ {p} /\ UNCHANGED hostVars
    /\ UNCHANGED Rebuilding

\* A slip: a path whose number was seen is left a file of its own.
RebuildApart(p) == Rebuilds(p, FALSE)
RebuildRow(p) == Rebuilds(p, TRUE)

\* ... and linked to the path its number was seen at; the number recorded is
\* the one it had before.  No directory can be linked, and the host may refuse
\* any link: the errors are not looked at, and the name is gone.
Links(d, refused) ==
    LET p == rb.at IN
    /\ mnt = "rebuild" /\ p # << >>
    /\ dir' = [dir EXCEPT ![p] = d]
    /\ rb' = [NewRows(p, rb.ino) EXCEPT !.refused = @ \cup refused]
    /\ badrow' = IF RowKnown(p) /\ d # rb.ino THEN badrow \cup {p} ELSE badrow \ {p}
    /\ UNCHANGED <<who, Rebuilding>>

\* A slip: linkat comes first and fails, as the path is still there.
LinkComesFirst == Links(0, {})
RebuildLink ==
    LET first == rb.table[paths[rb.at]] IN
    \/ rb.at # << >> /\ Links(IF IsDir(first) THEN 0 ELSE dir[first], {})
    \/ Links(0, {rb.at})

\* The transaction of the rebuild commits; meta is updated on its own.
RebuildEnds ==
    /\ mnt = "rebuild" /\ rb.todo = {}
    /\ paths' = rb.paths /\ stats' = rb.stats
    /\ leaked' = {i \in Inos : rb.stats[i] # Nobody /\ who[i] = Nobody}
    /\ mnt' = "rebuilt" /\ rb' = NoRebuild /\ fits' = TRUE
    /\ UNCHANGED <<hostVars, pc, moved, hurt, badrow, calls, crashes, copies>>

SavesInode ==
    /\ mnt = "rebuilt" /\ mnt' = "on" /\ moved' = FALSE
    /\ UNCHANGED <<hostVars, tables, pc, fits, rb, hurt, leaked, badrow, calls, crashes, copies>>
-----------------------------------------------------------------------------
FakeInit ==
    /\ dir = [p \in Tree |-> 0] /\ who = [i \in Inos |-> Nobody]
    /\ paths = [p \in Tree |-> 0] /\ stats = [i \in Inos |-> Nobody]
    /\ pc = [t \in Users |-> AtRest] /\ mnt = "on" /\ moved = FALSE /\ fits = TRUE /\ rb = NoRebuild
    /\ hurt = {} /\ leaked = {} /\ badrow = {}
    /\ calls = 0 /\ crashes = 0 /\ copies = 0

FakeStep(t) ==
    \/ \E p \in Tree : OpenMakes(t, p) \/ UnlinkTests(t, p) \/ FakeRmdir(t, p) \/ SetAttr(t, p)
    \/ \E p \in Tree : Make(t, p, FileIds) \/ Make(t, p, DirIds)
    \/ \E p, q \in Tree : Link(t, p, q) \/ Rename(t, p, q)
    \/ OpenRecords(t) \/ Unlink(t) \/ Commit(t) \/ SymlinkFails(t)

FakeNext ==
    \/ \E t \in Users : FakeStep(t)
    \/ Crash \/ Asserts \/ Unmount \/ Copied \/ Mount \/ RebuildEnds \/ SavesInode
    \/ RebuildLink \/ \E p \in Tree : RebuildRow(p)

FakeSpec == FakeInit /\ [][FakeNext]_fakeVars
-----------------------------------------------------------------------------
(* Properties.                                                             *)
RbTypes == [todo : SUBSET Tree, table : [Inos -> Tree \cup {<< >>}],
            paths : [Tree -> Inos \cup {0}], stats : [Inos -> Ids \cup {Nobody}],
            at : Tree \cup {<< >>}, ino : Inos \cup {0}, file : Ids \cup {Nobody},
            refused : SUBSET Tree]
FakeTypeOK ==
    /\ dir \in [Tree -> Inos \cup {0}] /\ who \in [Inos -> Ids \cup {Nobody}]
    /\ paths \in [Tree -> Inos \cup {0}] /\ stats \in [Inos -> Ids \cup {Nobody}]
    /\ pc \in [Users -> Phases]
    /\ \A t, u \in Users : pc[t].k = "txn" /\ pc[u].k = "txn" => t = u
    /\ mnt \in {"on", "off", "rebuild", "rebuilt"} /\ moved \in BOOLEAN /\ fits \in BOOLEAN
    /\ mnt = "rebuild" => rb \in RbTypes
    /\ hurt \subseteq Ids /\ leaked \subseteq Inos /\ badrow \subseteq Tree

\* Files that an open has made and not recorded yet.
Opening == {who[dir[pc[t].p]] : t \in {t \in Users : pc[t].k = "open" /\ dir[pc[t].p] # 0}}

\* While the file system is mounted and no transaction is open, a path that
\* exists has the metadata of its own file: every interleaving of the calls,
\* every crash between the host's change and the commit and every copy to
\* another device, unless the file was hurt in one of the ways named above.
MetadataFollows ==
    mnt = "on" /\ LockFree =>
        \A p \in Tree : dir[p] # 0 /\ who[dir[p]] \notin hurt \cup Opening =>
            StatAnswer(p) = who[dir[p]]

\* ... and its row in paths has its number, on which the next rebuild relies.
PathsFollow ==
    mnt = "on" /\ LockFree =>
        \A p \in Tree : dir[p] # 0 /\ who[dir[p]] \notin hurt \cup Opening /\ p \notin badrow =>
            paths[p] = dir[p]

\* A row of stats belongs to an inode that exists, or a later file with that
\* number would be given an old file's owner and mode (fakefs_open keeps the
\* row it finds); the exceptions are the numbers named above.
RowsHaveFiles ==
    mnt = "on" /\ LockFree =>
        \A i \in Inos : stats[i] # Nobody /\ i \notin leaked => who[i] # Nobody

\* Paths that were links of one file are links of one file again once a
\* copied tree is mounted.
LinksAreRestored ==
    mnt = "on" =>
        \A p, q \in Tree :
            dir[p] # 0 /\ dir[q] # 0 /\ who[dir[p]] = who[dir[q]]
                /\ who[dir[p]] \notin hurt => dir[p] = dir[q]

\* Metadata, paths, rows and links together, over interleaved calls, crashes,
\* copies and rebuilds (fs/fake.c, fs/fake-rebuild.c).
MetadataSurvives ==
    FakeTypeOK /\ MetadataFollows /\ PathsFollow /\ RowsHaveFiles /\ LinksAreRestored

\* The file at p, or the one that fakefs_rebuild is about to link there again.
FileAt(p) == IF rb.at = p THEN rb.file ELSE IF dir[p] = 0 THEN Nobody ELSE who[dir[p]]

\* While a copied tree is mounted no step, a crash and a restart included,
\* loses a file or replaces it by another: what fakefs_rebuild unlinks it links
\* again to a file of the same contents (fs/fake-rebuild.c).  Two cases lose
\* one name: a crash between its unlinkat and its linkat, and a linkat that the
\* host refuses.
RebuildKeepsFiles ==
    mnt = "rebuild" =>
        \A p \in Tree : FileAt(p) \notin hurt \cup {Nobody} =>
            \/ FileAt(p)' = FileAt(p)
            \/ p = rb.at /\ (mnt' = "off" \/ p \in rb'.refused)
=============================================================================
