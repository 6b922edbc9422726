--------------------------- MODULE FakeFs_proofs ----------------------------
(***************************************************************************)
(* Proofs about the fake file system.  A call changes the host before the  *)
(* tables, so the invariant speaks of the tables as the open transaction   *)
(* will leave them; of a tree that has been copied it says what the old    *)
(* tables still know, and what fakefs_rebuild has made of them so far.     *)
(***************************************************************************)
EXTENDS FakeFs, SequenceTheorems, TLAPS

(***************************************************************************)
(* Paths                                                                   *)
(***************************************************************************)

\* A path has components, and paths that agree in them are the same.
LEMMA PathIsSeq ==
  ASSUME NEW p \in Tree
  PROVE  /\ p \in Seq(Components) /\ Len(p) \in Nat \ {0}
         /\ \A n \in 1 .. Len(p) : p[n] \in Components /\ SubSeq(p, 1, n) \in Tree
         /\ \A q \in Tree : Len(q) = Len(p) /\ (\A n \in 1 .. Len(p) : q[n] = p[n]) => q = p
<1>1. p \in Seq(Components) /\ p # << >>
  BY FakeFsAssumption
<1>2. Len(p) \in Nat \ {0} /\ \A n \in 1 .. Len(p) : p[n] \in Components
  BY <1>1, EmptySeq, ElementOfSeq
<1>3. \A q \in Tree : Len(q) = Len(p) /\ (\A n \in 1 .. Len(p) : q[n] = p[n]) => q = p
  BY <1>1, FakeFsAssumption, SeqEqual
<1>. QED
  BY <1>1, <1>2, <1>3, FakeFsAssumption

\* The beginning of a path, component by component.
LEMMA PathBegins ==
  ASSUME NEW p \in Tree, NEW n \in 1 .. Len(p)
  PROVE  Len(SubSeq(p, 1, n)) = n /\ \A k \in 1 .. n : SubSeq(p, 1, n)[k] = p[k]
<1>1. \A k \in 1 .. n : p[k] \in Components
  BY PathIsSeq
<1>2. n \in Int /\ 1 <= n
  BY PathIsSeq
<1>. QED
  BY <1>1, <1>2, SubSeqProperties

\* A path begins with another when its first components are the other's.
LEMMA PrefixIs ==
  ASSUME NEW p \in Tree, NEW r \in Tree
  PROVE  /\ IsPrefix(p, r) <=> Len(p) <= Len(r) /\ \A n \in 1 .. Len(p) : r[n] = p[n]
         /\ IsStrictPrefix(p, r) <=> IsPrefix(p, r) /\ Len(p) < Len(r)
<1>0. Len(p) \in Nat \ {0} /\ Len(r) \in Nat \ {0}
  BY PathIsSeq
<1>1. Len(SubSeq(p, 1, Len(p))) = Len(p) /\ \A k \in 1 .. Len(p) : SubSeq(p, 1, Len(p))[k] = p[k]
  BY <1>0, PathBegins
<1>2. ASSUME Len(p) <= Len(r)
      PROVE  IsPrefix(p, r) <=> \A n \in 1 .. Len(p) : r[n] = p[n]
  <2>1. Len(p) \in 1 .. Len(r) /\ Len(p) \in 1 .. Len(p)
    BY <1>0, <1>2
  <2>2. Len(SubSeq(r, 1, Len(p))) = Len(p) /\ \A k \in 1 .. Len(p) : SubSeq(r, 1, Len(p))[k] = r[k]
    BY <2>1, PathBegins
  <2>3. SubSeq(p, 1, Len(p)) \in Tree /\ SubSeq(r, 1, Len(p)) \in Tree
    BY <2>1, PathIsSeq
  <2>4. SubSeq(p, 1, Len(p)) = SubSeq(r, 1, Len(p)) <=> \A n \in 1 .. Len(p) : r[n] = p[n]
    <3>1. (\A n \in 1 .. Len(p) : r[n] = p[n]) => SubSeq(p, 1, Len(p)) = SubSeq(r, 1, Len(p))
      BY <1>1, <2>2, <2>3, PathIsSeq
    <3>2. SubSeq(p, 1, Len(p)) = SubSeq(r, 1, Len(p)) => \A n \in 1 .. Len(p) : r[n] = p[n]
      BY <1>1, <2>2
    <3>. QED
      BY <3>1, <3>2
  <2>. QED
    BY <1>2, <2>4 DEF IsPrefix
<1>3. IsPrefix(p, r) => Len(p) <= Len(r)
  BY DEF IsPrefix
<1>4. IsPrefix(p, r) /\ Len(p) = Len(r) => p = r
  BY <1>0, <1>2, PathIsSeq
<1>. QED
  BY <1>0, <1>2, <1>3, <1>4 DEF IsStrictPrefix

\* Prefixes of a prefix, and two prefixes of one path.
LEMMA PrefixOrder ==
  ASSUME NEW p \in Tree, NEW q \in Tree, NEW r \in Tree
  PROVE  /\ IsPrefix(p, p)
         /\ IsPrefix(p, q) /\ IsPrefix(q, r) => IsPrefix(p, r)
         /\ IsPrefix(p, r) /\ IsPrefix(q, r) => IsPrefix(p, q) \/ IsPrefix(q, p)
         /\ IsPrefix(p, q) => p = q \/ IsStrictPrefix(p, q)
         /\ IsStrictPrefix(p, q) => ~ IsPrefix(q, p) /\ p # q
<1>1. Len(p) \in Nat \ {0} /\ Len(q) \in Nat \ {0} /\ Len(r) \in Nat \ {0}
  BY PathIsSeq
<1>2. IsPrefix(p, p)
  BY PrefixIs, <1>1
<1>3. IsPrefix(p, q) /\ IsPrefix(q, r) => IsPrefix(p, r)
  BY PrefixIs, <1>1
<1>4. IsPrefix(p, r) /\ IsPrefix(q, r) => IsPrefix(p, q) \/ IsPrefix(q, p)
  <2>. SUFFICES ASSUME IsPrefix(p, r), IsPrefix(q, r) PROVE IsPrefix(p, q) \/ IsPrefix(q, p)
    OBVIOUS
  <2>1. (\A n \in 1 .. Len(p) : r[n] = p[n]) /\ (\A n \in 1 .. Len(q) : r[n] = q[n])
    BY PrefixIs
  <2>2. CASE Len(p) <= Len(q)
    <3>1. \A n \in 1 .. Len(p) : q[n] = p[n]
      BY <1>1, <2>1, <2>2
    <3>. QED
      BY <2>2, <3>1, PrefixIs
  <2>3. CASE Len(q) <= Len(p)
    <3>1. \A n \in 1 .. Len(q) : p[n] = q[n]
      BY <1>1, <2>1, <2>3
    <3>. QED
      BY <2>3, <3>1, PrefixIs
  <2>. QED
    BY <1>1, <2>2, <2>3
<1>5. IsPrefix(p, q) => p = q \/ IsStrictPrefix(p, q)
  BY DEF IsStrictPrefix
<1>6. IsStrictPrefix(p, q) => ~ IsPrefix(q, p) /\ p # q
  BY <1>1, PrefixIs
<1>. QED
  BY <1>2, <1>3, <1>4, <1>5, <1>6

\* What a path lies in is its front, or what that lies in.
LEMMA FrontOfPath ==
  ASSUME NEW p \in Tree, NEW r \in Tree, IsStrictPrefix(p, r)
  PROVE  Len(r) > 1 /\ Front(r) \in Tree /\ (p = Front(r) \/ IsStrictPrefix(p, Front(r)))
<1>1. Len(p) \in Nat \ {0} /\ Len(r) \in Nat \ {0} /\ Len(p) < Len(r)
  BY PathIsSeq, PrefixIs
<1>2. Len(r) - 1 \in 1 .. Len(r)
  BY <1>1
<1>3. Front(r) \in Tree /\ Len(Front(r)) = Len(r) - 1 /\ \A k \in 1 .. Len(r) - 1 : Front(r)[k] = r[k]
  BY <1>2, PathIsSeq, PathBegins DEF Front
<1>4. \A n \in 1 .. Len(p) : r[n] = p[n]
  BY PrefixIs
<1>5. IsPrefix(p, Front(r))
  BY <1>1, <1>3, <1>4, PrefixIs
<1>. QED
  BY <1>1, <1>3, <1>5 DEF IsStrictPrefix

\* The path that lies at r, at or below p, once p is called q.
LEMMA RenamedIs ==
  ASSUME NEW p \in Tree, NEW q \in Tree, NEW r \in Tree, IsPrefix(p, r)
  PROVE  LET m == Renamed(p, q, r) IN
         /\ m \in Seq(Components) /\ Len(m) = Len(q) + (Len(r) - Len(p))
         /\ \A n \in 1 .. Len(q) : m[n] = q[n]
         /\ \A n \in Len(p) + 1 .. Len(r) : m[n + Len(q) - Len(p)] = r[n]
<1>. DEFINE tail == SubSeq(r, Len(p) + 1, Len(r))
            m == Renamed(p, q, r)
<1>1. Len(p) \in Nat /\ Len(r) \in Nat /\ Len(q) \in Nat /\ Len(p) <= Len(r)
  BY PathIsSeq, PrefixIs
<1>2. \A i \in Len(p) + 1 .. Len(r) : r[i] \in Components
  BY <1>1, PathIsSeq
<1>3. /\ tail \in Seq(Components) /\ Len(tail) = Len(r) - Len(p)
      /\ \A i \in 1 .. Len(r) - Len(p) : tail[i] = r[Len(p) + i]
  <2>1. /\ tail \in Seq(Components)
        /\ Len(tail) = IF Len(p) + 1 <= Len(r) THEN Len(r) - (Len(p) + 1) + 1 ELSE 0
        /\ \A i \in 1 .. Len(r) - (Len(p) + 1) + 1 : tail[i] = r[Len(p) + 1 + i - 1]
    <3>1. Len(p) + 1 \in Int /\ Len(r) \in Int
      BY <1>1
    <3>. QED
      BY <1>2, <3>1, SubSeqProperties
  <2>. HIDE DEF tail
  <2>. QED
    BY <1>1, <2>1
<1>4. q \in Seq(Components)
  BY PathIsSeq
<1>5. /\ m \in Seq(Components) /\ Len(m) = Len(q) + Len(tail)
      /\ \A i \in 1 .. Len(q) + Len(tail) : m[i] = IF i <= Len(q) THEN q[i] ELSE tail[i - Len(q)]
  <2>1. m = q \o tail
    BY DEF Renamed
  <2>. HIDE DEF tail, m
  <2>2. /\ q \o tail \in Seq(Components) /\ Len(q \o tail) = Len(q) + Len(tail)
        /\ \A i \in 1 .. Len(q) + Len(tail) :
             (q \o tail)[i] = IF i <= Len(q) THEN q[i] ELSE tail[i - Len(q)]
    BY <1>3, <1>4, ConcatProperties
  <2>. QED
    BY <2>1, <2>2
<1>. HIDE DEF tail, m
<1>6. ASSUME NEW n \in 1 .. Len(q) PROVE m[n] = q[n]
  <2>1. n \in 1 .. Len(q) + Len(tail) /\ n <= Len(q)
    BY <1>1, <1>3
  <2>. QED
    BY <1>5, <2>1
<1>7. ASSUME NEW n \in Len(p) + 1 .. Len(r) PROVE m[n + Len(q) - Len(p)] = r[n]
  <2>1. n + Len(q) - Len(p) \in 1 .. Len(q) + Len(tail) /\ ~(n + Len(q) - Len(p) <= Len(q))
    BY <1>1, <1>3
  <2>2. m[n + Len(q) - Len(p)] = tail[n + Len(q) - Len(p) - Len(q)]
    BY <1>5, <2>1
  <2>3. n + Len(q) - Len(p) - Len(q) = n - Len(p) /\ n - Len(p) \in 1 .. Len(r) - Len(p) /\ Len(p) + (n - Len(p)) = n
    BY <1>1
  <2>. QED
    BY <1>3, <2>2, <2>3
<1>8. m = Renamed(p, q, r)
  BY DEF m
<1>. QED
  BY <1>1, <1>3, <1>5, <1>6, <1>7, <1>8

\* It is at or below q, and calling q p again leads back.
LEMMA RenamedBack ==
  ASSUME NEW p \in Tree, NEW q \in Tree, NEW r \in Tree, IsPrefix(p, r), Renamed(p, q, r) \in Tree
  PROVE  /\ IsPrefix(q, Renamed(p, q, r))
         /\ Renamed(q, p, Renamed(p, q, r)) = r
         /\ r = p <=> Renamed(p, q, r) = q
<1>. DEFINE m == Renamed(p, q, r)
            b == Renamed(q, p, m)
<1>0. m \in Tree
  OBVIOUS
<1>1. /\ Len(m) = Len(q) + (Len(r) - Len(p))
      /\ \A n \in 1 .. Len(q) : m[n] = q[n]
      /\ \A n \in Len(p) + 1 .. Len(r) : m[n + Len(q) - Len(p)] = r[n]
  BY RenamedIs
<1>2. /\ Len(p) \in Nat /\ Len(r) \in Nat /\ Len(q) \in Nat /\ Len(p) <= Len(r)
      /\ \A n \in 1 .. Len(p) : r[n] = p[n]
  BY PathIsSeq, PrefixIs
<1>. HIDE DEF m
<1>3. IsPrefix(q, m)
  <2>1. Len(q) <= Len(m)
    BY <1>1, <1>2
  <2>. QED
    BY <1>0, <1>1, <2>1, PrefixIs
<1>4. /\ b \in Seq(Components) /\ Len(b) = Len(p) + (Len(m) - Len(q))
      /\ \A n \in 1 .. Len(p) : b[n] = p[n]
      /\ \A n \in Len(q) + 1 .. Len(m) : b[n + Len(p) - Len(q)] = m[n]
  BY <1>0, <1>3, RenamedIs
<1>. HIDE DEF b
<1>5. Len(b) = Len(r)
  BY <1>1, <1>2, <1>4
<1>6. ASSUME NEW n \in 1 .. Len(r) PROVE b[n] = r[n]
  <2>1. CASE n <= Len(p)
    BY <1>2, <1>4, <2>1
  <2>2. CASE n > Len(p)
    <3>. DEFINE k == n + Len(q) - Len(p)
    <3>1. /\ n \in Len(p) + 1 .. Len(r) /\ k \in Len(q) + 1 .. Len(m) /\ k + Len(p) - Len(q) = n
      BY <1>1, <1>2, <2>2
    <3>. QED
      BY <1>1, <1>4, <3>1
  <2>. QED
    BY <1>2, <2>1, <2>2
<1>7. b = r
  <2>1. r \in Seq(Components)
    BY PathIsSeq
  <2>. QED
    BY <1>4, <1>5, <1>6, <2>1, SeqEqual
<1>8. r = p <=> m = q
  <2>1. r = p <=> Len(r) = Len(p)
    BY <1>2, PathIsSeq
  <2>2. m = q <=> Len(m) = Len(q)
    BY <1>0, <1>1, PathIsSeq
  <2>. QED
    BY <1>1, <1>2, <2>1, <2>2
<1>. QED
  BY <1>3, <1>7, <1>8 DEF m, b

\* A path that is renamed has its new name.
LEMMA RenamedSelf ==
  ASSUME NEW p \in Tree, NEW q \in Tree
  PROVE  Renamed(p, q, p) = q
<1>1. IsPrefix(p, p)
  BY PrefixOrder
<1>2. /\ Renamed(p, q, p) \in Seq(Components) /\ Len(Renamed(p, q, p)) = Len(q) + (Len(p) - Len(p))
      /\ \A n \in 1 .. Len(q) : Renamed(p, q, p)[n] = q[n]
  BY <1>1, RenamedIs
<1>3. Len(p) \in Nat /\ Len(q) \in Nat /\ q \in Seq(Components)
  BY PathIsSeq
<1>4. Len(Renamed(p, q, p)) = Len(q)
  BY <1>2, <1>3
<1>. QED
  BY <1>2, <1>3, <1>4, SeqEqual

\* What lay in a path lies in the renamed one.
LEMMA RenamedBelow ==
  ASSUME NEW p \in Tree, NEW q \in Tree, NEW r \in Tree, NEW x \in Tree,
         IsPrefix(p, x), IsStrictPrefix(x, r), Renamed(p, q, r) \in Tree
  PROVE  Renamed(p, q, x) \in Tree /\ IsStrictPrefix(Renamed(p, q, x), Renamed(p, q, r))
<1>. DEFINE m == Renamed(p, q, r)
            y == Renamed(p, q, x)
<1>0. IsPrefix(p, r) /\ m \in Tree
  BY PrefixOrder DEF IsStrictPrefix
<1>1. /\ m \in Seq(Components) /\ Len(m) = Len(q) + (Len(r) - Len(p))
      /\ \A n \in 1 .. Len(q) : m[n] = q[n]
      /\ \A n \in Len(p) + 1 .. Len(r) : m[n + Len(q) - Len(p)] = r[n]
  BY <1>0, RenamedIs
<1>2. /\ y \in Seq(Components) /\ Len(y) = Len(q) + (Len(x) - Len(p))
      /\ \A n \in 1 .. Len(q) : y[n] = q[n]
      /\ \A n \in Len(p) + 1 .. Len(x) : y[n + Len(q) - Len(p)] = x[n]
  BY RenamedIs
<1>3. /\ Len(p) \in Nat /\ Len(r) \in Nat /\ Len(q) \in Nat \ {0} /\ Len(x) \in Nat
      /\ Len(p) <= Len(x) /\ Len(x) < Len(r) /\ \A n \in 1 .. Len(x) : r[n] = x[n]
  BY PathIsSeq, PrefixIs
<1>. HIDE DEF m, y
<1>4. ASSUME NEW n \in 1 .. Len(y) PROVE m[n] = y[n]
  <2>1. CASE n <= Len(q)
    <3>1. n \in 1 .. Len(q)
      BY <1>3, <2>1
    <3>. QED
      BY <1>1, <1>2, <3>1
  <2>2. CASE n > Len(q)
    <3>. DEFINE k == n + Len(p) - Len(q)
    <3>1. /\ k \in Len(p) + 1 .. Len(x) /\ k \in Len(p) + 1 .. Len(r) /\ k \in 1 .. Len(x)
          /\ k + Len(q) - Len(p) = n
      BY <1>2, <1>3, <2>2
    <3>. QED
      BY <1>1, <1>2, <1>3, <3>1
  <2>. QED
    BY <1>2, <1>3, <2>1, <2>2
<1>5. Len(y) \in 1 .. Len(m) /\ Len(y) < Len(m)
  BY <1>1, <1>2, <1>3
<1>6. y = SubSeq(m, 1, Len(y))
  <2>1. /\ SubSeq(m, 1, Len(y)) \in Tree /\ Len(SubSeq(m, 1, Len(y))) = Len(y)
        /\ \A n \in 1 .. Len(y) : SubSeq(m, 1, Len(y))[n] = m[n]
    BY <1>0, <1>5, PathIsSeq, PathBegins
  <2>2. SubSeq(m, 1, Len(y)) \in Seq(Components)
    BY <2>1, PathIsSeq
  <2>. QED
    BY <1>2, <1>4, <2>1, <2>2, SeqEqual
<1>7. y \in Tree
  BY <1>0, <1>5, <1>6, PathIsSeq
<1>8. IsStrictPrefix(y, m)
  BY <1>0, <1>4, <1>5, <1>7, PrefixIs
<1>. QED
  BY <1>7, <1>8 DEF m, y

(***************************************************************************)
(* The inductive invariant                                                 *)
(***************************************************************************)

\* The host: an inode is in use as long as it has a name, a directory has one
\* name, and what a path lies in is a directory.
InUse == \A i \in Inos : who[i] # Nobody <=> \E p \in Tree : dir[p] = i
OneName == \A p, q \in Tree : IsDir(p) /\ dir[q] = dir[p] => p = q
Ancestors == \A p, q \in Tree : dir[q] # 0 /\ IsStrictPrefix(p, q) => IsDir(p)

\* A path whose file is none of those the code is known to hurt.
Whole(p) == dir[p] # 0 /\ who[dir[p]] \notin hurt

\* Until the tree is copied, an identity has one inode.
OneInode == fits => \A i, j \in Inos : who[i] = who[j] /\ who[i] \in Ids \ hurt => i = j

\* The tables as the open transaction will leave them.
Holder == CHOOSE t \in Users : pc[t].k = "txn"
BadAfter(c) == IF Records(c) THEN badrow \ {c.p} ELSE badrow
PathsThen == IF LockFree THEN paths ELSE PathsAfter(pc[Holder])
StatsThen == IF LockFree THEN stats ELSE StatsAfter(pc[Holder])
BadThen == IF LockFree THEN badrow ELSE BadAfter(pc[Holder])

\* What the properties say holds of these; but a file that is being opened may
\* have no row yet.
OpenAt(i) == \E t \in Users : pc[t].k = "open" /\ dir[pc[t].p] = i
StatsSound ==
  \A p \in Tree : Whole(p) =>
    StatsThen[dir[p]] = who[dir[p]] \/ (StatsThen[dir[p]] = Nobody /\ OpenAt(dir[p]))
PathsSound ==
  \A p \in Tree : Whole(p) /\ p \notin BadThen =>
    PathsThen[p] = dir[p] \/ \E t \in Users : pc[t].k = "open" /\ pc[t].p = p
RowsSound == \A i \in Inos : StatsThen[i] # Nobody /\ i \notin leaked => who[i] # Nobody
Tables == ~ moved \/ mnt = "rebuilt" => StatsSound /\ PathsSound /\ RowsSound

\* What a transaction relies on: what it records is there, a file it has made
\* has no other name and at most a row that was left behind, and whose row it
\* deletes is gone or hurt, if there is a row.
Deletes(c) == \/ c.op = "remove" /\ c.gone
              \/ c.op = "rename" /\ c.old # 0 /\ c.old # dir[c.p]
Txns ==
  \A t \in Users : pc[t].k = "txn" =>
    /\ Records(pc[t]) => dir[pc[t].p] # 0
    /\ pc[t].op = "make" =>
         /\ \A r \in Tree : dir[r] = dir[pc[t].p] => r = pc[t].p
         /\ stats[dir[pc[t].p]] # Nobody => dir[pc[t].p] \in leaked
    /\ pc[t].op = "remove" => pc[t].old # 0
    /\ Deletes(pc[t]) => stats[pc[t].old] = Nobody \/ who[pc[t].old] \in hurt \cup {Nobody}

\* Nothing is called unless the file system is mounted, which it is not on a
\* tree that has been moved.
Quiet ==
  /\ mnt # "on" => \A t \in Users : pc[t] = AtRest
  /\ mnt = "on" => ~moved
  /\ mnt \in {"rebuild", "rebuilt"} => moved
  /\ mnt = "rebuilt" => fits
  /\ ~moved => fits

\* Of a tree that has been moved the tables know every whole file by its path,
\* and paths with one number are links of one file.
Known == \A p \in Tree : Whole(p) => paths[p] # 0 /\ stats[paths[p]] = who[dir[p]]
Apart == \A p, q \in Tree : Whole(p) /\ dir[q] # 0 /\ paths[q] = paths[p] => who[dir[q]] = who[dir[p]]
Together ==
  \A p, q \in Tree : Whole(p) /\ dir[q] # 0 /\ who[dir[q]] = who[dir[p]] =>
    paths[q] = paths[p] /\ (IsDir(p) => q = p)
Moved == moved => Known /\ Apart /\ (fits \/ Together)

\* What fakefs_rebuild has done: a path in its table is the first with its old
\* number; a whole path is a link to that, and has its rows in the new tables.
Done(p) == paths[p] # 0 /\ p \notin rb.todo
TableSound ==
  \A i \in Inos : rb.table[i] # << >> =>
    Done(rb.table[i]) /\ dir[rb.table[i]] # 0 /\ paths[rb.table[i]] = i
Relinked ==
  \A p \in Tree : Done(p) /\ Whole(p) =>
    rb.table[paths[p]] # << >> /\ dir[rb.table[paths[p]]] = dir[p]
NewStats ==
  \A p \in Tree : Done(p) /\ Whole(p) => rb.stats[dir[p]] = who[dir[p]]
NewPaths ==
  \A p \in Tree : Done(p) /\ Whole(p) =>
    /\ rb.paths[p] = dir[p] \/ p \in badrow
    /\ rb.paths[p] # 0 /\ rb.stats[rb.paths[p]] = who[dir[p]]
    /\ who[rb.paths[p]] \in {Nobody, who[dir[p]]}
NewNumbers ==
  \A q \in Tree : rb.paths[q] # 0 =>
    /\ Done(q)
    /\ dir[q] = 0 \/ who[rb.paths[q]] \in hurt \cup {Nobody, who[dir[q]]}
NewApart ==
  \A p, q \in Tree : Done(p) /\ Whole(p) /\ dir[q] # 0 /\ rb.paths[q] = rb.paths[p] =>
    who[dir[q]] = who[dir[p]]

\* The path that is unlinked and not linked again yet: its file is the one at
\* the first path with its number, and of no other whose row is done.
Same(f, g) == f = g \/ (f \in hurt /\ g \in hurt)
Unlinked ==
  rb.at # << >> =>
    /\ rb.at \in rb.todo /\ dir[rb.at] = 0 /\ rb.ino \in Inos /\ rb.file \in Ids
    /\ \A x \in Tree : IsStrictPrefix(x, rb.at) => IsDir(x)
    /\ rb.table[paths[rb.at]] # << >>
    /\ who[rb.ino] \in {Nobody, rb.file}
    /\ Same(who[dir[rb.table[paths[rb.at]]]], rb.file)
    /\ rb.file \notin hurt => stats[paths[rb.at]] = rb.file /\ ~ IsDir(rb.table[paths[rb.at]])
    /\ \A y \in Tree : dir[y] # 0 /\ rb.paths[y] = rb.ino => Same(who[dir[y]], rb.file)
Rebuild ==
  mnt = "rebuild" =>
    /\ \A p \in rb.todo : paths[p] # 0
    /\ TableSound /\ Relinked /\ NewStats /\ NewPaths /\ NewNumbers /\ NewApart
    /\ Unlinked

HostTypes == dir \in [Tree -> Inos \cup {0}] /\ who \in [Inos -> Ids \cup {Nobody}]
HostInv == HostTypes /\ InUse /\ OneName /\ Ancestors
Inv == FakeTypeOK /\ HostInv /\ OneInode /\ Tables /\ Txns /\ Quiet /\ Moved /\ Rebuild

\* With the open transaction named.
ThenFacts ==
  /\ LockFree => PathsThen = paths /\ StatsThen = stats /\ BadThen = badrow
  /\ \A t \in Users : pc[t].k = "txn" =>
       /\ ~ LockFree
       /\ PathsThen = PathsAfter(pc[t]) /\ StatsThen = StatsAfter(pc[t]) /\ BadThen = BadAfter(pc[t])
\* The tables to come are those of the open transaction, if there is one.
LEMMA ThenIs ==
  FakeTypeOK => ThenFacts
<1>1. FakeTypeOK => \A t \in Users : pc[t].k = "txn" => ~ LockFree /\ Holder = t
  BY DEF FakeTypeOK, LockFree, Holder
<1>. QED
  BY <1>1 DEF ThenFacts, PathsThen, StatsThen, BadThen

(***************************************************************************)
(* What a step does to the host                                            *)
(***************************************************************************)

\* A path that exists has a file.
LEMMA FileOfPath ==
  ASSUME HostInv, NEW p \in Tree, dir[p] # 0
  PROVE  dir[p] \in Inos /\ who[dir[p]] \in Ids /\ who[dir[p]] # Nobody
  BY DEF HostInv, HostTypes, InUse

\* Nothing lies in what is no directory, and a directory of the host has no
\* other name.
LEMMA NothingBelow ==
  ASSUME HostInv, NEW p \in Tree, ~ IsDir(p), NEW r \in Tree, IsStrictPrefix(p, r)
  PROVE  dir[r] = 0
  BY DEF HostInv, Ancestors

\* The inodes that lose their last name are freed, and no other.
LEMMA FreedIs ==
  ASSUME HostInv, dir' \in [Tree -> Inos \cup {0}], who' = Freed(dir', who),
         \A x \in Tree : dir'[x] # 0 => \E y \in Tree : dir[y] = dir'[x]
  PROVE  /\ HostTypes' /\ InUse'
         /\ \A x \in Tree : dir'[x] # 0 => who'[dir'[x]] = who[dir'[x]]
         /\ \A i \in Inos : who'[i] = IF LinksOf(dir', i) = {} THEN Nobody ELSE who[i]
<1>1. \A i \in Inos : who'[i] = IF LinksOf(dir', i) = {} THEN Nobody ELSE who[i]
  BY DEF Freed
<1>2. HostTypes'
  BY DEF Freed, HostInv, HostTypes
<1>3. \A x \in Tree : dir'[x] # 0 => who'[dir'[x]] = who[dir'[x]] /\ who[dir'[x]] # Nobody
  <2>. SUFFICES ASSUME NEW x \in Tree, dir'[x] # 0
                PROVE  who'[dir'[x]] = who[dir'[x]] /\ who[dir'[x]] # Nobody
    OBVIOUS
  <2>1. dir'[x] \in Inos /\ x \in LinksOf(dir', dir'[x])
    BY DEF LinksOf
  <2>2. PICK y \in Tree : dir[y] = dir'[x]
    OBVIOUS
  <2>. QED
    BY <1>1, <2>1, <2>2 DEF HostInv, InUse
<1>4. InUse'
  <2>. SUFFICES ASSUME NEW i \in Inos
                PROVE  who'[i] # Nobody <=> \E p \in Tree : dir'[p] = i
    BY DEF InUse
  <2>1. ASSUME NEW p \in Tree, dir'[p] = i PROVE who'[i] # Nobody
    BY <1>3, <2>1, FakeFsAssumption
  <2>2. who'[i] # Nobody => \E p \in Tree : dir'[p] = i
    BY <1>1 DEF LinksOf
  <2>. QED
    BY <2>1, <2>2
<1>. QED
  BY <1>1, <1>2, <1>3, <1>4

\* A file made at a path that is free.
LEMMA HostMakesIs ==
  ASSUME HostInv, NEW p \in Tree, NEW kind \in {FileIds, DirIds}, dir[p] = 0, ParentExists(p),
         HostMakes(p, kind)
  PROVE  \E i \in Inos, f \in kind :
           /\ HostInv' /\ f # Nobody /\ f \in Ids
           /\ who[i] = Nobody /\ f \notin {who[j] : j \in Inos} /\ f \notin hurt
           /\ dir' = [dir EXCEPT ![p] = i] /\ who' = [who EXCEPT ![i] = f]
           /\ \A x \in Tree : x # p => dir'[x] = dir[x] /\ dir[x] # i
           /\ \A x \in Tree : dir[x] # 0 => who'[dir[x]] = who[dir[x]]
<1>1. PICK i \in Inos, f \in Fresh(kind) :
        /\ who[i] = Nobody
        /\ dir' = [dir EXCEPT ![p] = i] /\ who' = [who EXCEPT ![i] = f]
  BY DEF HostMakes
<1>2. f \in kind /\ f \notin {who[j] : j \in Inos} /\ f \notin hurt /\ f \in Ids /\ f # Nobody
  <2>. DEFINE unused == {g \in kind : g \notin {who[j] : j \in Inos} \cup {stats[j] : j \in Inos} \cup hurt}
  <2>1. f \in unused
    BY DEF Fresh
  <2>. QED
    BY <2>1, FakeFsAssumption DEF Ids
<1>3. \A x \in Tree : dir[x] # i
  BY <1>1 DEF HostInv, InUse
<1>4. \A x \in Tree : x # p => dir'[x] = dir[x]
  BY <1>1 DEF HostInv, HostTypes
<1>5. dir'[p] = i /\ who'[i] = f /\ \A j \in Inos : j # i => who'[j] = who[j]
  BY <1>1 DEF HostInv, HostTypes
<1>6. \A x \in Tree : dir[x] # 0 => who'[dir[x]] = who[dir[x]]
  BY <1>3, <1>5 DEF HostInv, HostTypes
<1>7. HostTypes'
  BY <1>1, <1>2 DEF HostInv, HostTypes
<1>8. InUse'
  BY <1>2, <1>3, <1>4, <1>5, FakeFsAssumption DEF HostInv, HostTypes, InUse
<1>9. \A x \in Tree : IsDir(x) => x # p /\ dir'[x] = dir[x] /\ IsDir(x)'
  BY <1>4, <1>6 DEF IsDir
<1>10. OneName'
  <2>. SUFFICES ASSUME NEW x \in Tree, NEW y \in Tree, IsDir(x)', dir'[y] = dir'[x] PROVE x = y
    BY DEF OneName
  <2>1. CASE x = p
    BY <1>3, <1>4, <1>5, <2>1
  <2>2. CASE x # p
    <3>1. dir'[x] = dir[x] /\ IsDir(x)
      BY <1>4, <1>6, <2>2 DEF IsDir
    <3>2. y # p /\ dir[y] = dir[x]
      BY <1>3, <1>4, <1>5, <3>1
    <3>. QED
      BY <3>1, <3>2 DEF HostInv, OneName
  <2>. QED
    BY <2>1, <2>2
<1>11. Ancestors'
  <2>. SUFFICES ASSUME NEW x \in Tree, NEW y \in Tree, dir'[y] # 0, IsStrictPrefix(x, y) PROVE IsDir(x)'
    BY DEF Ancestors
  <2>1. CASE y = p
    <3>1. Front(p) \in Tree /\ IsDir(Front(p)) /\ (x = Front(p) \/ IsStrictPrefix(x, Front(p)))
      BY <2>1, FrontOfPath DEF ParentExists
    <3>2. dir[Front(p)] # 0
      BY <3>1 DEF IsDir
    <3>3. IsDir(x)
      BY <3>1, <3>2 DEF HostInv, Ancestors
    <3>. QED
      BY <1>9, <3>3
  <2>2. CASE y # p
    <3>1. dir[y] # 0
      BY <1>4, <2>2
    <3>2. IsDir(x)
      BY <3>1 DEF HostInv, Ancestors
    <3>. QED
      BY <1>9, <3>2
  <2>. QED
    BY <2>1, <2>2
<1>12. f \in kind
  BY <1>2
<1>13. HostInv'
  BY <1>7, <1>8, <1>10, <1>11 DEF HostInv
<1>. QED
  BY <1>1, <1>2, <1>3, <1>4, <1>6, <1>12, <1>13

\* A path that goes away, with nothing below it.
LEMMA HostRemovesIs ==
  ASSUME HostInv, NEW p \in Tree, dir[p] # 0, \A r \in Below(p) : dir[r] = 0, HostRemoves(p)
  PROVE  /\ HostInv'
         /\ dir'[p] = 0
         /\ \A x \in Tree : x # p => dir'[x] = dir[x]
         /\ \A x \in Tree : dir'[x] # 0 => who'[dir'[x]] = who[dir[x]]
         /\ \A i \in Inos : who'[i] = IF LinksOf(dir', i) = {} THEN Nobody ELSE who[i]
<1>1. dir' = [dir EXCEPT ![p] = 0] /\ who' = Freed(dir', who)
  BY DEF HostRemoves
<1>2. /\ dir' \in [Tree -> Inos \cup {0}] /\ dir'[p] = 0
      /\ \A x \in Tree : x # p => dir'[x] = dir[x]
  BY <1>1 DEF HostInv, HostTypes
<1>3. /\ HostTypes' /\ InUse'
      /\ \A x \in Tree : dir'[x] # 0 => who'[dir'[x]] = who[dir'[x]]
      /\ \A i \in Inos : who'[i] = IF LinksOf(dir', i) = {} THEN Nobody ELSE who[i]
  BY <1>1, <1>2, FreedIs
<1>4. \A x \in Tree : dir'[x] # 0 => who'[dir'[x]] = who[dir[x]] /\ dir'[x] = dir[x]
  BY <1>2, <1>3
<1>5. OneName'
  BY <1>2, <1>4 DEF OneName, IsDir, HostInv
<1>6. Ancestors'
  <2>. SUFFICES ASSUME NEW x \in Tree, NEW y \in Tree, dir'[y] # 0, IsStrictPrefix(x, y) PROVE IsDir(x)'
    BY DEF Ancestors
  <2>1. dir[y] # 0
    BY <1>4
  <2>2. IsDir(x) /\ x # p
    BY <2>1 DEF HostInv, Ancestors, Below
  <2>. QED
    BY <1>2, <1>3, <2>2 DEF IsDir
<1>. QED
  BY <1>2, <1>3, <1>4, <1>5, <1>6 DEF HostInv

\* A link to a file.
LEMMA HostLinks ==
  ASSUME HostInv, NEW p \in Tree, NEW q \in Tree, dir[p] # 0, ~ IsDir(p), dir[q] = 0, ParentExists(q),
         dir' = [dir EXCEPT ![q] = dir[p]], who' = who
  PROVE  HostInv' /\ dir'[q] = dir[p] /\ \A x \in Tree : x # q => dir'[x] = dir[x]
<1>1. dir'[q] = dir[p] /\ \A x \in Tree : x # q => dir'[x] = dir[x]
  BY DEF HostInv, HostTypes
<1>2. HostTypes'
  BY DEF HostInv, HostTypes
<1>3. InUse'
  BY <1>1, FakeFsAssumption DEF HostInv, InUse
<1>4. \A x \in Tree : IsDir(x) => x # q /\ IsDir(x)'
  BY <1>1 DEF IsDir
<1>5. \A x \in Tree : IsDir(x)' => x # q /\ IsDir(x)
  BY <1>1 DEF IsDir
<1>6. OneName'
  BY <1>1, <1>5 DEF OneName, IsDir, HostInv
<1>7. Ancestors'
  <2>. SUFFICES ASSUME NEW x \in Tree, NEW y \in Tree, dir'[y] # 0, IsStrictPrefix(x, y) PROVE IsDir(x)'
    BY DEF Ancestors
  <2>1. CASE y = q
    <3>1. Front(q) \in Tree /\ IsDir(Front(q)) /\ (x = Front(q) \/ IsStrictPrefix(x, Front(q)))
      BY <2>1, FrontOfPath DEF ParentExists
    <3>2. dir[Front(q)] # 0
      BY <3>1 DEF IsDir
    <3>3. IsDir(x)
      BY <3>1, <3>2 DEF HostInv, Ancestors
    <3>. QED
      BY <1>4, <3>3
  <2>2. CASE y # q
    <3>1. IsDir(x)
      BY <1>1, <2>2 DEF HostInv, Ancestors
    <3>. QED
      BY <1>4, <3>1
  <2>. QED
    BY <2>1, <2>2
<1>. QED
  BY <1>1, <1>2, <1>3, <1>6, <1>7 DEF HostInv

\* Different paths have different origins.
LEMMA OriginIs ==
  ASSUME NEW p \in Tree, NEW q \in Tree, ~ IsPrefix(p, q), ~ IsPrefix(q, p)
  PROVE  /\ Origin(p, q, q) = p
         /\ \A x \in Tree : ~ IsPrefix(p, x) /\ Origin(p, q, x) \in Tree =>
              /\ IsPrefix(p, Origin(p, q, x)) <=> IsPrefix(q, x)
              /\ IsStrictPrefix(p, Origin(p, q, x)) <=> IsStrictPrefix(q, x)
              /\ \A y \in Tree : ~ IsPrefix(p, y) /\ Origin(p, q, y) = Origin(p, q, x) => y = x
         /\ \A x \in Tree : IsPrefix(p, x) /\ Renamed(p, q, x) \in Tree =>
              /\ ~ IsPrefix(p, Renamed(p, q, x)) /\ IsPrefix(q, Renamed(p, q, x))
              /\ Origin(p, q, Renamed(p, q, x)) = x
         /\ \A x \in Tree : ~ (IsPrefix(p, x) /\ IsPrefix(q, x))
<1>1. \A x \in Tree : ~ (IsPrefix(p, x) /\ IsPrefix(q, x))
  BY PrefixOrder
<1>2. Origin(p, q, q) = p
  <2>1. IsPrefix(q, q)
    BY PrefixOrder
  <2>. QED
    BY <2>1, RenamedSelf DEF Origin
<1>3. ASSUME NEW x \in Tree, ~ IsPrefix(p, x), Origin(p, q, x) \in Tree
      PROVE  /\ IsPrefix(p, Origin(p, q, x)) <=> IsPrefix(q, x)
             /\ IsStrictPrefix(p, Origin(p, q, x)) <=> IsStrictPrefix(q, x)
             /\ IsPrefix(q, x) => Renamed(p, q, Origin(p, q, x)) = x
  <2>1. CASE IsPrefix(q, x)
    <3>1. Origin(p, q, x) = Renamed(q, p, x)
      BY <2>1 DEF Origin
    <3>2. /\ IsPrefix(p, Origin(p, q, x)) /\ Renamed(p, q, Origin(p, q, x)) = x
          /\ x = q <=> Origin(p, q, x) = p
      BY <1>3, <2>1, <3>1, RenamedBack
    <3>. QED
      BY <2>1, <3>2 DEF IsStrictPrefix
  <2>2. CASE ~ IsPrefix(q, x)
    <3>1. Origin(p, q, x) = x
      BY <2>2 DEF Origin
    <3>. QED
      BY <1>3, <2>2, <3>1 DEF IsStrictPrefix
  <2>. QED
    BY <2>1, <2>2
<1>4. ASSUME NEW x \in Tree, ~ IsPrefix(p, x), Origin(p, q, x) \in Tree,
             NEW y \in Tree, ~ IsPrefix(p, y), Origin(p, q, y) = Origin(p, q, x)
      PROVE  y = x
  <2>1. Origin(p, q, y) \in Tree
    BY <1>4
  <2>2. /\ IsPrefix(p, Origin(p, q, x)) <=> IsPrefix(q, x)
        /\ IsPrefix(q, x) => Renamed(p, q, Origin(p, q, x)) = x
    BY <1>3, <1>4
  <2>3. /\ IsPrefix(p, Origin(p, q, y)) <=> IsPrefix(q, y)
        /\ IsPrefix(q, y) => Renamed(p, q, Origin(p, q, y)) = y
    BY <1>3, <1>4, <2>1
  <2>4. CASE IsPrefix(q, x)
    BY <1>4, <2>2, <2>3, <2>4
  <2>5. CASE ~ IsPrefix(q, x)
    <3>1. ~ IsPrefix(q, y)
      BY <1>4, <2>2, <2>3, <2>5
    <3>. QED
      BY <1>4, <2>5, <3>1 DEF Origin
  <2>. QED
    BY <2>4, <2>5
<1>5. ASSUME NEW x \in Tree, IsPrefix(p, x), Renamed(p, q, x) \in Tree
      PROVE  /\ ~ IsPrefix(p, Renamed(p, q, x)) /\ IsPrefix(q, Renamed(p, q, x))
             /\ Origin(p, q, Renamed(p, q, x)) = x
  <2>1. IsPrefix(q, Renamed(p, q, x)) /\ Renamed(q, p, Renamed(p, q, x)) = x
    BY <1>5, RenamedBack
  <2>. QED
    BY <1>1, <1>5, <2>1 DEF Origin
<1>. QED
  BY <1>1, <1>2, <1>3, <1>4, <1>5

\* A rename on the host: q is what p was, what lay below p lies below q, and
\* all else stays where it is.
LEMMA HostRenames ==
  ASSUME HostInv, NEW p \in Tree, NEW q \in Tree, dir[p] # 0, dir[p] # dir[q], ParentExists(q),
         ~ IsPrefix(p, q), ~ IsPrefix(q, p),
         dir[q] # 0 => (IsDir(p) <=> IsDir(q)) /\ \A r \in Below(q) : dir[r] = 0,
         \A r \in Below(p) : dir[r] # 0 => Renamed(p, q, r) \in Tree,
         dir' = Renaming(p, q), who' = Freed(dir', who)
  PROVE  /\ HostInv' /\ dir'[q] = dir[p]
         /\ \A x \in Tree : IsPrefix(p, x) => dir'[x] = 0
         /\ \A x \in Tree : ~ IsPrefix(p, x) /\ ~ IsPrefix(q, x) => dir'[x] = dir[x]
         /\ \A x \in Tree : IsStrictPrefix(q, x) /\ dir'[x] # 0 =>
              \E r \in Below(p) : dir[r] # 0 /\ dir'[x] = dir[r]
         /\ \A x \in Tree : dir[x] # 0 /\ dir[x] # dir[q] => \E y \in Tree : dir'[y] = dir[x]
         /\ \A x \in Tree : IsStrictPrefix(q, x) => dir[x] = 0
         /\ \A x \in Tree : dir'[x] # 0 => who'[dir'[x]] = who[dir'[x]]
         /\ \A i \in Inos : who'[i] = IF LinksOf(dir', i) = {} THEN Nobody ELSE who[i]
<1>1. /\ Origin(p, q, q) = p
      /\ \A x \in Tree : ~ IsPrefix(p, x) /\ Origin(p, q, x) \in Tree =>
           /\ IsPrefix(p, Origin(p, q, x)) <=> IsPrefix(q, x)
           /\ IsStrictPrefix(p, Origin(p, q, x)) <=> IsStrictPrefix(q, x)
           /\ \A y \in Tree : ~ IsPrefix(p, y) /\ Origin(p, q, y) = Origin(p, q, x) => y = x
      /\ \A x \in Tree : IsPrefix(p, x) /\ Renamed(p, q, x) \in Tree =>
           /\ ~ IsPrefix(p, Renamed(p, q, x)) /\ IsPrefix(q, Renamed(p, q, x))
           /\ Origin(p, q, Renamed(p, q, x)) = x
      /\ \A x \in Tree : ~ (IsPrefix(p, x) /\ IsPrefix(q, x))
  BY OriginIs
<1>2. \A x \in Tree : dir'[x] = IF IsPrefix(p, x) \/ Origin(p, q, x) \notin Tree THEN 0
                                ELSE dir[Origin(p, q, x)]
  BY DEF Renaming
<1>3. dir' \in [Tree -> Inos \cup {0}]
  BY DEF Renaming, HostInv, HostTypes
<1>4. \A x \in Tree : dir'[x] # 0 =>
        ~ IsPrefix(p, x) /\ Origin(p, q, x) \in Tree /\ dir'[x] = dir[Origin(p, q, x)]
  BY <1>2
<1>5. /\ HostTypes' /\ InUse'
      /\ \A x \in Tree : dir'[x] # 0 => who'[dir'[x]] = who[dir'[x]]
      /\ \A i \in Inos : who'[i] = IF LinksOf(dir', i) = {} THEN Nobody ELSE who[i]
  <2>1. \A x \in Tree : dir'[x] # 0 => \E y \in Tree : dir[y] = dir'[x]
    BY <1>4
  <2>. QED
    BY <1>3, <2>1, FreedIs
<1>6. dir'[q] = dir[p]
  BY <1>1, <1>2
<1>7. \A x \in Tree : ~ IsPrefix(p, x) /\ ~ IsPrefix(q, x) => dir'[x] = dir[x]
  BY <1>2 DEF Origin
<1>8. \A x \in Tree : IsStrictPrefix(q, x) /\ dir'[x] # 0 =>
        \E r \in Below(p) : dir[r] # 0 /\ dir'[x] = dir[r]
  BY <1>1, <1>4 DEF Below
<1>9. ASSUME NEW x \in Tree, IsStrictPrefix(q, x) PROVE dir[x] = 0
  <2>1. CASE dir[q] # 0
    BY <1>9, <2>1 DEF Below
  <2>2. CASE dir[q] = 0
    BY <1>9, <2>2, NothingBelow DEF IsDir
  <2>. QED
    BY <2>1, <2>2
<1>10. ASSUME NEW x \in Tree, dir[x] # 0, dir[x] # dir[q] PROVE \E y \in Tree : dir'[y] = dir[x]
  <2>1. CASE IsPrefix(p, x)
    <3>1. Renamed(p, q, x) \in Tree
      <4>1. CASE x = p
        BY <4>1, RenamedSelf
      <4>2. CASE x # p
        <5>1. x \in Below(p)
          BY <2>1, <4>2, PrefixOrder DEF Below
        <5>. QED
          BY <1>10, <5>1
      <4>. QED
        BY <4>1, <4>2
    <3>. QED
      BY <1>1, <1>2, <2>1, <3>1
  <2>2. CASE ~ IsPrefix(p, x)
    <3>1. ~ IsPrefix(q, x)
      BY <1>9, <1>10, PrefixOrder
    <3>. QED
      BY <1>7, <2>2, <3>1
  <2>. QED
    BY <2>1, <2>2
<1>11. \A x \in Tree : IsDir(x)' => Origin(p, q, x) \in Tree /\ IsDir(Origin(p, q, x)) /\ ~ IsPrefix(p, x)
  BY <1>4, <1>5 DEF IsDir
<1>12. ASSUME NEW x \in Tree, ~ IsPrefix(p, x), Origin(p, q, x) \in Tree, IsDir(Origin(p, q, x))
       PROVE  IsDir(x)'
  <2>1. dir'[x] = dir[Origin(p, q, x)]
    BY <1>2, <1>12
  <2>. QED
    BY <1>5, <1>12, <2>1 DEF IsDir
<1>13. OneName'
  <2>. SUFFICES ASSUME NEW x \in Tree, NEW y \in Tree, IsDir(x)', dir'[y] = dir'[x] PROVE x = y
    BY DEF OneName
  <2>1. Origin(p, q, x) \in Tree /\ IsDir(Origin(p, q, x)) /\ ~ IsPrefix(p, x) /\ dir'[x] # 0
    BY <1>11 DEF IsDir
  <2>2. /\ Origin(p, q, y) \in Tree /\ ~ IsPrefix(p, y)
        /\ dir[Origin(p, q, y)] = dir[Origin(p, q, x)]
    BY <1>4, <2>1
  <2>3. Origin(p, q, y) = Origin(p, q, x)
    BY <2>1, <2>2 DEF HostInv, OneName
  <2>. QED
    BY <1>1, <2>1, <2>2, <2>3
<1>14. Ancestors'
  <2>. SUFFICES ASSUME NEW a \in Tree, NEW z \in Tree, dir'[z] # 0, IsStrictPrefix(a, z) PROVE IsDir(a)'
    BY DEF Ancestors
  <2>1. ~ IsPrefix(p, z) /\ Origin(p, q, z) \in Tree /\ dir[Origin(p, q, z)] # 0
    BY <1>4
  <2>2. IsPrefix(a, z)
    BY DEF IsStrictPrefix
  <2>3. ~ IsPrefix(p, a)
    BY <2>1, <2>2, PrefixOrder
  <2>4. CASE IsPrefix(q, z) /\ IsPrefix(q, a)
    <3>1. Origin(p, q, z) = Renamed(q, p, z) /\ Origin(p, q, a) = Renamed(q, p, a)
      BY <2>4 DEF Origin
    <3>2. Origin(p, q, a) \in Tree /\ IsStrictPrefix(Origin(p, q, a), Origin(p, q, z))
      BY <2>1, <2>4, <3>1, RenamedBelow
    <3>3. IsDir(Origin(p, q, a))
      BY <2>1, <3>2 DEF HostInv, Ancestors
    <3>. QED
      BY <1>12, <2>3, <3>2, <3>3
  <2>5. CASE IsPrefix(q, z) /\ ~ IsPrefix(q, a)
    <3>1. IsStrictPrefix(a, q)
      BY <2>2, <2>5, PrefixOrder
    <3>2. Front(q) \in Tree /\ IsDir(Front(q)) /\ (a = Front(q) \/ IsStrictPrefix(a, Front(q)))
      BY <3>1, FrontOfPath DEF ParentExists
    <3>3. dir[Front(q)] # 0
      BY <3>2 DEF IsDir
    <3>4. IsDir(a)
      BY <3>2, <3>3 DEF HostInv, Ancestors
    <3>5. Origin(p, q, a) = a
      BY <2>5 DEF Origin
    <3>. QED
      BY <1>12, <2>3, <3>4, <3>5
  <2>6. CASE ~ IsPrefix(q, z)
    <3>1. ~ IsPrefix(q, a)
      BY <2>2, <2>6, PrefixOrder
    <3>2. Origin(p, q, z) = z /\ Origin(p, q, a) = a
      BY <2>6, <3>1 DEF Origin
    <3>3. IsDir(a)
      BY <2>1, <3>2 DEF HostInv, Ancestors
    <3>. QED
      BY <1>12, <2>3, <3>2, <3>3
  <2>. QED
    BY <2>4, <2>5, <2>6
<1>15. \A x \in Tree : IsPrefix(p, x) => dir'[x] = 0
  BY <1>2
<1>16. HostInv'
  BY <1>5, <1>13, <1>14 DEF HostInv
<1>. QED
  BY <1>5, <1>6, <1>7, <1>8, <1>9, <1>10, <1>15, <1>16

\* Every path of a copy has an inode of its own, with what the path had.
LEMMA HostCopied ==
  ASSUME HostInv, dir' \in [Tree -> Inos \cup {0}],
         \A p \in Tree : (dir'[p] = 0) = (dir[p] = 0),
         \A p, q \in Tree : dir'[p] # 0 /\ p # q => dir'[p] # dir'[q],
         who' = [i \in Inos |-> IF LinksOf(dir', i) = {} THEN Nobody
                                ELSE who[dir[CHOOSE p \in Tree : dir'[p] = i]]]
  PROVE  HostInv' /\ \A x \in Tree : dir[x] # 0 => dir'[x] # 0 /\ who'[dir'[x]] = who[dir[x]]
<1>1. ASSUME NEW x \in Tree, dir[x] # 0
      PROVE  dir'[x] # 0 /\ dir'[x] \in Inos /\ who'[dir'[x]] = who[dir[x]]
  <2>1. dir'[x] \in Inos /\ dir'[x] # 0
    BY <1>1
  <2>2. x \in LinksOf(dir', dir'[x])
    BY DEF LinksOf
  <2>3. (CHOOSE p \in Tree : dir'[p] = dir'[x]) = x
    <3>. DEFINE c == CHOOSE p \in Tree : dir'[p] = dir'[x]
    <3>1. c \in Tree /\ dir'[c] = dir'[x]
      OBVIOUS
    <3>. HIDE DEF c
    <3>2. c = x
      BY <2>1, <3>1
    <3>. QED
      BY <3>2 DEF c
  <2>. QED
    BY <2>1, <2>2, <2>3
<1>2. \A i \in Inos : LinksOf(dir', i) = {} => who'[i] = Nobody
  OBVIOUS
<1>3. ASSUME NEW i \in Inos, LinksOf(dir', i) # {}
      PROVE  \E x \in Tree : dir'[x] = i /\ dir[x] # 0 /\ who'[i] = who[dir[x]] /\ who'[i] \in Ids /\ who'[i] # Nobody
  <2>1. PICK x \in Tree : dir'[x] = i
    BY <1>3 DEF LinksOf
  <2>2. dir[x] # 0
    BY <2>1, FakeFsAssumption
  <2>3. who[dir[x]] \in Ids /\ who[dir[x]] # Nobody
    BY <2>2, FileOfPath
  <2>. QED
    BY <1>1, <2>1, <2>2, <2>3
<1>4. HostTypes'
  <2>1. \A i \in Inos : who'[i] \in Ids \cup {Nobody}
    BY <1>2, <1>3
  <2>. QED
    BY <2>1 DEF HostTypes
<1>5. InUse'
  BY <1>2, <1>3 DEF InUse, LinksOf
<1>6. \A x \in Tree : IsDir(x) <=> IsDir(x)'
  BY <1>1 DEF IsDir
<1>7. OneName'
  BY DEF OneName, IsDir
<1>8. Ancestors'
  BY <1>6 DEF Ancestors, HostInv
<1>. QED
  BY <1>1, <1>4, <1>5, <1>7, <1>8 DEF HostInv

(***************************************************************************)
(* What every call has in common                                           *)
(***************************************************************************)

\* Only a mounted file system is called, and its tables are about its tree.
LEMMA OnCall ==
  ASSUME Inv, NEW t \in Users, mnt = "on" \/ pc[t] # AtRest, UNCHANGED mounting
  PROVE  /\ ~ moved /\ fits /\ mnt = "on"
         /\ StatsSound /\ PathsSound /\ RowsSound
         /\ Quiet' /\ Moved' /\ Rebuild'
         /\ StatsSound' /\ PathsSound' /\ RowsSound' => Tables'
<1>1. mnt = "on" /\ ~ moved /\ fits
  BY DEF Inv, Quiet
<1>2. mnt' = mnt /\ moved' = moved /\ fits' = fits
  BY DEF mounting
<1>3. StatsSound /\ PathsSound /\ RowsSound
  BY <1>1 DEF Inv, Tables
<1>4. Quiet' /\ Moved' /\ Rebuild'
  BY <1>1, <1>2 DEF Quiet, Moved, Rebuild
<1>5. StatsSound' /\ PathsSound' /\ RowsSound' => Tables'
  BY DEF Tables
<1>. QED
  BY <1>1, <1>3, <1>4, <1>5

\* No identity gets a second inode when inodes are only freed.
LEMMA OneInodeStays ==
  ASSUME Inv, HostInv', \A i \in Inos : who'[i] \in {who[i], Nobody}, hurt \subseteq hurt', fits' = fits
  PROVE  OneInode'
  BY FakeFsAssumption DEF Inv, OneInode, HostInv, HostTypes

\* A call that begins its transaction.
LEMMA BeginsTxn ==
  ASSUME FakeTypeOK, NEW t \in Users, LockFree, NEW c \in Phases, c.k = "txn",
         pc' = [pc EXCEPT ![t] = c], UNCHANGED <<tables, badrow>>
  PROVE  /\ PathsThen = paths /\ StatsThen = stats /\ BadThen = badrow
         /\ pc' \in [Users -> Phases] /\ ~ LockFree'
         /\ \A u, v \in Users : pc'[u].k = "txn" /\ pc'[v].k = "txn" => u = v
         /\ pc'[t] = c /\ \A u \in Users : pc'[u].k = "txn" => u = t
         /\ \A u \in Users : u # t => pc'[u] = pc[u]
         /\ PathsThen' = PathsAfter(c)' /\ StatsThen' = StatsAfter(c)' /\ BadThen' = BadAfter(c)'
<1>1. PathsThen = paths /\ StatsThen = stats /\ BadThen = badrow
  BY DEF PathsThen, StatsThen, BadThen
<1>2. /\ pc' \in [Users -> Phases] /\ pc'[t] = c
      /\ \A u \in Users : u # t => pc'[u] = pc[u]
  BY DEF FakeTypeOK
<1>3. \A u \in Users : pc'[u].k = "txn" => u = t
  BY <1>2 DEF LockFree
<1>4. ~ LockFree' /\ Holder' = t
  BY <1>2, <1>3 DEF LockFree, Holder
<1>5. PathsThen' = PathsAfter(c)' /\ StatsThen' = StatsAfter(c)' /\ BadThen' = BadAfter(c)'
  BY <1>2, <1>4 DEF PathsThen, StatsThen, BadThen, PathsAfter, StatsAfter, BadAfter
<1>. QED
  BY <1>1, <1>2, <1>3, <1>4, <1>5

\* A step that ends a call with no transaction open, or with its own.
LEMMA EndsCall ==
  ASSUME FakeTypeOK, NEW t \in Users, \A u \in Users : pc[u].k = "txn" => u = t, NEW c \in Phases, c.k # "txn",
         pc' = [pc EXCEPT ![t] = c]
  PROVE  /\ PathsThen' = paths' /\ StatsThen' = stats' /\ BadThen' = badrow'
         /\ pc' \in [Users -> Phases] /\ LockFree'
         /\ pc'[t] = c /\ \A u \in Users : u # t => pc'[u] = pc[u]
         /\ \A u, v \in Users : pc'[u].k = "txn" /\ pc'[v].k = "txn" => u = v
<1>1. /\ pc' \in [Users -> Phases] /\ pc'[t] = c
      /\ \A u \in Users : u # t => pc'[u] = pc[u]
  BY DEF FakeTypeOK
<1>2. LockFree'
  BY <1>1 DEF LockFree
<1>3. \A u, v \in Users : pc'[u].k = "txn" /\ pc'[v].k = "txn" => u = v
  BY <1>2 DEF LockFree
<1>. QED
  BY <1>1, <1>2, <1>3 DEF PathsThen, StatsThen, BadThen

\* A step of a task that has no transaction open: another's stays as it is, as
\* long as the path it is about keeps its file.
LEMMA OtherTxn ==
  ASSUME FakeTypeOK, NEW t \in Users, pc[t].k # "txn", NEW c \in Phases, c.k # "txn",
         pc' = [pc EXCEPT ![t] = c], UNCHANGED <<tables, badrow>>,
         \A u \in Users : pc[u].k = "txn" /\ Records(pc[u]) =>
           dir'[pc[u].p] = dir[pc[u].p] /\ who'[dir[pc[u].p]] = who[dir[pc[u].p]]
  PROVE  /\ PathsThen' = PathsThen /\ StatsThen' = StatsThen /\ BadThen' = BadThen
         /\ pc' \in [Users -> Phases] /\ (LockFree' <=> LockFree)
         /\ \A u, v \in Users : pc'[u].k = "txn" /\ pc'[v].k = "txn" => u = v
         /\ pc'[t] = c /\ \A u \in Users : u # t => pc'[u] = pc[u]
<1>1. /\ pc' \in [Users -> Phases] /\ pc'[t] = c
      /\ \A u \in Users : u # t => pc'[u] = pc[u]
  BY DEF FakeTypeOK
<1>2. \A u, v \in Users : pc'[u].k = "txn" /\ pc'[v].k = "txn" => u = v
  BY <1>1 DEF FakeTypeOK
<1>3. (LockFree' <=> LockFree)
  BY <1>1 DEF LockFree
<1>4. CASE LockFree
  <2>1. paths' = paths /\ stats' = stats /\ badrow' = badrow /\ LockFree'
    BY <1>3, <1>4 DEF tables
  <2>. QED
    BY <1>1, <1>2, <1>3, <1>4, <2>1 DEF PathsThen, StatsThen, BadThen
<1>5. CASE ~ LockFree
  <2>1. PICK u \in Users : pc[u].k = "txn"
    BY <1>5 DEF LockFree
  <2>2. Holder = u /\ Holder' = u /\ pc'[u] = pc[u]
    BY <1>1, <1>2, <2>1 DEF Holder, FakeTypeOK
  <2>3. /\ Records(pc[u]) => dir'[pc[u].p] = dir[pc[u].p] /\ who'[dir[pc[u].p]] = who[dir[pc[u].p]]
        /\ pc[u].op \in {"make", "rename"} => Records(pc[u])
    BY <2>1 DEF Records
  <2>4. paths' = paths /\ stats' = stats /\ badrow' = badrow
    BY DEF tables
  <2>5. PathsThen = PathsAfter(pc[u]) /\ StatsThen = StatsAfter(pc[u]) /\ BadThen = BadAfter(pc[u])
    BY <1>5, <2>2 DEF PathsThen, StatsThen, BadThen
  <2>6. PathsThen' = PathsAfter(pc[u])' /\ StatsThen' = StatsAfter(pc[u])' /\ BadThen' = BadAfter(pc[u])'
    BY <1>3, <1>5, <2>2 DEF PathsThen, StatsThen, BadThen
  <2>7. PathsAfter(pc[u])' = PathsAfter(pc[u])
    BY <2>2, <2>3, <2>4 DEF PathsAfter, Records
  <2>8. StatsAfter(pc[u])' = StatsAfter(pc[u])
    BY <2>2, <2>3, <2>4 DEF StatsAfter
  <2>9. BadAfter(pc[u])' = BadAfter(pc[u])
    BY <2>2, <2>4 DEF BadAfter, Records
  <2>. QED
    BY <1>1, <1>2, <1>3, <2>5, <2>6, <2>7, <2>8, <2>9
<1>. QED
  BY <1>4, <1>5

\* What an open transaction will put in the tables.
LEMMA ThenTypes ==
  ASSUME Inv
  PROVE  /\ PathsThen \in [Tree -> Inos \cup {0}]
         /\ StatsThen \in [Inos -> Ids \cup {Nobody}]
         /\ \A i \in Inos : who[i] = Nobody /\ StatsThen[i] # Nobody => stats[i] # Nobody
<1>0. FakeTypeOK /\ HostInv /\ ThenFacts
  BY ThenIs DEF Inv
<1>1. CASE LockFree
  BY <1>0, <1>1 DEF ThenFacts, FakeTypeOK
<1>2. CASE ~ LockFree
  <2>1. PICK u \in Users : pc[u].k = "txn"
    BY <1>2 DEF LockFree
  <2>2. PathsThen = PathsAfter(pc[u]) /\ StatsThen = StatsAfter(pc[u])
    BY <1>0, <2>1 DEF ThenFacts
  <2>3. pc[u].p \in Tree /\ pc[u].old \in Inos \cup {0}
    BY <2>1, <1>0 DEF FakeTypeOK, Phases
  <2>4. PathsThen \in [Tree -> Inos \cup {0}]
    BY <1>0, <2>2, <2>3 DEF PathsAfter, FakeTypeOK
  <2>5. CASE pc[u].op = "make"
    <3>1. dir[pc[u].p] \in Inos /\ who[dir[pc[u].p]] \in Ids /\ who[dir[pc[u].p]] # Nobody
      BY <1>0, <2>1, <2>3, <2>5, FileOfPath DEF Inv, Txns, Records
    <3>2. StatsThen = [stats EXCEPT ![dir[pc[u].p]] = who[dir[pc[u].p]]]
      BY <2>2, <2>5 DEF StatsAfter
    <3>. QED
      BY <1>0, <2>4, <3>1, <3>2 DEF FakeTypeOK
  <2>6. CASE pc[u].op # "make"
    <3>1. StatsThen = stats \/ StatsThen = [stats EXCEPT ![pc[u].old] = Nobody]
      BY <2>2, <2>6 DEF StatsAfter
    <3>. QED
      BY <1>0, <2>4, <3>1 DEF FakeTypeOK
  <2>. QED
    BY <2>5, <2>6
<1>. QED
  BY <1>1, <1>2

(***************************************************************************)
(* The calls                                                               *)
(***************************************************************************)

\* A new file has no row yet, but it is being opened; or a row is left over.
LEMMA OpenMakesInv ==
  ASSUME Inv, NEW t \in Users, NEW p \in Tree, OpenMakes(t, p)
  PROVE  Inv'
<1>. DEFINE c == [k |-> "open", p |-> p]
<1>0. /\ FakeTypeOK /\ HostInv /\ OneInode /\ Txns
      /\ mnt = "on" /\ pc[t] = AtRest /\ pc[t].k = "idle" /\ ParentExists(p) /\ ~ IsDir(p)
      /\ UNCHANGED mounting /\ paths' = paths /\ stats' = stats
      /\ leaked' = leaked /\ badrow' = badrow
  BY DEF Inv, OpenMakes, Begins, AtRest, tables
<1>1. /\ ~ moved /\ fits /\ StatsSound /\ PathsSound /\ RowsSound
      /\ Quiet' /\ Moved' /\ Rebuild' /\ (StatsSound' /\ PathsSound' /\ RowsSound' => Tables')
  BY <1>0, OnCall
<1>2. pc' = [pc EXCEPT ![t] = c] /\ c \in Phases /\ c.k = "open" /\ c.p = p
  BY DEF OpenMakes, Phases
<1>3. \A u \in Users : pc[u].k = "txn" =>
        /\ pc[u].p \in Tree /\ pc[u].old \in Inos \cup {0}
        /\ Records(pc[u]) => dir[pc[u].p] # 0
        /\ pc[u].op = "make" => Records(pc[u])
  BY <1>0 DEF FakeTypeOK, Phases, Txns, Records
<1>. HIDE DEF c
<1>4. CASE dir[p] # 0
  <2>1. dir' = dir /\ who' = who /\ hurt' = hurt
    BY <1>4 DEF OpenMakes, hostVars
  <2>2. /\ PathsThen' = PathsThen /\ StatsThen' = StatsThen /\ BadThen' = BadThen
        /\ pc' \in [Users -> Phases] /\ (LockFree' <=> LockFree)
        /\ \A u, v \in Users : pc'[u].k = "txn" /\ pc'[v].k = "txn" => u = v
        /\ pc'[t] = c /\ \A u \in Users : u # t => pc'[u] = pc[u]
    BY <1>0, <1>2, <2>1, OtherTxn DEF tables
  <2>3. HostInv' /\ OneInode'
    BY <1>0, <1>1, <2>1 DEF HostInv, HostTypes, InUse, OneName, Ancestors, IsDir, OneInode, mounting
  <2>4. FakeTypeOK'
    BY <1>0, <2>1, <2>2 DEF FakeTypeOK, mounting
  <2>5. \A u \in Users : pc[u].k = "open" => pc'[u] = pc[u]
    BY <1>0, <2>2
  <2>6. StatsSound'
    BY <1>1, <2>1, <2>2, <2>5 DEF StatsSound, Whole, OpenAt
  <2>7. PathsSound' /\ RowsSound'
    BY <1>0, <1>1, <2>1, <2>2, <2>5 DEF PathsSound, RowsSound, Whole
  <2>8. Txns'
    BY <1>0, <1>2, <2>1, <2>2 DEF Txns, Records, Deletes
  <2>. QED
    BY <1>1, <2>3, <2>4, <2>6, <2>7, <2>8 DEF Inv
<1>5. CASE dir[p] = 0
  <2>1. HostMakes(p, FileIds)
    BY <1>5 DEF OpenMakes
  <2>2. PICK i \in Inos, f \in FileIds :
           /\ HostInv' /\ f # Nobody /\ f \in Ids
           /\ who[i] = Nobody /\ f \notin {who[j] : j \in Inos} /\ f \notin hurt
           /\ dir' = [dir EXCEPT ![p] = i] /\ who' = [who EXCEPT ![i] = f]
           /\ \A x \in Tree : x # p => dir'[x] = dir[x] /\ dir[x] # i
           /\ \A x \in Tree : dir[x] # 0 => who'[dir[x]] = who[dir[x]]
    BY <1>0, <1>5, <2>1, HostMakesIs
  <2>3. /\ dir'[p] = i /\ who'[i] = f /\ \A j \in Inos : j # i => who'[j] = who[j]
        /\ i # 0 /\ \A x \in Tree : dir[x] # i
    BY <1>0, <1>5, <2>2, FakeFsAssumption DEF HostInv, HostTypes
  <2>4. hurt' = IF stats[i] # Nobody THEN hurt \cup {f} ELSE hurt
    BY <1>5, <2>3 DEF OpenMakes
  <2>5. \A u \in Users : pc[u].k = "txn" /\ Records(pc[u]) =>
          dir'[pc[u].p] = dir[pc[u].p] /\ who'[dir[pc[u].p]] = who[dir[pc[u].p]]
    BY <1>3, <1>5, <2>2
  <2>6. /\ PathsThen' = PathsThen /\ StatsThen' = StatsThen /\ BadThen' = BadThen
        /\ pc' \in [Users -> Phases] /\ (LockFree' <=> LockFree)
        /\ \A u, v \in Users : pc'[u].k = "txn" /\ pc'[v].k = "txn" => u = v
        /\ pc'[t] = c /\ \A u \in Users : u # t => pc'[u] = pc[u]
    BY <1>0, <1>2, <2>5, OtherTxn DEF tables
  <2>7. FakeTypeOK'
    BY <1>0, <2>2, <2>4, <2>6 DEF FakeTypeOK, mounting, HostInv, HostTypes
  <2>8. OneInode'
    BY <1>0, <1>1, <2>2, <2>3, <2>4 DEF OneInode
  <2>9. \A u \in Users : pc[u].k = "open" => pc'[u] = pc[u] /\ pc[u].p \in Tree
    BY <1>0, <2>6 DEF FakeTypeOK, Phases
  <2>10. \A x \in Tree : x # p /\ Whole(x)' => Whole(x) /\ dir'[x] = dir[x] /\ who'[dir[x]] = who[dir[x]]
    BY <2>2, <2>4 DEF Whole
  <2>11. StatsSound'
    <3>. SUFFICES ASSUME NEW x \in Tree, Whole(x)'
                  PROVE  \/ StatsThen'[dir'[x]] = who'[dir'[x]]
                         \/ /\ StatsThen'[dir'[x]] = Nobody
                            /\ \E u \in Users : pc'[u].k = "open" /\ dir'[pc'[u].p] = dir'[x]
      BY DEF StatsSound, OpenAt
    <3>1. CASE x = p
      <4>1. stats[i] = Nobody
        BY <2>3, <2>4, <3>1 DEF Whole
      <4>2. StatsThen[i] = Nobody
        BY <2>2, <4>1, ThenTypes
      <4>. QED
        BY <1>2, <2>3, <2>6, <3>1, <4>2 DEF OpenAt
    <3>2. CASE x # p
      <4>1. Whole(x) /\ dir'[x] = dir[x] /\ who'[dir[x]] = who[dir[x]] /\ dir[x] # 0
        BY <2>10, <3>2 DEF Whole
      <4>2. CASE StatsThen[dir[x]] = who[dir[x]]
        BY <2>6, <4>1, <4>2
      <4>3. CASE StatsThen[dir[x]] = Nobody /\ OpenAt(dir[x])
        <5>1. PICK u \in Users : pc[u].k = "open" /\ dir[pc[u].p] = dir[x]
          BY <4>3 DEF OpenAt
        <5>2. pc'[u] = pc[u] /\ dir'[pc[u].p] = dir[x]
          BY <1>5, <2>2, <2>9, <4>1, <5>1
        <5>. QED
          BY <2>6, <4>1, <4>3, <5>1, <5>2 DEF OpenAt
      <4>. QED
        BY <1>1, <4>1, <4>2, <4>3 DEF StatsSound
    <3>. QED
      BY <3>1, <3>2
  <2>12. PathsSound'
    <3>. SUFFICES ASSUME NEW x \in Tree, Whole(x)', x \notin BadThen'
                  PROVE  PathsThen'[x] = dir'[x] \/ \E u \in Users : pc'[u].k = "open" /\ pc'[u].p = x
      BY DEF PathsSound
    <3>1. CASE x = p
      BY <1>2, <2>6, <3>1
    <3>2. CASE x # p
      BY <1>1, <2>6, <2>9, <2>10, <3>2 DEF PathsSound
    <3>. QED
      BY <3>1, <3>2
  <2>13. RowsSound'
    BY <1>0, <1>1, <2>2, <2>3, <2>6 DEF RowsSound
  <2>14. Txns'
    <3>. SUFFICES ASSUME NEW u \in Users, pc'[u].k = "txn"
                  PROVE  /\ Records(pc'[u]) => dir'[pc'[u].p] # 0
                         /\ pc'[u].op = "make" =>
                              /\ \A r \in Tree : dir'[r] = dir'[pc'[u].p] => r = pc'[u].p
                              /\ stats'[dir'[pc'[u].p]] # Nobody => dir'[pc'[u].p] \in leaked'
                         /\ pc'[u].op = "remove" => pc'[u].old # 0
                         /\ Deletes(pc[u])' =>
                              stats'[pc'[u].old] = Nobody \/ who'[pc'[u].old] \in hurt' \cup {Nobody}
      BY DEF Txns
    <3>1. pc'[u] = pc[u] /\ pc[u].k = "txn"
      BY <1>2, <2>6
    <3>2. /\ Records(pc[u]) => dir[pc[u].p] # 0 /\ dir'[pc[u].p] = dir[pc[u].p]
          /\ pc[u].op = "remove" => pc[u].old # 0
          /\ pc[u].old \in Inos \cup {0}
      BY <1>0, <1>3, <2>5, <3>1 DEF Txns
    <3>3. pc[u].op = "make" =>
              /\ \A r \in Tree : dir'[r] = dir'[pc[u].p] => r = pc[u].p
              /\ stats'[dir'[pc[u].p]] # Nobody => dir'[pc[u].p] \in leaked'
      BY <1>0, <1>3, <2>2, <2>3, <3>1, <3>2 DEF Txns
    <3>4. Deletes(pc[u])' <=> Deletes(pc[u])
      BY <3>1, <3>2 DEF Deletes, Records
    <3>5. Deletes(pc[u]) => stats[pc[u].old] = Nobody \/ who[pc[u].old] \in hurt \cup {Nobody}
      BY <1>0, <3>1 DEF Txns
    <3>6. Deletes(pc[u]) => pc[u].old \in Inos
      BY <3>2 DEF Deletes
    <3>7. Deletes(pc[u]) => stats'[pc[u].old] = Nobody \/ who'[pc[u].old] \in hurt' \cup {Nobody}
      BY <1>0, <2>3, <2>4, <3>5, <3>6
    <3>. QED
      BY <3>1, <3>2, <3>3, <3>4, <3>7
  <2>. QED
    BY <1>1, <2>2, <2>7, <2>8, <2>11, <2>12, <2>13, <2>14 DEF Inv
<1>. QED
  BY <1>4, <1>5

\* The metadata of a file that has none yet, or the lack of a row that hurts it.
LEMMA OpenRecordsInv ==
  ASSUME Inv, NEW t \in Users, OpenRecords(t)
  PROVE  Inv'
<1>. DEFINE p == pc[t].p
            i == dir[p]
<1>0. /\ FakeTypeOK /\ HostInv /\ OneInode /\ Txns /\ ThenFacts
      /\ pc[t].k = "open" /\ pc[t] # AtRest /\ LockFree /\ i # 0
      /\ UNCHANGED mounting /\ dir' = dir /\ who' = who /\ leaked' = leaked
  BY ThenIs DEF Inv, OpenRecords, AtRest, hostVars
<1>1. /\ ~ moved /\ fits /\ StatsSound /\ PathsSound /\ RowsSound
      /\ Quiet' /\ Moved' /\ Rebuild' /\ (StatsSound' /\ PathsSound' /\ RowsSound' => Tables')
  BY <1>0, OnCall
<1>2. PathsThen = paths /\ StatsThen = stats /\ BadThen = badrow
  BY <1>0 DEF ThenFacts
<1>3. AtRest \in Phases /\ AtRest.k = "idle" /\ pc' = [pc EXCEPT ![t] = AtRest]
  BY DEF AtRest, Phases, OpenRecords
<1>4. /\ PathsThen' = paths' /\ StatsThen' = stats' /\ BadThen' = badrow'
      /\ pc' \in [Users -> Phases] /\ LockFree'
      /\ pc'[t] = AtRest /\ \A u \in Users : u # t => pc'[u] = pc[u]
      /\ \A u, v \in Users : pc'[u].k = "txn" /\ pc'[v].k = "txn" => u = v
  BY <1>0, <1>3, EndsCall DEF LockFree
<1>5. p \in Tree
  BY <1>0 DEF FakeTypeOK, Phases
<1>6. i \in Inos /\ who[i] \in Ids /\ who[i] # Nobody
  BY <1>0, <1>5, FileOfPath
<1>7. HostInv' /\ Txns'
  BY <1>0, <1>4 DEF HostInv, HostTypes, InUse, OneName, Ancestors, IsDir, Txns, LockFree
<1>8. \A u \in Users : u # t /\ pc[u].k = "open" => pc'[u] = pc[u]
  BY <1>4
<1>9. CASE StatAnswer(p) = Nobody
  <2>1. /\ paths' = [paths EXCEPT ![p] = i] /\ stats' = [stats EXCEPT ![i] = who[i]]
        /\ badrow' = badrow \ {p} /\ hurt' = hurt
    BY <1>9 DEF OpenRecords
  <2>2. /\ paths' \in [Tree -> Inos \cup {0}] /\ stats' \in [Inos -> Ids \cup {Nobody}]
        /\ paths'[p] = i /\ stats'[i] = who[i]
        /\ \A x \in Tree : x # p => paths'[x] = paths[x]
        /\ \A j \in Inos : j # i => stats'[j] = stats[j]
    BY <1>0, <1>5, <1>6, <2>1 DEF FakeTypeOK
  <2>. HIDE DEF p, i
  <2>3. FakeTypeOK'
    BY <1>0, <1>4, <2>1, <2>2 DEF FakeTypeOK, mounting
  <2>4. OneInode'
    BY <1>0, <1>1, <2>1 DEF OneInode
  <2>5. StatsSound'
    <3>. SUFFICES ASSUME NEW x \in Tree, Whole(x)'
                  PROVE  stats'[dir[x]] = who[dir[x]] \/ (stats'[dir[x]] = Nobody /\ OpenAt(dir[x])')
      BY <1>0, <1>4 DEF StatsSound, OpenAt
    <3>1. Whole(x) /\ dir[x] \in Inos
      BY <1>0, <2>1, FileOfPath DEF Whole
    <3>2. CASE dir[x] = i
      BY <2>2, <3>2
    <3>3. CASE dir[x] # i
      <4>1. stats[dir[x]] = who[dir[x]] \/ (stats[dir[x]] = Nobody /\ OpenAt(dir[x]))
        BY <1>1, <1>2, <3>1 DEF StatsSound
      <4>2. OpenAt(dir[x]) => OpenAt(dir[x])'
        BY <1>0, <1>8, <3>3 DEF OpenAt, i, p
      <4>. QED
        BY <2>2, <3>1, <3>3, <4>1, <4>2
    <3>. QED
      BY <3>2, <3>3
  <2>6. PathsSound'
    <3>. SUFFICES ASSUME NEW x \in Tree, Whole(x)', x \notin badrow'
                  PROVE  paths'[x] = dir[x] \/ \E u \in Users : pc'[u].k = "open" /\ pc'[u].p = x
      BY <1>0, <1>4 DEF PathsSound
    <3>1. CASE x = p
      BY <2>2, <3>1 DEF i
    <3>2. CASE x # p
      <4>1. paths[x] = dir[x] \/ \E u \in Users : pc[u].k = "open" /\ pc[u].p = x
        BY <1>0, <1>1, <1>2, <2>1, <3>2 DEF PathsSound, Whole
      <4>. QED
        BY <1>8, <2>2, <3>2, <4>1 DEF p
    <3>. QED
      BY <3>1, <3>2
  <2>7. RowsSound'
    BY <1>0, <1>1, <1>2, <1>4, <1>6, <2>2 DEF RowsSound
  <2>. QED
    BY <1>1, <1>7, <2>3, <2>4, <2>5, <2>6, <2>7 DEF Inv
<1>10. CASE StatAnswer(p) # Nobody
  <2>1. /\ paths' = paths /\ stats' = stats /\ badrow' = badrow /\ stats[i] # Nobody
        /\ hurt' = IF paths[p] # i THEN hurt \cup {who[i]} ELSE hurt
    BY <1>0, <1>10 DEF OpenRecords, StatAnswer, tables
  <2>. HIDE DEF p, i
  <2>2. FakeTypeOK'
    BY <1>0, <1>4, <1>6, <2>1 DEF FakeTypeOK, mounting
  <2>3. OneInode'
    BY <1>0, <1>1, <2>1 DEF OneInode
  <2>4. \A x \in Tree : Whole(x)' => Whole(x)
    BY <1>0, <2>1 DEF Whole
  <2>5. StatsSound'
    <3>. SUFFICES ASSUME NEW x \in Tree, Whole(x)'
                  PROVE  stats[dir[x]] = who[dir[x]] \/ (stats[dir[x]] = Nobody /\ OpenAt(dir[x])')
      BY <1>0, <1>4, <2>1 DEF StatsSound, OpenAt
    <3>1. stats[dir[x]] = who[dir[x]] \/ (stats[dir[x]] = Nobody /\ OpenAt(dir[x]))
      BY <1>1, <1>2, <2>4 DEF StatsSound
    <3>2. dir[x] # i /\ OpenAt(dir[x]) => OpenAt(dir[x])'
      BY <1>0, <1>8 DEF OpenAt, i, p
    <3>. QED
      BY <2>1, <3>1, <3>2
  <2>6. PathsSound'
    <3>. SUFFICES ASSUME NEW x \in Tree, Whole(x)', x \notin badrow
                  PROVE  paths[x] = dir[x] \/ \E u \in Users : pc'[u].k = "open" /\ pc'[u].p = x
      BY <1>0, <1>4, <2>1 DEF PathsSound
    <3>1. paths[x] = dir[x] \/ \E u \in Users : pc[u].k = "open" /\ pc[u].p = x
      BY <1>1, <1>2, <2>4 DEF PathsSound
    <3>2. x = p => paths[x] = dir[x]
      BY <1>0, <2>1 DEF Whole, i
    <3>. QED
      BY <1>8, <3>1, <3>2 DEF p
  <2>7. RowsSound'
    BY <1>0, <1>1, <1>2, <1>4, <2>1 DEF RowsSound
  <2>. QED
    BY <1>1, <1>7, <2>2, <2>3, <2>5, <2>6, <2>7 DEF Inv
<1>. QED
  BY <1>9, <1>10

\* unlink's test changes nothing but what the call remembers.
LEMMA UnlinkTestsInv ==
  ASSUME Inv, NEW t \in Users, NEW p \in Tree, UnlinkTests(t, p)
  PROVE  Inv'
<1>. DEFINE c == [k |-> "test", p |-> p,
                  gone |-> dir[p] # 0 /\ ~ IsDir(p) /\ Cardinality(LinksOf(dir, dir[p])) = 1]
<1>0. /\ FakeTypeOK /\ HostInv /\ OneInode /\ Txns
      /\ mnt = "on" /\ pc[t] = AtRest /\ pc[t].k = "idle"
      /\ UNCHANGED mounting /\ dir' = dir /\ who' = who /\ paths' = paths /\ stats' = stats
      /\ hurt' = hurt /\ leaked' = leaked /\ badrow' = badrow
  BY DEF Inv, UnlinkTests, Begins, AtRest, tables, hostVars
<1>1. /\ ~ moved /\ fits /\ StatsSound /\ PathsSound /\ RowsSound
      /\ Quiet' /\ Moved' /\ Rebuild' /\ (StatsSound' /\ PathsSound' /\ RowsSound' => Tables')
  BY <1>0, OnCall
<1>2. pc' = [pc EXCEPT ![t] = c] /\ c \in Phases /\ c.k = "test"
  BY DEF UnlinkTests, Phases
<1>. HIDE DEF c
<1>3. /\ PathsThen' = PathsThen /\ StatsThen' = StatsThen /\ BadThen' = BadThen
      /\ pc' \in [Users -> Phases] /\ (LockFree' <=> LockFree)
      /\ \A u, v \in Users : pc'[u].k = "txn" /\ pc'[v].k = "txn" => u = v
      /\ pc'[t] = c /\ \A u \in Users : u # t => pc'[u] = pc[u]
  BY <1>0, <1>2, OtherTxn DEF tables
<1>4. \A u \in Users : pc[u].k = "open" => pc'[u] = pc[u]
  BY <1>0, <1>3
<1>5. FakeTypeOK' /\ HostInv' /\ OneInode'
  BY <1>0, <1>1, <1>3
  DEF FakeTypeOK, mounting, HostInv, HostTypes, InUse, OneName, Ancestors, IsDir, OneInode
<1>6. StatsSound'
  BY <1>0, <1>1, <1>3, <1>4 DEF StatsSound, Whole, OpenAt
<1>7. PathsSound' /\ RowsSound'
  BY <1>0, <1>1, <1>3, <1>4 DEF PathsSound, RowsSound, Whole
<1>8. Txns'
  BY <1>0, <1>2, <1>3 DEF Txns, Records, Deletes
<1>. QED
  BY <1>1, <1>5, <1>6, <1>7, <1>8 DEF Inv

\* setattr writes the row of a path that exists.
LEMMA SetAttrInv ==
  ASSUME Inv, NEW t \in Users, NEW p \in Tree, SetAttr(t, p)
  PROVE  Inv'
<1>0. /\ FakeTypeOK /\ HostInv /\ OneInode /\ Txns /\ ThenFacts
      /\ mnt = "on" /\ LockFree /\ StatAnswer(p) # Nobody
      /\ UNCHANGED mounting /\ dir' = dir /\ who' = who /\ stats' = stats /\ pc' = pc
      /\ hurt' = hurt /\ leaked' = leaked
      /\ paths' = [paths EXCEPT ![p] = dir[p]] /\ badrow' = badrow \ {p}
  BY ThenIs DEF Inv, SetAttr, Begins, hostVars
<1>1. /\ ~ moved /\ fits /\ StatsSound /\ PathsSound /\ RowsSound
      /\ Quiet' /\ Moved' /\ Rebuild' /\ (StatsSound' /\ PathsSound' /\ RowsSound' => Tables')
  BY <1>0, OnCall
<1>2. PathsThen = paths /\ StatsThen = stats /\ BadThen = badrow
  BY <1>0 DEF ThenFacts
<1>3. PathsThen' = paths' /\ StatsThen' = stats' /\ BadThen' = badrow'
  BY <1>0 DEF PathsThen, StatsThen, BadThen, LockFree
<1>4. dir[p] \in Inos
  BY <1>0, FileOfPath DEF StatAnswer
<1>5. /\ paths' \in [Tree -> Inos \cup {0}]
      /\ paths'[p] = dir[p] /\ \A x \in Tree : x # p => paths'[x] = paths[x]
  BY <1>0, <1>4 DEF FakeTypeOK
<1>6. FakeTypeOK' /\ HostInv' /\ OneInode'
  BY <1>0, <1>1, <1>5
  DEF FakeTypeOK, mounting, HostInv, HostTypes, InUse, OneName, Ancestors, IsDir, OneInode
<1>7. StatsSound' /\ RowsSound'
  BY <1>0, <1>1, <1>2, <1>3 DEF StatsSound, RowsSound, Whole, OpenAt
<1>8. PathsSound'
  BY <1>0, <1>1, <1>2, <1>3, <1>5 DEF PathsSound, Whole
<1>9. Txns'
  BY <1>0 DEF Txns, LockFree
<1>. QED
  BY <1>1, <1>6, <1>7, <1>8, <1>9 DEF Inv

\* symlink, mknod and mkdir: the transaction will give the new file its rows.
LEMMA MakeInv ==
  ASSUME Inv, NEW t \in Users, NEW p \in Tree, NEW kind \in {FileIds, DirIds}, Make(t, p, kind)
  PROVE  Inv'
<1>. DEFINE c == [k |-> "txn", op |-> "make", p |-> p, old |-> 0, gone |-> FALSE]
<1>0. /\ FakeTypeOK /\ HostInv /\ OneInode /\ Txns
      /\ mnt = "on" /\ pc[t].k = "idle" /\ LockFree /\ dir[p] = 0 /\ ParentExists(p) /\ HostMakes(p, kind)
      /\ UNCHANGED mounting /\ paths' = paths /\ stats' = stats
      /\ hurt' = hurt /\ leaked' = leaked /\ badrow' = badrow
  BY DEF Inv, Make, Begins, AtRest, tables
<1>1. /\ ~ moved /\ fits /\ StatsSound /\ PathsSound /\ RowsSound
      /\ Quiet' /\ Moved' /\ Rebuild' /\ (StatsSound' /\ PathsSound' /\ RowsSound' => Tables')
  BY <1>0, OnCall
<1>2. /\ pc' = [pc EXCEPT ![t] = c] /\ c \in Phases
      /\ c.k = "txn" /\ c.p = p /\ c.op = "make" /\ Records(c) /\ ~ Deletes(c)'
  BY DEF Make, Txn, Phases, Records, Deletes
<1>. HIDE DEF c
<1>3. PICK i \in Inos, f \in kind :
        /\ HostInv' /\ f # Nobody /\ f \in Ids
        /\ who[i] = Nobody /\ f \notin {who[j] : j \in Inos} /\ f \notin hurt
        /\ dir' = [dir EXCEPT ![p] = i] /\ who' = [who EXCEPT ![i] = f]
        /\ \A x \in Tree : x # p => dir'[x] = dir[x] /\ dir[x] # i
        /\ \A x \in Tree : dir[x] # 0 => who'[dir[x]] = who[dir[x]]
  BY <1>0, HostMakesIs
<1>4. /\ dir'[p] = i /\ who'[i] = f /\ \A j \in Inos : j # i => who'[j] = who[j]
      /\ i # 0 /\ \A x \in Tree : dir[x] # i
  BY <1>0, <1>3, FakeFsAssumption DEF HostInv, HostTypes
<1>5. /\ PathsThen = paths /\ StatsThen = stats /\ BadThen = badrow
      /\ pc' \in [Users -> Phases] /\ ~ LockFree'
      /\ \A u, v \in Users : pc'[u].k = "txn" /\ pc'[v].k = "txn" => u = v
      /\ pc'[t] = c /\ \A u \in Users : pc'[u].k = "txn" => u = t
      /\ \A u \in Users : u # t => pc'[u] = pc[u]
      /\ PathsThen' = PathsAfter(c)' /\ StatsThen' = StatsAfter(c)' /\ BadThen' = BadAfter(c)'
  BY <1>0, <1>2, BeginsTxn DEF tables
<1>6. PathsThen' = [paths EXCEPT ![p] = i] /\ StatsThen' = [stats EXCEPT ![i] = f] /\ BadThen' = badrow \ {p}
  BY <1>0, <1>2, <1>4, <1>5 DEF PathsAfter, StatsAfter, BadAfter
<1>7. /\ PathsThen'[p] = i /\ \A x \in Tree : x # p => PathsThen'[x] = paths[x]
      /\ StatsThen'[i] = f /\ \A j \in Inos : j # i => StatsThen'[j] = stats[j]
  BY <1>0, <1>6 DEF FakeTypeOK
<1>8. FakeTypeOK'
  BY <1>0, <1>3, <1>5 DEF FakeTypeOK, mounting, HostInv, HostTypes
<1>9. OneInode'
  BY <1>0, <1>1, <1>3, <1>4 DEF OneInode
<1>10. \A u \in Users : pc[u].k = "open" => pc'[u] = pc[u] /\ pc[u].p \in Tree
  BY <1>0, <1>5 DEF FakeTypeOK, Phases
<1>11. \A x \in Tree : x # p /\ Whole(x)' =>
         Whole(x) /\ dir'[x] = dir[x] /\ who'[dir[x]] = who[dir[x]] /\ dir[x] \in Inos /\ dir[x] # i
  BY <1>0, <1>3, FileOfPath DEF Whole
<1>12. StatsSound'
  <2>. SUFFICES ASSUME NEW x \in Tree, Whole(x)'
                PROVE  \/ StatsThen'[dir'[x]] = who'[dir'[x]]
                       \/ /\ StatsThen'[dir'[x]] = Nobody
                          /\ \E u \in Users : pc'[u].k = "open" /\ dir'[pc'[u].p] = dir'[x]
    BY DEF StatsSound, OpenAt
  <2>1. CASE x = p
    BY <1>4, <1>7, <2>1
  <2>2. CASE x # p
    <3>1. /\ Whole(x) /\ dir'[x] = dir[x] /\ who'[dir[x]] = who[dir[x]] /\ dir[x] # 0
          /\ StatsThen'[dir[x]] = stats[dir[x]]
      BY <1>7, <1>11, <2>2 DEF Whole
    <3>2. stats[dir[x]] = who[dir[x]] \/ (stats[dir[x]] = Nobody /\ OpenAt(dir[x]))
      BY <1>1, <1>5, <3>1 DEF StatsSound
    <3>3. ASSUME OpenAt(dir[x]) PROVE \E u \in Users : pc'[u].k = "open" /\ dir'[pc'[u].p] = dir'[x]
      <4>1. PICK u \in Users : pc[u].k = "open" /\ dir[pc[u].p] = dir[x]
        BY <3>3 DEF OpenAt
      <4>. QED
        BY <1>0, <1>3, <1>10, <3>1, <4>1
    <3>. QED
      BY <3>1, <3>2, <3>3
  <2>. QED
    BY <2>1, <2>2
<1>13. PathsSound'
  <2>. SUFFICES ASSUME NEW x \in Tree, Whole(x)', x \notin BadThen'
                PROVE  PathsThen'[x] = dir'[x] \/ \E u \in Users : pc'[u].k = "open" /\ pc'[u].p = x
    BY DEF PathsSound
  <2>1. CASE x = p
    BY <1>4, <1>7, <2>1
  <2>2. CASE x # p
    <3>1. paths[x] = dir[x] \/ \E u \in Users : pc[u].k = "open" /\ pc[u].p = x
      BY <1>1, <1>5, <1>6, <1>11, <2>2 DEF PathsSound
    <3>. QED
      BY <1>7, <1>10, <1>11, <2>2, <3>1
  <2>. QED
    BY <2>1, <2>2
<1>14. RowsSound'
  BY <1>0, <1>1, <1>3, <1>4, <1>5, <1>7 DEF RowsSound
<1>15. stats[i] # Nobody => i \in leaked
  BY <1>1, <1>3, <1>5 DEF RowsSound
<1>16. Txns'
  BY <1>0, <1>2, <1>3, <1>4, <1>5, <1>15 DEF Txns
<1>. QED
  BY <1>1, <1>3, <1>8, <1>9, <1>12, <1>13, <1>14, <1>16 DEF Inv

\* The new name will have the number that the file has at the other one.
LEMMA LinkInv ==
  ASSUME Inv, NEW t \in Users, NEW p \in Tree, NEW q \in Tree, Link(t, p, q)
  PROVE  Inv'
<1>. DEFINE c == [k |-> "txn", op |-> "link", p |-> q, old |-> 0, gone |-> FALSE]
<1>0. /\ FakeTypeOK /\ HostInv /\ OneInode /\ Txns
      /\ mnt = "on" /\ pc[t].k = "idle" /\ LockFree
      /\ dir[p] # 0 /\ ~ IsDir(p) /\ dir[q] = 0 /\ ParentExists(q)
      /\ dir' = [dir EXCEPT ![q] = dir[p]] /\ who' = who
      /\ UNCHANGED mounting /\ paths' = paths /\ stats' = stats
      /\ hurt' = hurt /\ leaked' = leaked /\ badrow' = badrow
  BY DEF Inv, Link, Begins, AtRest, tables
<1>1. /\ ~ moved /\ fits /\ StatsSound /\ PathsSound /\ RowsSound
      /\ Quiet' /\ Moved' /\ Rebuild' /\ (StatsSound' /\ PathsSound' /\ RowsSound' => Tables')
  BY <1>0, OnCall
<1>2. /\ pc' = [pc EXCEPT ![t] = c] /\ c \in Phases
      /\ c.k = "txn" /\ c.p = q /\ c.op = "link" /\ Records(c) /\ ~ Deletes(c)'
  BY DEF Link, Txn, Phases, Records, Deletes
<1>. HIDE DEF c
<1>3. HostInv' /\ dir'[q] = dir[p] /\ \A x \in Tree : x # q => dir'[x] = dir[x]
  BY <1>0, HostLinks
<1>4. /\ PathsThen = paths /\ StatsThen = stats /\ BadThen = badrow
      /\ pc' \in [Users -> Phases] /\ ~ LockFree'
      /\ \A u, v \in Users : pc'[u].k = "txn" /\ pc'[v].k = "txn" => u = v
      /\ pc'[t] = c /\ \A u \in Users : pc'[u].k = "txn" => u = t
      /\ \A u \in Users : u # t => pc'[u] = pc[u]
      /\ PathsThen' = PathsAfter(c)' /\ StatsThen' = StatsAfter(c)' /\ BadThen' = BadAfter(c)'
  BY <1>0, <1>2, BeginsTxn DEF tables
<1>5. PathsThen' = [paths EXCEPT ![q] = dir'[q]] /\ StatsThen' = stats /\ BadThen' = badrow \ {q}
  BY <1>0, <1>2, <1>4 DEF PathsAfter, StatsAfter, BadAfter
<1>6. PathsThen'[q] = dir'[q] /\ \A x \in Tree : x # q => PathsThen'[x] = paths[x]
  BY <1>0, <1>5 DEF FakeTypeOK
<1>7. FakeTypeOK'
  BY <1>0, <1>3, <1>4 DEF FakeTypeOK, mounting, HostInv, HostTypes
<1>8. OneInode'
  BY <1>0, <1>1 DEF OneInode
<1>9. \A u \in Users : pc[u].k = "open" => pc'[u] = pc[u] /\ pc[u].p \in Tree
  BY <1>0, <1>4 DEF FakeTypeOK, Phases
<1>10. StatsSound'
  <2>. SUFFICES ASSUME NEW x \in Tree, Whole(x)'
                PROVE  \/ StatsThen'[dir'[x]] = who'[dir'[x]]
                       \/ /\ StatsThen'[dir'[x]] = Nobody
                          /\ \E u \in Users : pc'[u].k = "open" /\ dir'[pc'[u].p] = dir'[x]
    BY DEF StatsSound, OpenAt
  <2>1. PICK y \in Tree : dir[y] = dir'[x]
    BY <1>3
  <2>2. Whole(y)
    BY <1>0, <2>1 DEF Whole
  <2>3. stats[dir[y]] = who[dir[y]] \/ (stats[dir[y]] = Nobody /\ OpenAt(dir[y]))
    BY <1>1, <1>4, <2>2 DEF StatsSound
  <2>4. ASSUME OpenAt(dir[y]) PROVE \E u \in Users : pc'[u].k = "open" /\ dir'[pc'[u].p] = dir'[x]
    <3>1. PICK u \in Users : pc[u].k = "open" /\ dir[pc[u].p] = dir[y]
      BY <2>4 DEF OpenAt
    <3>2. dir'[pc[u].p] = dir[y]
      BY <1>0, <1>3, <1>9, <2>2, <3>1 DEF Whole
    <3>. QED
      BY <1>9, <2>1, <3>1, <3>2
  <2>. QED
    BY <1>0, <1>5, <2>1, <2>3, <2>4
<1>11. PathsSound'
  <2>. SUFFICES ASSUME NEW x \in Tree, Whole(x)', x \notin BadThen'
                PROVE  PathsThen'[x] = dir'[x] \/ \E u \in Users : pc'[u].k = "open" /\ pc'[u].p = x
    BY DEF PathsSound
  <2>1. CASE x = q
    BY <1>6, <2>1
  <2>2. CASE x # q
    <3>1. paths[x] = dir[x] \/ \E u \in Users : pc[u].k = "open" /\ pc[u].p = x
      BY <1>0, <1>1, <1>3, <1>4, <1>5, <2>2 DEF PathsSound, Whole
    <3>. QED
      BY <1>3, <1>6, <1>9, <2>2, <3>1
  <2>. QED
    BY <2>1, <2>2
<1>12. RowsSound'
  BY <1>0, <1>1, <1>4, <1>5 DEF RowsSound
<1>13. Txns'
  BY <1>0, <1>2, <1>3, <1>4 DEF Txns
<1>. QED
  BY <1>1, <1>3, <1>7, <1>8, <1>10, <1>11, <1>12, <1>13 DEF Inv

\* A name goes away, and the row of its file unless other names are left: then
\* the file is hurt.
LEMMA RemovesInv ==
  ASSUME Inv, NEW t \in Users, NEW p \in Tree, mnt = "on" \/ pc[t] # AtRest, pc[t].k # "open", LockFree,
         dir[p] # 0, \A r \in Below(p) : dir[r] = 0, HostRemoves(p),
         NEW gone \in BOOLEAN, Txn(t, "remove", p, dir[p], gone),
         UNCHANGED <<tables, mounting, badrow>>,
         hurt \subseteq hurt', hurt' \subseteq Ids, leaked \subseteq leaked', leaked' \subseteq Inos,
         gone /\ LinksOf(dir', dir[p]) # {} => who[dir[p]] \in hurt',
         StatAnswer(p) = Nobody /\ LinksOf(dir', dir[p]) # {} => who[dir[p]] \in hurt',
         ~ gone /\ LinksOf(dir', dir[p]) = {} => dir[p] \in leaked'
  PROVE  Inv'
<1>. DEFINE i == dir[p]
<1>0. FakeTypeOK /\ HostInv /\ OneInode /\ Txns /\ paths' = paths /\ stats' = stats /\ badrow' = badrow
  BY DEF Inv, tables
<1>1. /\ ~ moved /\ fits /\ StatsSound /\ PathsSound /\ RowsSound
      /\ Quiet' /\ Moved' /\ Rebuild' /\ (StatsSound' /\ PathsSound' /\ RowsSound' => Tables')
  BY OnCall
<1>2. i \in Inos /\ i # 0 /\ who[i] \in Ids
  BY <1>0, FileOfPath
<1>3. PICK c \in Phases :
        /\ pc' = [pc EXCEPT ![t] = c]
        /\ c.k = "txn" /\ c.p = p /\ c.op = "remove" /\ c.old = i /\ (c.gone <=> gone) /\ ~ Records(c)
  <2>. DEFINE d == [k |-> "txn", op |-> "remove", p |-> p, old |-> i, gone |-> gone]
  <2>1. d \in Phases /\ d.k = "txn" /\ d.p = p /\ d.op = "remove" /\ d.old = i /\ (d.gone <=> gone) /\ ~ Records(d)
    BY <1>2 DEF Phases, Records
  <2>2. pc' = [pc EXCEPT ![t] = d]
    BY DEF Txn
  <2>. QED
    BY <2>1, <2>2
<1>4. stats[i] = Nobody /\ LinksOf(dir', i) # {} => who[i] \in hurt'
  BY DEF StatAnswer
<1>. HIDE DEF i
<1>5. /\ HostInv'
      /\ dir'[p] = 0
      /\ \A x \in Tree : x # p => dir'[x] = dir[x]
      /\ \A x \in Tree : dir'[x] # 0 => who'[dir'[x]] = who[dir[x]]
      /\ \A j \in Inos : who'[j] = IF LinksOf(dir', j) = {} THEN Nobody ELSE who[j]
  BY <1>0, HostRemovesIs
<1>6. /\ PathsThen = paths /\ StatsThen = stats /\ BadThen = badrow
      /\ pc' \in [Users -> Phases] /\ ~ LockFree'
      /\ \A u, v \in Users : pc'[u].k = "txn" /\ pc'[v].k = "txn" => u = v
      /\ pc'[t] = c /\ \A u \in Users : pc'[u].k = "txn" => u = t
      /\ \A u \in Users : u # t => pc'[u] = pc[u]
      /\ PathsThen' = PathsAfter(c)' /\ StatsThen' = StatsAfter(c)' /\ BadThen' = BadAfter(c)'
  BY <1>0, <1>3, BeginsTxn DEF tables
<1>7. /\ PathsThen' = paths /\ BadThen' = badrow
      /\ StatsThen' = IF gone THEN [stats EXCEPT ![i] = Nobody] ELSE stats
  BY <1>0, <1>3, <1>6 DEF PathsAfter, StatsAfter, BadAfter
<1>8. /\ \A j \in Inos : j # i => StatsThen'[j] = stats[j]
      /\ StatsThen'[i] = IF gone THEN Nobody ELSE stats[i]
  BY <1>0, <1>2, <1>7 DEF FakeTypeOK
<1>9. FakeTypeOK'
  BY <1>0, <1>5, <1>6 DEF FakeTypeOK, mounting, HostInv, HostTypes
<1>10. OneInode'
  BY <1>5, OneInodeStays DEF mounting
<1>11. \A u \in Users : pc[u].k = "open" => pc'[u] = pc[u] /\ pc[u].p \in Tree
  BY <1>0, <1>6 DEF FakeTypeOK, Phases
<1>12. \A x \in Tree : Whole(x)' =>
         Whole(x) /\ x # p /\ dir'[x] = dir[x] /\ who'[dir[x]] = who[dir[x]] /\ dir[x] \in Inos
  BY <1>0, <1>5, FileOfPath DEF Whole
<1>13. \A x \in Tree : x # p /\ dir[x] = i => LinksOf(dir', i) # {}
  BY <1>5 DEF LinksOf
<1>14. StatsSound'
  <2>. SUFFICES ASSUME NEW x \in Tree, Whole(x)'
                PROVE  \/ StatsThen'[dir'[x]] = who'[dir'[x]]
                       \/ /\ StatsThen'[dir'[x]] = Nobody
                          /\ \E u \in Users : pc'[u].k = "open" /\ dir'[pc'[u].p] = dir'[x]
    BY DEF StatsSound, OpenAt
  <2>1. Whole(x) /\ x # p /\ dir'[x] = dir[x] /\ who'[dir[x]] = who[dir[x]] /\ dir[x] \in Inos
    BY <1>12
  <2>2. dir[x] = i => ~ gone /\ stats[i] # Nobody
    BY <1>4, <1>13, <2>1 DEF Whole, i
  <2>3. StatsThen'[dir[x]] = stats[dir[x]]
    BY <1>8, <2>1, <2>2
  <2>4. stats[dir[x]] = who[dir[x]] \/ (stats[dir[x]] = Nobody /\ OpenAt(dir[x]))
    BY <1>1, <1>6, <2>1 DEF StatsSound
  <2>5. ASSUME stats[dir[x]] = Nobody, OpenAt(dir[x])
        PROVE \E u \in Users : pc'[u].k = "open" /\ dir'[pc'[u].p] = dir'[x]
    <3>1. PICK u \in Users : pc[u].k = "open" /\ dir[pc[u].p] = dir[x]
      BY <2>5 DEF OpenAt
    <3>2. pc[u].p # p
      BY <2>2, <2>5, <3>1 DEF i
    <3>. QED
      BY <1>5, <1>11, <2>1, <3>1, <3>2
  <2>. QED
    BY <2>1, <2>3, <2>4, <2>5
<1>15. PathsSound'
  BY <1>1, <1>6, <1>7, <1>11, <1>12 DEF PathsSound
<1>16. RowsSound'
  <2>. SUFFICES ASSUME NEW j \in Inos, StatsThen'[j] # Nobody, j \notin leaked' PROVE who'[j] # Nobody
    BY DEF RowsSound
  <2>1. stats[j] # Nobody /\ (j = i => ~ gone)
    BY <1>8
  <2>2. who[j] # Nobody
    BY <1>1, <1>6, <2>1 DEF RowsSound
  <2>3. LinksOf(dir', j) # {}
    <3>1. CASE j = i
      BY <2>1, <3>1 DEF i
    <3>2. CASE j # i
      <4>1. PICK x \in Tree : dir[x] = j
        BY <1>0, <2>2 DEF HostInv, InUse
      <4>. QED
        BY <1>5, <3>2, <4>1 DEF LinksOf, i
    <3>. QED
      BY <3>1, <3>2
  <2>. QED
    BY <1>5, <2>2, <2>3
<1>17. gone => who'[i] \in hurt' \cup {Nobody}
  BY <1>2, <1>5 DEF i
<1>18. Txns'
  BY <1>2, <1>3, <1>6, <1>17 DEF Txns, Deletes
<1>. QED
  BY <1>1, <1>5, <1>9, <1>10, <1>14, <1>15, <1>16, <1>18 DEF Inv

\* unlink after its test: the path may have gone in the meantime, or have got
\* another link or lost one.
LEMMA UnlinkInv ==
  ASSUME Inv, NEW t \in Users, Unlink(t)
  PROVE  Inv'
<1>. DEFINE p == pc[t].p
<1>0. /\ FakeTypeOK /\ HostInv /\ OneInode /\ Txns /\ ThenFacts
      /\ pc[t].k = "test" /\ pc[t] # AtRest /\ LockFree
      /\ UNCHANGED <<tables, mounting, badrow>> /\ UNCHANGED mounting
      /\ paths' = paths /\ stats' = stats /\ badrow' = badrow
      /\ p \in Tree /\ pc[t].gone \in BOOLEAN
  BY ThenIs DEF Inv, Unlink, AtRest, tables, FakeTypeOK, Phases
<1>1. CASE dir[p] = 0 \/ IsDir(p)
  <2>1. pc' = [pc EXCEPT ![t] = AtRest] /\ dir' = dir /\ who' = who /\ hurt' = hurt /\ leaked' = leaked
    BY <1>1 DEF Unlink, hostVars
  <2>2. /\ ~ moved /\ fits /\ StatsSound /\ PathsSound /\ RowsSound
        /\ Quiet' /\ Moved' /\ Rebuild' /\ (StatsSound' /\ PathsSound' /\ RowsSound' => Tables')
    BY <1>0, OnCall
  <2>3. AtRest \in Phases /\ AtRest.k = "idle"
    BY DEF AtRest, Phases
  <2>4. /\ PathsThen = paths /\ StatsThen = stats /\ BadThen = badrow
        /\ PathsThen' = paths' /\ StatsThen' = stats' /\ BadThen' = badrow'
        /\ pc' \in [Users -> Phases] /\ LockFree'
        /\ pc'[t] = AtRest /\ \A u \in Users : u # t => pc'[u] = pc[u]
        /\ \A u, v \in Users : pc'[u].k = "txn" /\ pc'[v].k = "txn" => u = v
    BY <1>0, <2>1, <2>3, EndsCall DEF LockFree, ThenFacts
  <2>5. \A u \in Users : pc[u].k = "open" => pc'[u] = pc[u]
    BY <1>0, <2>4
  <2>6. FakeTypeOK' /\ HostInv' /\ OneInode'
    BY <1>0, <2>1, <2>2, <2>4
    DEF FakeTypeOK, mounting, HostInv, HostTypes, InUse, OneName, Ancestors, IsDir, OneInode
  <2>7. StatsSound'
    BY <1>0, <2>1, <2>2, <2>4, <2>5 DEF StatsSound, Whole, OpenAt
  <2>8. PathsSound' /\ RowsSound'
    BY <1>0, <2>1, <2>2, <2>4, <2>5 DEF PathsSound, RowsSound, Whole
  <2>9. Txns'
    BY <2>4 DEF Txns, LockFree
  <2>. QED
    BY <2>2, <2>6, <2>7, <2>8, <2>9 DEF Inv
<1>2. CASE ~ (dir[p] = 0 \/ IsDir(p))
  <2>. DEFINE gone == pc[t].gone
  <2>1. /\ HostRemoves(p) /\ Txn(t, "remove", p, dir[p], gone)
        /\ hurt' = hurt \cup Bare(p)
                        \cup (IF gone /\ LinksOf(dir', dir[p]) # {} THEN {who[dir[p]]} ELSE {})
        /\ leaked' = IF ~ gone /\ LinksOf(dir', dir[p]) = {} THEN leaked \cup {dir[p]} ELSE leaked
    BY <1>2 DEF Unlink
  <2>2. dir[p] \in Inos /\ who[dir[p]] \in Ids /\ \A r \in Below(p) : dir[r] = 0
    BY <1>0, <1>2, FileOfPath, NothingBelow DEF Below
  <2>3. hurt \subseteq Ids /\ leaked \subseteq Inos
    BY <1>0 DEF FakeTypeOK
  <2>4. Bare(p) = IF StatAnswer(p) = Nobody THEN {who[dir[p]]} ELSE {}
    BY <1>2 DEF Bare
  <2>. HIDE DEF p, gone
  <2>5. /\ hurt \subseteq hurt' /\ hurt' \subseteq Ids /\ leaked \subseteq leaked' /\ leaked' \subseteq Inos
        /\ gone /\ LinksOf(dir', dir[p]) # {} => who[dir[p]] \in hurt'
        /\ StatAnswer(p) = Nobody => who[dir[p]] \in hurt'
        /\ ~ gone /\ LinksOf(dir', dir[p]) = {} => dir[p] \in leaked'
    BY <2>1, <2>2, <2>3, <2>4
  <2>6. gone \in BOOLEAN /\ p \in Tree /\ dir[p] # 0
    BY <1>0, <1>2 DEF gone
  <2>. QED
    BY <1>0, <2>1, <2>2, <2>5, <2>6, RemovesInv
<1>. QED
  BY <1>1, <1>2

\* rmdir: a directory has no other name, so its row can go.
LEMMA RmdirInv ==
  ASSUME Inv, NEW t \in Users, NEW p \in Tree, FakeRmdir(t, p)
  PROVE  Inv'
<1>0. /\ FakeTypeOK /\ HostInv /\ mnt = "on" /\ pc[t].k # "open" /\ LockFree /\ IsDir(p) /\ dir[p] # 0
      /\ \A r \in Below(p) : dir[r] = 0
      /\ HostRemoves(p) /\ Txn(t, "remove", p, dir[p], TRUE)
      /\ UNCHANGED tables /\ UNCHANGED mounting /\ badrow' = badrow
      /\ hurt' = hurt /\ leaked' = leaked
  <2>1. FakeTypeOK /\ HostInv /\ mnt = "on" /\ pc[t].k # "open"
    BY DEF Inv, FakeRmdir, Begins, AtRest
  <2>2. IsDir(p) /\ dir[p] # 0
    BY DEF FakeRmdir, IsDir
  <2>. QED
    BY <2>1, <2>2 DEF FakeRmdir
<1>1. dir'[p] = 0 /\ \A x \in Tree : x # p => dir'[x] = dir[x]
  BY <1>0, HostRemovesIs
<1>2. LinksOf(dir', dir[p]) = {}
  BY <1>0, <1>1 DEF LinksOf, HostInv, OneName
<1>3. hurt' \subseteq Ids /\ leaked' \subseteq Inos
  BY <1>0 DEF FakeTypeOK
<1>. QED
  BY <1>0, <1>2, <1>3, RemovesInv

\* The file goes away before it got a row, or with the one left over.
LEMMA SymlinkFailsInv ==
  ASSUME Inv, NEW t \in Users, SymlinkFails(t)
  PROVE  Inv'
<1>. DEFINE c == pc[t]
            p == c.p
            i == dir[p]
<1>0. /\ FakeTypeOK /\ HostInv /\ OneInode /\ Txns /\ ThenFacts
      /\ c.k = "txn" /\ c # AtRest /\ c.op = "make" /\ Records(c) /\ who[i] \in FileIds
      /\ HostRemoves(p) /\ pc' = [pc EXCEPT ![t] = AtRest]
      /\ UNCHANGED mounting /\ paths' = paths /\ stats' = stats
      /\ hurt' = hurt /\ leaked' = leaked /\ badrow' = badrow
  BY ThenIs DEF Inv, SymlinkFails, AtRest, tables, Records
<1>1. /\ ~ moved /\ fits /\ StatsSound /\ PathsSound /\ RowsSound
      /\ Quiet' /\ Moved' /\ Rebuild' /\ (StatsSound' /\ PathsSound' /\ RowsSound' => Tables')
  BY <1>0, OnCall
<1>2. p \in Tree
  BY <1>0 DEF FakeTypeOK, Phases
<1>3. i # 0 /\ i \in Inos /\ ~ IsDir(p)
  <2>1. i # 0
    BY <1>0 DEF Txns
  <2>. QED
    BY <1>0, <1>2, <2>1, FileOfPath, FakeFsAssumption DEF IsDir
<1>4. (\A x \in Tree : dir[x] = i => x = p) /\ (stats[i] # Nobody => i \in leaked)
  BY <1>0 DEF Txns
<1>5. PathsThen = [paths EXCEPT ![p] = i] /\ StatsThen = [stats EXCEPT ![i] = who[i]] /\ BadThen = badrow \ {p}
  BY <1>0 DEF ThenFacts, PathsAfter, StatsAfter, BadAfter
<1>6. AtRest \in Phases /\ AtRest.k = "idle"
  BY DEF AtRest, Phases
<1>7. /\ PathsThen' = paths' /\ StatsThen' = stats' /\ BadThen' = badrow'
      /\ pc' \in [Users -> Phases] /\ LockFree'
      /\ pc'[t] = AtRest /\ \A u \in Users : u # t => pc'[u] = pc[u]
      /\ \A u, v \in Users : pc'[u].k = "txn" /\ pc'[v].k = "txn" => u = v
  BY <1>0, <1>6, EndsCall DEF FakeTypeOK
<1>. HIDE DEF p, i
<1>8. /\ HostInv'
      /\ dir'[p] = 0
      /\ \A x \in Tree : x # p => dir'[x] = dir[x]
      /\ \A x \in Tree : dir'[x] # 0 => who'[dir'[x]] = who[dir[x]]
      /\ \A j \in Inos : who'[j] = IF LinksOf(dir', j) = {} THEN Nobody ELSE who[j]
  <2>1. \A r \in Below(p) : dir[r] = 0
    BY <1>0, <1>2, <1>3, NothingBelow DEF Below
  <2>2. dir[p] # 0 /\ HostRemoves(p)
    BY <1>0, <1>3 DEF i, p
  <2>. QED
    BY <1>0, <1>2, <2>1, <2>2, HostRemovesIs
<1>9. /\ \A x \in Tree : x # p => PathsThen[x] = paths[x]
      /\ \A j \in Inos : j # i => StatsThen[j] = stats[j]
  BY <1>0, <1>5 DEF FakeTypeOK
<1>10. \A x \in Tree : Whole(x)' =>
         /\ Whole(x) /\ x # p /\ dir'[x] = dir[x] /\ who'[dir[x]] = who[dir[x]]
         /\ dir[x] \in Inos /\ dir[x] # i
  BY <1>0, <1>4, <1>8, FileOfPath DEF Whole
<1>11. \A u \in Users : pc[u].k = "open" => pc'[u] = pc[u] /\ pc[u].p \in Tree
  BY <1>0, <1>7 DEF FakeTypeOK, Phases
<1>12. FakeTypeOK'
  BY <1>0, <1>7, <1>8 DEF FakeTypeOK, mounting, HostInv, HostTypes
<1>13. OneInode'
  BY <1>0, <1>8, OneInodeStays DEF mounting
<1>14. StatsSound'
  <2>. SUFFICES ASSUME NEW x \in Tree, Whole(x)'
                PROVE  \/ StatsThen'[dir'[x]] = who'[dir'[x]]
                       \/ /\ StatsThen'[dir'[x]] = Nobody
                          /\ \E u \in Users : pc'[u].k = "open" /\ dir'[pc'[u].p] = dir'[x]
    BY DEF StatsSound, OpenAt
  <2>1. /\ Whole(x) /\ x # p /\ dir'[x] = dir[x] /\ who'[dir[x]] = who[dir[x]]
        /\ dir[x] \in Inos /\ dir[x] # i
    BY <1>10
  <2>2. StatsThen'[dir[x]] = StatsThen[dir[x]]
    BY <1>0, <1>7, <1>9, <2>1
  <2>3. StatsThen[dir[x]] = who[dir[x]] \/ (StatsThen[dir[x]] = Nobody /\ OpenAt(dir[x]))
    BY <1>1, <2>1 DEF StatsSound
  <2>4. ASSUME OpenAt(dir[x]) PROVE \E u \in Users : pc'[u].k = "open" /\ dir'[pc'[u].p] = dir'[x]
    <3>1. PICK u \in Users : pc[u].k = "open" /\ dir[pc[u].p] = dir[x]
      BY <2>4 DEF OpenAt
    <3>. QED
      BY <1>8, <1>11, <2>1, <3>1 DEF i
  <2>. QED
    BY <2>1, <2>2, <2>3, <2>4
<1>15. PathsSound'
  <2>. SUFFICES ASSUME NEW x \in Tree, Whole(x)', x \notin badrow
                PROVE  paths[x] = dir'[x] \/ \E u \in Users : pc'[u].k = "open" /\ pc'[u].p = x
    BY <1>0, <1>7 DEF PathsSound
  <2>1. Whole(x) /\ x # p /\ dir'[x] = dir[x] /\ x \notin BadThen
    BY <1>5, <1>10
  <2>2. PathsThen[x] = dir[x] \/ \E u \in Users : pc[u].k = "open" /\ pc[u].p = x
    BY <1>1, <2>1 DEF PathsSound
  <2>. QED
    BY <1>9, <1>11, <2>1, <2>2
<1>16. RowsSound'
  <2>. SUFFICES ASSUME NEW j \in Inos, stats[j] # Nobody, j \notin leaked PROVE who'[j] # Nobody
    BY <1>0, <1>7 DEF RowsSound
  <2>1. j # i /\ StatsThen[j] = stats[j]
    BY <1>4, <1>9
  <2>2. who[j] # Nobody
    BY <1>1, <2>1 DEF RowsSound
  <2>3. PICK x \in Tree : dir[x] = j
    BY <1>0, <2>2 DEF HostInv, InUse
  <2>4. x \in LinksOf(dir', j)
    BY <1>8, <2>1, <2>3 DEF LinksOf, i
  <2>. QED
    BY <1>8, <2>2, <2>4
<1>17. Txns'
  BY <1>7 DEF Txns, LockFree
<1>. QED
  BY <1>1, <1>8, <1>12, <1>13, <1>14, <1>15, <1>16, <1>17 DEF Inv

\* The commit writes what the invariant has said of the tables since the host
\* was changed.
LEMMA CommitInv ==
  ASSUME Inv, NEW t \in Users, Commit(t)
  PROVE  Inv'
<1>0. /\ FakeTypeOK /\ HostInv /\ OneInode /\ Txns /\ ThenFacts
      /\ pc[t].k = "txn" /\ pc[t] # AtRest
      /\ paths' = PathsAfter(pc[t]) /\ stats' = StatsAfter(pc[t]) /\ badrow' = BadAfter(pc[t])
      /\ leaked' = {i \in leaked : stats'[i] # Nobody}
      /\ pc' = [pc EXCEPT ![t] = AtRest]
      /\ UNCHANGED mounting /\ dir' = dir /\ who' = who /\ hurt' = hurt
  BY ThenIs DEF Inv, Commit, AtRest, hostVars, BadAfter
<1>1. /\ ~ moved /\ fits /\ StatsSound /\ PathsSound /\ RowsSound
      /\ Quiet' /\ Moved' /\ Rebuild' /\ (StatsSound' /\ PathsSound' /\ RowsSound' => Tables')
  BY <1>0, OnCall
<1>2. AtRest \in Phases /\ AtRest.k = "idle"
  BY DEF AtRest, Phases
<1>3. /\ PathsThen' = paths' /\ StatsThen' = stats' /\ BadThen' = badrow'
      /\ pc' \in [Users -> Phases] /\ LockFree'
      /\ pc'[t] = AtRest /\ \A u \in Users : u # t => pc'[u] = pc[u]
      /\ \A u, v \in Users : pc'[u].k = "txn" /\ pc'[v].k = "txn" => u = v
  BY <1>0, <1>2, EndsCall DEF FakeTypeOK
<1>4. PathsThen' = PathsThen /\ StatsThen' = StatsThen /\ BadThen' = BadThen
  BY <1>0, <1>3 DEF ThenFacts
<1>5. paths' \in [Tree -> Inos \cup {0}] /\ stats' \in [Inos -> Ids \cup {Nobody}]
  BY <1>3, <1>4, ThenTypes
<1>6. badrow' \subseteq Tree /\ leaked' \subseteq Inos
  BY <1>0 DEF BadAfter, FakeTypeOK
<1>7. FakeTypeOK' /\ HostInv' /\ OneInode'
  BY <1>0, <1>1, <1>3, <1>5, <1>6
  DEF FakeTypeOK, mounting, HostInv, HostTypes, InUse, OneName, Ancestors, IsDir, OneInode
<1>8. \A u \in Users : pc[u].k = "open" => pc'[u] = pc[u]
  BY <1>0, <1>3
<1>9. StatsSound'
  BY <1>0, <1>1, <1>4, <1>8 DEF StatsSound, Whole, OpenAt
<1>10. PathsSound'
  BY <1>0, <1>1, <1>4, <1>8 DEF PathsSound, Whole
<1>11. RowsSound'
  BY <1>0, <1>1, <1>3, <1>4 DEF RowsSound
<1>12. Txns'
  BY <1>3 DEF Txns, LockFree
<1>. QED
  BY <1>1, <1>7, <1>9, <1>10, <1>11, <1>12 DEF Inv

\* rename: the file that was at q loses its row even if it has another name,
\* and what lay below p has rows for paths that are gone: these files are hurt.
LEMMA RenameInv ==
  ASSUME Inv, NEW t \in Users, NEW p \in Tree, NEW q \in Tree, Rename(t, p, q)
  PROVE  Inv'
<1>. DEFINE lost == IF dir[q] # 0 /\ dir[q] # dir[p] /\ LinksOf(Renaming(p, q), dir[q]) # {}
                    THEN {who[dir[q]]} ELSE {}
            below == {who[dir[r]] : r \in {r \in Below(p) : dir[r] # 0}}
<1>0. /\ FakeTypeOK /\ HostInv /\ OneInode /\ Txns /\ ThenFacts
      /\ mnt = "on" /\ pc[t].k = "idle" /\ LockFree
      /\ dir[p] # 0 /\ ParentExists(q) /\ ~ IsPrefix(p, q) /\ ~ IsPrefix(q, p)
      /\ dir[q] # 0 => (IsDir(p) <=> IsDir(q)) /\ \A r \in Below(q) : dir[r] = 0
      /\ \A r \in Below(p) : dir[r] # 0 => Renamed(p, q, r) \in Tree
      /\ IF dir[p] = dir[q] THEN UNCHANGED hostVars ELSE dir' = Renaming(p, q) /\ who' = Freed(dir', who)
      /\ Txn(t, "rename", q, dir[q], FALSE)
      /\ hurt' = hurt \cup Bare(p) \cup lost \cup below
      /\ UNCHANGED mounting /\ paths' = paths /\ stats' = stats
      /\ leaked' = leaked /\ badrow' = badrow
  <2>1. /\ FakeTypeOK /\ HostInv /\ OneInode /\ Txns /\ ThenFacts
        /\ mnt = "on" /\ pc[t].k = "idle"
    BY ThenIs DEF Inv, Rename, Begins, AtRest
  <2>. QED
    BY <2>1 DEF Rename, Begins, tables
<1>1. /\ ~ moved /\ fits /\ StatsSound /\ PathsSound /\ RowsSound
      /\ Quiet' /\ Moved' /\ Rebuild' /\ (StatsSound' /\ PathsSound' /\ RowsSound' => Tables')
  BY <1>0, OnCall
<1>2. dir[q] \in Inos \cup {0}
  BY <1>0 DEF FakeTypeOK
<1>3. PICK c \in Phases :
        /\ pc' = [pc EXCEPT ![t] = c]
        /\ c.k = "txn" /\ c.p = q /\ c.op = "rename" /\ c.old = dir[q] /\ Records(c)
  <2>. DEFINE d == [k |-> "txn", op |-> "rename", p |-> q, old |-> dir[q], gone |-> FALSE]
  <2>1. d \in Phases /\ d.k = "txn" /\ d.p = q /\ d.op = "rename" /\ d.old = dir[q] /\ Records(d)
    BY <1>2 DEF Phases, Records
  <2>2. pc' = [pc EXCEPT ![t] = d]
    BY <1>0 DEF Txn
  <2>. QED
    BY <2>1, <2>2
<1>4. /\ PathsThen = paths /\ StatsThen = stats /\ BadThen = badrow
      /\ pc' \in [Users -> Phases] /\ ~ LockFree'
      /\ \A u, v \in Users : pc'[u].k = "txn" /\ pc'[v].k = "txn" => u = v
      /\ pc'[t] = c /\ \A u \in Users : pc'[u].k = "txn" => u = t
      /\ \A u \in Users : u # t => pc'[u] = pc[u]
      /\ PathsThen' = PathsAfter(c)' /\ StatsThen' = StatsAfter(c)' /\ BadThen' = BadAfter(c)'
  BY <1>0, <1>3, BeginsTxn DEF tables
<1>5. /\ PathsThen' = [paths EXCEPT ![q] = dir'[q]] /\ BadThen' = badrow \ {q}
      /\ StatsThen' = IF dir[q] # 0 /\ dir[q] # dir'[q] THEN [stats EXCEPT ![dir[q]] = Nobody] ELSE stats
  BY <1>0, <1>3, <1>4 DEF PathsAfter, StatsAfter, BadAfter
<1>6. PathsThen'[q] = dir'[q] /\ \A x \in Tree : x # q => PathsThen'[x] = paths[x]
  BY <1>0, <1>5 DEF FakeTypeOK
<1>7. \A u \in Users : pc[u].k = "open" => pc'[u] = pc[u] /\ pc[u].p \in Tree
  BY <1>0, <1>4 DEF FakeTypeOK, Phases
<1>8. /\ hurt \subseteq hurt' /\ hurt' \subseteq Ids
      /\ StatAnswer(p) = Nobody => who[dir[p]] \in hurt'
      /\ \A r \in Below(p) : dir[r] # 0 => who[dir[r]] \in hurt'
      /\ dir[q] # 0 /\ dir[q] # dir[p] /\ LinksOf(Renaming(p, q), dir[q]) # {} => who[dir[q]] \in hurt'
  <2>1. \A x \in Tree : dir[x] # 0 => who[dir[x]] \in Ids
    BY <1>0, FileOfPath
  <2>2. Bare(p) \subseteq Ids /\ (StatAnswer(p) = Nobody => who[dir[p]] \in Bare(p))
    BY <1>0, <2>1 DEF Bare
  <2>3. lost \subseteq Ids
    BY <2>1
  <2>4. below \subseteq Ids
    BY <2>1 DEF Below
  <2>5. \A r \in Below(p) : dir[r] # 0 => who[dir[r]] \in below
    OBVIOUS
  <2>6. dir[q] # 0 /\ dir[q] # dir[p] /\ LinksOf(Renaming(p, q), dir[q]) # {} => who[dir[q]] \in lost
    OBVIOUS
  <2>. HIDE DEF lost, below
  <2>. QED
    BY <1>0, <2>2, <2>3, <2>4, <2>5, <2>6 DEF FakeTypeOK
<1>9. CASE dir[p] = dir[q]
  <2>1. dir' = dir /\ who' = who /\ StatsThen' = stats
    BY <1>0, <1>5, <1>9 DEF hostVars
  <2>2. FakeTypeOK'
    BY <1>0, <1>4, <1>8, <2>1 DEF FakeTypeOK, mounting
  <2>3. HostInv' /\ OneInode'
    BY <1>0, <1>1, <1>8, <2>1 DEF HostInv, HostTypes, InUse, OneName, Ancestors, IsDir, OneInode
  <2>4. \A x \in Tree : Whole(x)' => Whole(x)
    BY <1>8, <2>1 DEF Whole
  <2>5. StatsSound'
    BY <1>1, <1>4, <1>7, <2>1, <2>4 DEF StatsSound, OpenAt
  <2>6. PathsSound'
    <3>. SUFFICES ASSUME NEW x \in Tree, Whole(x)', x \notin BadThen'
                  PROVE  PathsThen'[x] = dir[x] \/ \E u \in Users : pc'[u].k = "open" /\ pc'[u].p = x
      BY <2>1 DEF PathsSound
    <3>1. CASE x = q
      BY <1>6, <2>1, <3>1
    <3>2. CASE x # q
      <4>1. paths[x] = dir[x] \/ \E u \in Users : pc[u].k = "open" /\ pc[u].p = x
        BY <1>1, <1>4, <1>5, <2>4, <3>2 DEF PathsSound
      <4>. QED
        BY <1>6, <1>7, <3>2, <4>1
    <3>. QED
      BY <3>1, <3>2
  <2>7. RowsSound'
    BY <1>0, <1>1, <1>4, <2>1 DEF RowsSound
  <2>8. Txns'
    BY <1>0, <1>3, <1>4, <1>9, <2>1 DEF Txns, Deletes
  <2>. QED
    BY <1>1, <2>2, <2>3, <2>5, <2>6, <2>7, <2>8 DEF Inv
<1>10. CASE dir[p] # dir[q]
  <2>1. /\ HostInv' /\ dir'[q] = dir[p]
        /\ \A x \in Tree : IsPrefix(p, x) => dir'[x] = 0
        /\ \A x \in Tree : ~ IsPrefix(p, x) /\ ~ IsPrefix(q, x) => dir'[x] = dir[x]
        /\ \A x \in Tree : IsStrictPrefix(q, x) /\ dir'[x] # 0 =>
             \E r \in Below(p) : dir[r] # 0 /\ dir'[x] = dir[r]
        /\ \A x \in Tree : dir[x] # 0 /\ dir[x] # dir[q] => \E y \in Tree : dir'[y] = dir[x]
        /\ \A x \in Tree : IsStrictPrefix(q, x) => dir[x] = 0
        /\ \A x \in Tree : dir'[x] # 0 => who'[dir'[x]] = who[dir'[x]]
        /\ \A i \in Inos : who'[i] = IF LinksOf(dir', i) = {} THEN Nobody ELSE who[i]
    BY <1>0, <1>10, HostRenames
  <2>2. dir[q] # 0 /\ LinksOf(dir', dir[q]) # {} => who[dir[q]] \in hurt'
    BY <1>0, <1>8, <1>10
  <2>3. /\ dir[q] # 0 => StatsThen'[dir[q]] = Nobody
        /\ \A i \in Inos : i # dir[q] => StatsThen'[i] = stats[i]
    BY <1>0, <1>2, <1>5, <1>10, <2>1 DEF FakeTypeOK
  <2>4. FakeTypeOK'
    BY <1>0, <1>4, <1>8, <2>1 DEF FakeTypeOK, mounting, HostInv, HostTypes
  <2>5. OneInode'
    BY <1>0, <1>8, <2>1, OneInodeStays DEF mounting
  <2>6. ASSUME NEW x \in Tree, Whole(x)'
        PROVE  /\ dir'[x] \in Inos /\ dir'[x] # 0 /\ who'[dir'[x]] = who[dir'[x]] /\ dir'[x] # dir[q]
               /\ x = q \/ (dir'[x] = dir[x] /\ Whole(x) /\ ~ IsPrefix(p, x) /\ ~ IsPrefix(q, x))
    <3>1. /\ dir'[x] \in Inos /\ dir'[x] # 0 /\ who'[dir'[x]] = who[dir'[x]]
          /\ who[dir'[x]] \notin hurt'
      BY <2>1, <2>4, <2>6 DEF Whole, FakeTypeOK
    <3>2. dir'[x] # dir[q]
      BY <2>2, <3>1 DEF LinksOf
    <3>3. ~ IsStrictPrefix(q, x)
      BY <1>8, <2>1, <3>1
    <3>4. IsPrefix(q, x) => x = q
      BY <3>3, PrefixOrder
    <3>5. ~ IsPrefix(p, x)
      BY <2>1, <3>1
    <3>6. x # q => dir'[x] = dir[x] /\ Whole(x)
      BY <1>8, <2>1, <3>1, <3>4, <3>5 DEF Whole
    <3>. QED
      BY <3>1, <3>2, <3>4, <3>5, <3>6
  <2>7. StatsSound'
    <3>. SUFFICES ASSUME NEW x \in Tree, Whole(x)'
                  PROVE  \/ StatsThen'[dir'[x]] = who'[dir'[x]]
                         \/ /\ StatsThen'[dir'[x]] = Nobody
                            /\ \E u \in Users : pc'[u].k = "open" /\ dir'[pc'[u].p] = dir'[x]
      BY DEF StatsSound, OpenAt
    <3>1. /\ dir'[x] \in Inos /\ dir'[x] # 0 /\ who'[dir'[x]] = who[dir'[x]] /\ dir'[x] # dir[q]
          /\ x = q \/ (dir'[x] = dir[x] /\ Whole(x) /\ ~ IsPrefix(p, x) /\ ~ IsPrefix(q, x))
      BY <2>6
    <3>2. StatsThen'[dir'[x]] = stats[dir'[x]]
      BY <2>3, <3>1
    <3>3. who[dir'[x]] \notin hurt'
      BY <3>1 DEF Whole
    <3>4. PICK y \in Tree : dir[y] = dir'[x] /\ Whole(y)
      BY <1>0, <1>8, <2>1, <3>1, <3>3 DEF Whole
    <3>5. stats[dir[y]] = who[dir[y]] \/ (stats[dir[y]] = Nobody /\ OpenAt(dir[y]))
      BY <1>1, <1>4, <3>4 DEF StatsSound
    <3>6. ASSUME stats[dir[y]] = Nobody, OpenAt(dir[y])
          PROVE  \E u \in Users : pc'[u].k = "open" /\ dir'[pc'[u].p] = dir'[x]
      <4>1. PICK u \in Users : pc[u].k = "open" /\ dir[pc[u].p] = dir[y]
        BY <3>6 DEF OpenAt
      <4>. DEFINE z == pc[u].p
      <4>2. z \in Tree /\ dir[z] = dir'[x] /\ pc'[u] = pc[u]
        BY <1>7, <3>4, <4>1
      <4>. HIDE DEF z
      <4>3. dir[z] # dir[p]
        BY <1>0, <1>8, <3>3, <3>4, <3>6, <4>2 DEF StatAnswer
      <4>4. ~ IsPrefix(p, z)
        <5>1. z # p /\ z \notin Below(p)
          BY <1>8, <3>1, <3>3, <4>2, <4>3
        <5>. QED
          BY <4>2, <5>1, PrefixOrder DEF Below
      <4>5. ~ IsPrefix(q, z)
        <5>1. z # q /\ ~ IsStrictPrefix(q, z)
          BY <2>1, <3>1, <4>2
        <5>. QED
          BY <4>2, <5>1, PrefixOrder
      <4>6. dir'[z] = dir[z]
        BY <2>1, <4>2, <4>4, <4>5
      <4>. QED
        BY <4>1, <4>2, <4>6 DEF z
    <3>. QED
      BY <3>1, <3>2, <3>4, <3>5, <3>6
  <2>8. PathsSound'
    <3>. SUFFICES ASSUME NEW x \in Tree, Whole(x)', x \notin BadThen'
                  PROVE  PathsThen'[x] = dir'[x] \/ \E u \in Users : pc'[u].k = "open" /\ pc'[u].p = x
      BY DEF PathsSound
    <3>1. CASE x = q
      BY <1>6, <3>1
    <3>2. CASE x # q
      <4>1. dir'[x] = dir[x] /\ Whole(x)
        BY <2>6, <3>2
      <4>2. paths[x] = dir[x] \/ \E u \in Users : pc[u].k = "open" /\ pc[u].p = x
        BY <1>1, <1>4, <1>5, <3>2, <4>1 DEF PathsSound
      <4>. QED
        BY <1>6, <1>7, <3>2, <4>1, <4>2
    <3>. QED
      BY <3>1, <3>2
  <2>9. RowsSound'
    <3>. SUFFICES ASSUME NEW i \in Inos, StatsThen'[i] # Nobody, i \notin leaked PROVE who'[i] # Nobody
      BY <1>0 DEF RowsSound
    <3>1. i # dir[q] /\ stats[i] # Nobody /\ i # 0
      BY <2>3, FakeFsAssumption
    <3>2. who[i] # Nobody
      BY <1>1, <1>4, <3>1 DEF RowsSound
    <3>3. PICK x \in Tree : dir[x] = i
      BY <1>0, <3>2 DEF HostInv, InUse
    <3>4. LinksOf(dir', i) # {}
      BY <2>1, <3>1, <3>3 DEF LinksOf
    <3>. QED
      BY <2>1, <3>2, <3>4
  <2>10. dir[q] # 0 => who'[dir[q]] \in hurt' \cup {Nobody}
    BY <1>2, <2>1, <2>2
  <2>11. Txns'
    BY <1>0, <1>3, <1>4, <2>1, <2>10 DEF Txns, Deletes
  <2>. QED
    BY <1>1, <2>1, <2>4, <2>5, <2>7, <2>8, <2>9, <2>11 DEF Inv
<1>. QED
  BY <1>9, <1>10

(***************************************************************************)
(* Crashes, copies and mounting                                            *)
(***************************************************************************)

\* A crash undoes the transaction, and what the host has kept of it is hurt.
LEMMA GoesDownInv ==
  ASSUME Inv, GoesDown
  PROVE  Inv'
<1>0. /\ FakeTypeOK /\ HostInv /\ OneInode /\ Tables /\ Txns /\ Quiet /\ Moved /\ ThenFacts
      /\ hurt' = hurt \cup UNION {HalfDone(t) : t \in Users}
      /\ leaked' = leaked \cup {i \in Inos : stats[i] # Nobody /\ who[i] = Nobody}
      /\ pc' = [t \in Users |-> AtRest] /\ mnt' = "off" /\ rb' = NoRebuild
      /\ dir' = dir /\ who' = who /\ paths' = paths /\ stats' = stats
      /\ moved' = moved /\ fits' = fits /\ badrow' = badrow
  BY ThenIs DEF Inv, GoesDown, hostVars, tables
<1>1. AtRest \in Phases /\ AtRest.k = "idle"
  BY DEF AtRest, Phases
<1>2. \A t \in Users : pc'[t] = AtRest
  BY <1>0
<1>3. LockFree' /\ PathsThen' = paths /\ StatsThen' = stats /\ BadThen' = badrow
  BY <1>0, <1>1, <1>2 DEF LockFree, PathsThen, StatsThen, BadThen
<1>4. ASSUME NEW t \in Users PROVE HalfDone(t) \subseteq Ids /\ HalfDone(t) \subseteq hurt'
  <2>1. HalfDone(t) \subseteq hurt'
    BY <1>0
  <2>2. CASE pc[t].k = "open"
    <3>1. pc[t].p \in Tree
      BY <1>0, <2>2 DEF FakeTypeOK, Phases
    <3>. QED
      BY <1>0, <2>1, <2>2, <3>1, FileOfPath DEF HalfDone
  <2>3. CASE pc[t].k = "txn"
    <3>1. pc[t].p \in Tree /\ (pc[t].op # "remove" => dir[pc[t].p] # 0)
      BY <1>0, <2>3 DEF FakeTypeOK, Phases, Txns, Records
    <3>. QED
      BY <1>0, <2>1, <2>3, <3>1, FileOfPath DEF HalfDone
  <2>. QED
    BY <2>1, <2>2, <2>3 DEF HalfDone
<1>5. hurt \subseteq hurt' /\ hurt' \subseteq Ids
  BY <1>0, <1>4 DEF FakeTypeOK
<1>6. FakeTypeOK'
  BY <1>0, <1>1, <1>2, <1>5 DEF FakeTypeOK
<1>7. HostInv' /\ OneInode'
  BY <1>0, <1>5 DEF HostInv, HostTypes, InUse, OneName, Ancestors, IsDir, OneInode
<1>8. Txns' /\ Quiet' /\ Rebuild'
  BY <1>0, <1>1, <1>2 DEF Txns, Quiet, Rebuild
<1>9. \A x \in Tree : Whole(x)' => Whole(x)
  BY <1>0, <1>5 DEF Whole
<1>10. Moved'
  <2>. SUFFICES ASSUME moved PROVE Known' /\ Apart' /\ (fits \/ Together')
    BY <1>0 DEF Moved
  <2>1. Known /\ Apart /\ (fits \/ Together)
    BY <1>0 DEF Moved
  <2>2. Known'
    BY <1>0, <1>9, <2>1 DEF Known
  <2>3. Apart'
    BY <1>0, <1>9, <2>1 DEF Apart
  <2>4. Together => Together'
    BY <1>0, <1>9 DEF Together, IsDir
  <2>. QED
    BY <2>1, <2>2, <2>3, <2>4
<1>11. Tables'
  <2>. SUFFICES ASSUME ~ moved PROVE StatsSound' /\ PathsSound' /\ RowsSound'
    BY <1>0 DEF Tables
  <2>1. StatsSound /\ PathsSound /\ RowsSound
    BY <1>0 DEF Tables
  <2>2. ASSUME NEW t \in Users, pc[t].k = "txn", NEW x \in Tree, Whole(x)'
        PROVE  /\ StatsThen[dir[x]] = stats[dir[x]]
               /\ PathsThen[x] = paths[x] /\ (x \in BadThen => x \in badrow)
    <3>1. PathsThen = PathsAfter(pc[t]) /\ StatsThen = StatsAfter(pc[t]) /\ BadThen = BadAfter(pc[t])
      BY <1>0, <2>2 DEF ThenFacts
    <3>2. /\ pc[t].p \in Tree /\ pc[t].old \in Inos \cup {0}
          /\ pc[t].op \in {"make", "link", "remove", "rename"}
      BY <1>0, <2>2 DEF FakeTypeOK, Phases
    <3>3. who[dir[x]] \notin hurt' /\ Whole(x) /\ dir[x] \in Inos /\ who[dir[x]] # Nobody
      BY <1>0, <1>9, <2>2, FileOfPath DEF Whole
    <3>4. pc[t].op # "remove" => who[dir[pc[t].p]] \in hurt'
      BY <1>4, <2>2 DEF HalfDone
    <3>5. x \in BadThen => x \in badrow
      BY <3>1 DEF BadAfter
    <3>6. PathsThen[x] = paths[x]
      <4>1. Records(pc[t]) => pc[t].p # x
        BY <3>3, <3>4 DEF Records
      <4>. QED
        BY <1>0, <3>1, <4>1 DEF PathsAfter, FakeTypeOK
    <3>7. StatsThen[dir[x]] = stats[dir[x]]
      <4>1. CASE pc[t].op = "make"
        <5>1. StatsThen = [stats EXCEPT ![dir[pc[t].p]] = who[dir[pc[t].p]]] /\ dir[pc[t].p] # dir[x]
          BY <3>1, <3>3, <3>4, <4>1 DEF StatsAfter
        <5>. QED
          BY <1>0, <3>3, <5>1 DEF FakeTypeOK
      <4>2. CASE Deletes(pc[t]) /\ pc[t].op # "make"
        <5>1. StatsThen = [stats EXCEPT ![pc[t].old] = Nobody]
          BY <3>1, <4>2 DEF StatsAfter, Deletes
        <5>2. stats[pc[t].old] = Nobody \/ who[pc[t].old] \in hurt \cup {Nobody}
          BY <1>0, <2>2, <4>2 DEF Txns
        <5>3. pc[t].old = dir[x] => stats[dir[x]] = Nobody
          BY <1>5, <3>3, <5>2
        <5>. QED
          BY <1>0, <3>3, <5>1, <5>3 DEF FakeTypeOK
      <4>3. CASE ~ Deletes(pc[t]) /\ pc[t].op # "make"
        BY <3>1, <4>3 DEF StatsAfter, Deletes
      <4>. QED
        BY <4>1, <4>2, <4>3
    <3>. QED
      BY <3>5, <3>6, <3>7
  <2>3. ASSUME NEW x \in Tree, Whole(x)'
        PROVE  /\ StatsThen[dir[x]] = stats[dir[x]]
               /\ PathsThen[x] = paths[x] /\ (x \in BadThen => x \in badrow)
    <3>1. CASE LockFree
      BY <1>0, <3>1 DEF ThenFacts
    <3>2. CASE ~ LockFree
      BY <2>2, <2>3, <3>2 DEF LockFree
    <3>. QED
      BY <3>1, <3>2
  <2>4. StatsSound'
    <3>. SUFFICES ASSUME NEW x \in Tree, Whole(x)' PROVE stats[dir[x]] = who[dir[x]]
      BY <1>0, <1>3 DEF StatsSound
    <3>1. Whole(x) /\ who[dir[x]] \notin hurt' /\ dir[x] # 0
      BY <1>0, <1>9 DEF Whole
    <3>2. stats[dir[x]] = who[dir[x]] \/ (stats[dir[x]] = Nobody /\ OpenAt(dir[x]))
      BY <2>1, <2>3, <3>1 DEF StatsSound
    <3>3. ASSUME stats[dir[x]] = Nobody, OpenAt(dir[x]) PROVE FALSE
      <4>1. PICK u \in Users : pc[u].k = "open" /\ dir[pc[u].p] = dir[x]
        BY <3>3 DEF OpenAt
      <4>2. who[dir[x]] \in HalfDone(u)
        BY <3>1, <3>3, <4>1 DEF HalfDone, StatAnswer
      <4>. QED
        BY <1>4, <3>1, <4>2
    <3>. QED
      BY <3>2, <3>3
  <2>5. PathsSound'
    <3>. SUFFICES ASSUME NEW x \in Tree, Whole(x)', x \notin badrow PROVE paths[x] = dir[x]
      BY <1>0, <1>3 DEF PathsSound
    <3>1. Whole(x) /\ who[dir[x]] \notin hurt' /\ dir[x] # 0
      BY <1>0, <1>9 DEF Whole
    <3>2. paths[x] = dir[x] \/ \E u \in Users : pc[u].k = "open" /\ pc[u].p = x
      BY <2>1, <2>3, <3>1 DEF PathsSound
    <3>3. ASSUME NEW u \in Users, pc[u].k = "open", pc[u].p = x, paths[x] # dir[x] PROVE FALSE
      <4>1. who[dir[x]] \in HalfDone(u)
        BY <3>1, <3>3 DEF HalfDone
      <4>. QED
        BY <1>4, <3>1, <4>1
    <3>. QED
      BY <3>2, <3>3
  <2>6. RowsSound'
    BY <1>0, <1>3 DEF RowsSound
  <2>. QED
    BY <2>4, <2>5, <2>6
<1>. QED
  BY <1>6, <1>7, <1>8, <1>10, <1>11 DEF Inv

\* Unmounting waits for no call, as none is under way.
LEMMA UnmountInv ==
  ASSUME Inv, Unmount
  PROVE  Inv'
<1>0. /\ UNCHANGED <<dir, who, paths, stats, pc, moved, fits, hurt, leaked, badrow>>
      /\ mnt = "on" /\ mnt' = "off" /\ \A t \in Users : pc[t] = AtRest
      /\ FakeTypeOK /\ HostInv /\ OneInode /\ Tables /\ Txns /\ Quiet /\ Moved
  BY DEF Inv, Unmount, hostVars, tables
<1>1. FakeTypeOK' /\ HostInv' /\ OneInode'
  BY <1>0 DEF FakeTypeOK, HostInv, HostTypes, InUse, OneName, Ancestors, IsDir, OneInode
<1>2. Quiet' /\ Moved' /\ Rebuild'
  BY <1>0 DEF Quiet, Moved, Rebuild
<1>3. Txns'
  BY <1>0 DEF Txns, Records, Deletes
<1>4. PathsThen' = PathsThen /\ StatsThen' = StatsThen /\ BadThen' = BadThen
  BY <1>0 DEF PathsThen, StatsThen, BadThen, LockFree, AtRest
<1>5. Tables'
  BY <1>0, <1>4 DEF Tables, StatsSound, PathsSound, RowsSound, Whole, OpenAt, Quiet
<1>. QED
  BY <1>1, <1>2, <1>3, <1>5 DEF Inv

\* Mounting a tree that has been moved starts a rebuild with nothing done.
LEMMA MountInv ==
  ASSUME Inv, Mount
  PROVE  Inv'
<1>0. /\ UNCHANGED <<dir, who, paths, stats, pc, moved, fits, hurt, leaked, badrow>>
      /\ mnt = "off" /\ mnt' = IF moved THEN "rebuild" ELSE "on"
      /\ moved => rb' = [todo |-> {p \in Tree : paths[p] # 0}, table |-> [i \in Inos |-> << >>],
                         paths |-> [p \in Tree |-> 0], stats |-> [i \in Inos |-> Nobody],
                         at |-> << >>, ino |-> 0, file |-> Nobody, refused |-> {}]
      /\ FakeTypeOK /\ HostInv /\ OneInode /\ Tables /\ Txns /\ Quiet /\ Moved
  BY DEF Inv, Mount, NoRebuild, hostVars, tables
<1>1. \A t \in Users : pc[t] = AtRest
  BY <1>0 DEF Quiet
<1>2. FakeTypeOK'
  <2>1. moved => rb' \in RbTypes
    BY <1>0 DEF RbTypes
  <2>. QED
    BY <1>0, <2>1 DEF FakeTypeOK
<1>3. HostInv' /\ OneInode'
  BY <1>0 DEF HostInv, HostTypes, InUse, OneName, Ancestors, IsDir, OneInode
<1>4. Quiet'
  BY <1>0, <1>1 DEF Quiet
<1>5. Moved'
  BY <1>0 DEF Moved, Known, Apart, Together, Whole, IsDir
<1>6. Txns'
  BY <1>0, <1>1 DEF Txns, AtRest
<1>7. PathsThen' = PathsThen /\ StatsThen' = StatsThen /\ BadThen' = BadThen
  BY <1>0, <1>1 DEF PathsThen, StatsThen, BadThen, LockFree, AtRest
<1>8. Tables'
  BY <1>0, <1>7 DEF Tables, StatsSound, PathsSound, RowsSound, Whole, OpenAt
<1>9. Rebuild'
  <2>. SUFFICES ASSUME moved PROVE Rebuild'
    BY <1>0 DEF Rebuild
  <2>1. /\ rb'.todo = {p \in Tree : paths[p] # 0} /\ \A i \in Inos : rb'.table[i] = << >>
        /\ rb'.at = << >> /\ \A p \in Tree : rb'.paths[p] = 0
    BY <1>0
  <2>2. \A p \in Tree : ~ Done(p)'
    BY <1>0, <2>1 DEF Done
  <2>. QED
    BY <1>0, <2>1, <2>2
    DEF Rebuild, TableSound, Relinked, NewStats, NewPaths, NewNumbers, NewApart, Unlinked
<1>. QED
  BY <1>2, <1>3, <1>4, <1>5, <1>6, <1>8, <1>9 DEF Inv

\* The file system comes up on the tables of the rebuild.
LEMMA SavesInodeInv ==
  ASSUME Inv, SavesInode
  PROVE  Inv'
<1>0. /\ UNCHANGED <<dir, who, paths, stats, pc, fits, hurt, leaked, badrow>>
      /\ mnt = "rebuilt" /\ mnt' = "on" /\ moved' = FALSE
      /\ FakeTypeOK /\ HostInv /\ OneInode /\ Tables /\ Txns /\ Quiet /\ Moved
  BY DEF Inv, SavesInode, hostVars, tables
<1>1. FakeTypeOK' /\ HostInv' /\ OneInode'
  BY <1>0 DEF FakeTypeOK, HostInv, HostTypes, InUse, OneName, Ancestors, IsDir, OneInode
<1>2. Quiet' /\ Moved' /\ Rebuild'
  BY <1>0 DEF Quiet, Moved, Rebuild
<1>3. \A t \in Users : pc[t].k = "idle"
  BY <1>0 DEF Quiet, AtRest
<1>4. Txns'
  BY <1>0, <1>3 DEF Txns
<1>5. PathsThen' = PathsThen /\ StatsThen' = StatsThen /\ BadThen' = BadThen
  BY <1>0, <1>3 DEF PathsThen, StatsThen, BadThen, LockFree
<1>6. Tables'
  BY <1>0, <1>5 DEF Tables, StatsSound, PathsSound, RowsSound, Whole, OpenAt
<1>. QED
  BY <1>1, <1>2, <1>4, <1>6 DEF Inv

\* What is copied keeps its place, and the tables what they say of a path that
\* had its row; links are told from the number they share in the old tables.
LEMMA CopiedInv ==
  ASSUME Inv, Copied
  PROVE  Inv'
<1>0. /\ UNCHANGED <<paths, stats, pc, rb, leaked>> /\ mnt = "off" /\ mnt' = "off"
      /\ moved' = TRUE /\ fits' = FALSE
      /\ hurt' = (IF fits THEN hurt \cup Confused ELSE hurt) /\ badrow' = (IF fits THEN {} ELSE badrow)
      /\ dir' \in [Tree -> Inos \cup {0}]
      /\ \A p \in Tree : (dir'[p] = 0) = (dir[p] = 0)
      /\ \A p, q \in Tree : dir'[p] # 0 /\ p # q => dir'[p] # dir'[q]
      /\ who' = [i \in Inos |-> IF LinksOf(dir', i) = {} THEN Nobody
                                ELSE who[dir[CHOOSE p \in Tree : dir'[p] = i]]]
      /\ FakeTypeOK /\ HostInv /\ OneInode /\ Tables /\ Quiet /\ Moved /\ ThenFacts
  <2>1. /\ FakeTypeOK /\ HostInv /\ OneInode /\ Tables /\ Quiet /\ Moved /\ ThenFacts
    BY ThenIs DEF Inv
  <2>. QED
    BY <2>1 DEF Copied, tables
<1>1. HostInv' /\ \A x \in Tree : dir[x] # 0 => dir'[x] # 0 /\ who'[dir'[x]] = who[dir[x]]
  BY <1>0, HostCopied
<1>2. \A t \in Users : pc[t].k = "idle" /\ pc[t] = AtRest
  BY <1>0 DEF Quiet, AtRest
<1>3. hurt \subseteq hurt' /\ (fits => Confused \subseteq hurt')
  BY <1>0
<1>4. \A p \in Stale : p \in Tree /\ dir[p] # 0 /\ \A i \in {dir[p], paths[p]} \cap Inos :
        who[i] # Nobody => who[i] \in Confused
  <2>. SUFFICES ASSUME NEW p \in Stale, NEW i \in {dir[p], paths[p]} \cap Inos, who[i] # Nobody
                PROVE  who[i] \in Confused
    BY DEF Stale
  <2>1. who[i] \in NamedBy(p)
    BY DEF NamedBy
  <2>2. who[i] \in UNION {NamedBy(y) : y \in Stale}
    BY <2>1
  <2>. QED
    BY <2>2 DEF Confused
<1>5. Confused \subseteq Ids
  <2>1. \A y \in Stale : NamedBy(y) \subseteq Ids \cup {Nobody}
    BY <1>0 DEF FakeTypeOK, NamedBy
  <2>2. UNION {NamedBy(y) : y \in Stale} \subseteq Ids \cup {Nobody}
    BY <2>1
  <2>. QED
    BY <2>2 DEF Confused
<1>6. FakeTypeOK'
  <2>1. hurt' \subseteq Ids /\ badrow' \subseteq Tree
    BY <1>0, <1>5 DEF FakeTypeOK
  <2>2. dir' \in [Tree -> Inos \cup {0}] /\ who' \in [Inos -> Ids \cup {Nobody}]
    BY <1>1 DEF HostInv, HostTypes
  <2>3. /\ paths' \in [Tree -> Inos \cup {0}] /\ stats' \in [Inos -> Ids \cup {Nobody}]
        /\ pc' \in [Users -> Phases] /\ leaked' \subseteq Inos
        /\ \A t, u \in Users : pc'[t].k = "txn" /\ pc'[u].k = "txn" => t = u
    BY <1>0 DEF FakeTypeOK
  <2>4. mnt' = "off" /\ moved' \in BOOLEAN /\ fits' \in BOOLEAN
    BY <1>0
  <2>. QED
    BY <2>1, <2>2, <2>3, <2>4 DEF FakeTypeOK
<1>7. OneInode' /\ Quiet' /\ Rebuild' /\ Txns' /\ Tables'
  BY <1>0, <1>2 DEF OneInode, Quiet, Rebuild, Txns, Tables
<1>8. \A x \in Tree : dir'[x] # 0 => dir[x] # 0 /\ who'[dir'[x]] = who[dir[x]]
  BY <1>0, <1>1
<1>9. ASSUME NEW x \in Tree, Whole(x)'
      PROVE  /\ Whole(x) /\ who'[dir'[x]] = who[dir[x]] /\ who[dir[x]] \notin hurt'
             /\ dir[x] \in Inos /\ who[dir[x]] # Nobody /\ who[dir[x]] \in Ids
  BY <1>0, <1>3, <1>8, <1>9, FileOfPath DEF Whole
<1>10. ASSUME fits, NEW x \in Tree, Whole(x)' PROVE paths[x] = dir[x]
  <2>1. dir[x] # 0 /\ dir[x] \in Inos /\ who[dir[x]] # Nobody /\ who[dir[x]] \notin Confused
    BY <1>3, <1>9, <1>10 DEF Whole
  <2>2. x \notin Stale
    BY <1>4, <2>1
  <2>. QED
    BY <2>1, <2>2 DEF Stale
<1>11. Known'
  <2>. SUFFICES ASSUME NEW x \in Tree, Whole(x)' PROVE paths[x] # 0 /\ stats[paths[x]] = who[dir[x]]
    BY <1>0, <1>9 DEF Known
  <2>1. CASE moved
    BY <1>0, <1>9, <2>1 DEF Moved, Known
  <2>2. CASE ~ moved
    <3>1. fits /\ StatsSound
      BY <1>0, <2>2 DEF Quiet, Tables
    <3>2. StatsThen = stats
      BY <1>0, <1>2 DEF ThenFacts, LockFree
    <3>3. ~ OpenAt(dir[x])
      BY <1>2 DEF OpenAt
    <3>4. paths[x] = dir[x] /\ stats[dir[x]] = who[dir[x]]
      BY <1>9, <1>10, <3>1, <3>2, <3>3 DEF StatsSound
    <3>. QED
      BY <1>9, <3>4, FakeFsAssumption
  <2>. QED
    BY <2>1, <2>2
<1>12. Apart'
  <2>. SUFFICES ASSUME NEW x \in Tree, NEW y \in Tree, Whole(x)', dir[y] # 0, paths[y] = paths[x]
                PROVE  who[dir[y]] = who[dir[x]]
    <3>1. paths' = paths
      BY <1>0
    <3>. QED
      BY <1>8, <1>9, <3>1 DEF Apart
  <2>1. CASE moved
    BY <1>0, <1>9, <2>1 DEF Moved, Apart
  <2>2. CASE ~ moved
    <3>1. fits
      BY <1>0, <2>2 DEF Quiet
    <3>2. paths[y] = dir[x]
      BY <1>10, <3>1
    <3>3. y \notin Stale
      BY <1>3, <1>4, <1>9, <3>1, <3>2
    <3>. QED
      BY <3>2, <3>3 DEF Stale
  <2>. QED
    BY <2>1, <2>2
<1>13. Together'
  <2>. SUFFICES ASSUME NEW x \in Tree, NEW y \in Tree, Whole(x)', dir'[y] # 0, who'[dir'[y]] = who'[dir'[x]]
                PROVE  paths[y] = paths[x] /\ (IsDir(x)' => y = x)
    BY <1>0 DEF Together
  <2>1. /\ Whole(x) /\ who[dir[x]] \in Ids /\ who[dir[x]] \notin hurt' /\ dir[x] \in Inos /\ dir[x] # 0
        /\ dir[y] # 0 /\ who[dir[y]] = who[dir[x]] /\ dir[y] \in Inos
        /\ (IsDir(x)' => IsDir(x)) /\ Whole(y)'
    BY <1>0, <1>8, <1>9, FileOfPath DEF Whole, IsDir
  <2>2. CASE ~ fits
    <3>1. Together
      BY <1>0, <2>2 DEF Quiet, Moved
    <3>. QED
      BY <2>1, <3>1 DEF Together
  <2>3. CASE fits
    <3>1. dir[y] = dir[x]
      BY <1>0, <1>3, <2>1, <2>3 DEF OneInode
    <3>2. paths[x] = dir[x] /\ paths[y] = dir[y]
      BY <1>10, <2>1, <2>3
    <3>3. IsDir(x) => y = x
      BY <1>0, <3>1 DEF HostInv, OneName
    <3>. QED
      BY <2>1, <3>1, <3>2, <3>3
  <2>. QED
    BY <2>2, <2>3
<1>14. Moved'
  BY <1>11, <1>12, <1>13 DEF Moved
<1>. QED
  BY <1>1, <1>6, <1>7, <1>14 DEF Inv

\* A row that is done, component by component.
RowsAre(p, ino) ==
  /\ rb' \in RbTypes /\ rb'.at = << >> /\ rb'.todo = rb.todo \ {p}
  /\ \A j \in Inos : rb'.table[j] = IF j = paths[p] /\ rb.table[j] = << >> THEN p ELSE rb.table[j]
  /\ \A x \in Tree : rb'.paths[x] = IF x = p /\ RowKnown(p) THEN ino ELSE rb.paths[x]
  /\ \A j \in Inos : rb'.stats[j] = IF j = ino /\ RowKnown(p) THEN stats[paths[p]] ELSE rb.stats[j]

LEMMA NewRowsAre ==
  ASSUME Inv, mnt = "rebuild", NEW p \in rb.todo, NEW ino \in Inos, NEW refused \in SUBSET Tree,
         \/ rb' = NewRows(p, ino)
         \/ rb' = [NewRows(p, ino) EXCEPT !.refused = @ \cup refused]
  PROVE  RowsAre(p, ino)
<1>. DEFINE i == paths[p]
            known == RowKnown(p)
<1>1. rb \in RbTypes /\ p \in Tree /\ i \in Inos /\ stats[i] \in Ids \cup {Nobody} /\ rb.todo \subseteq Tree
  BY DEF Inv, FakeTypeOK, Rebuild, RbTypes
<1>2. \E more \in SUBSET Tree :
        rb' = [rb EXCEPT !.todo = @ \ {p}, !.at = << >>, !.ino = 0, !.file = Nobody,
                         !.table = IF @[i] = << >> THEN [@ EXCEPT ![i] = p] ELSE @,
                         !.paths = IF known THEN [@ EXCEPT ![p] = ino] ELSE @,
                         !.stats = IF known THEN [@ EXCEPT ![ino] = stats[i]] ELSE @,
                         !.refused = @ \cup more]
  <2>1. CASE rb' = NewRows(p, ino)
    <3>1. rb.refused = rb.refused \cup {}
      OBVIOUS
    <3>2. rb' = [rb EXCEPT !.todo = @ \ {p}, !.at = << >>, !.ino = 0, !.file = Nobody,
                           !.table = IF @[i] = << >> THEN [@ EXCEPT ![i] = p] ELSE @,
                           !.paths = IF known THEN [@ EXCEPT ![p] = ino] ELSE @,
                           !.stats = IF known THEN [@ EXCEPT ![ino] = stats[i]] ELSE @,
                           !.refused = @ \cup {}]
      BY <1>1, <2>1, <3>1 DEF NewRows, RbTypes
    <3>. QED
      BY <3>2
  <2>2. CASE rb' = [NewRows(p, ino) EXCEPT !.refused = @ \cup refused]
    BY <1>1, <2>2 DEF NewRows, RbTypes
  <2>. QED
    BY <2>1, <2>2
<1>3. PICK more \in SUBSET Tree :
        rb' = [rb EXCEPT !.todo = @ \ {p}, !.at = << >>, !.ino = 0, !.file = Nobody,
                         !.table = IF @[i] = << >> THEN [@ EXCEPT ![i] = p] ELSE @,
                         !.paths = IF known THEN [@ EXCEPT ![p] = ino] ELSE @,
                         !.stats = IF known THEN [@ EXCEPT ![ino] = stats[i]] ELSE @,
                         !.refused = @ \cup more]
  BY <1>2
<1>. HIDE DEF i, known
<1>4. /\ rb'.todo = rb.todo \ {p} /\ rb'.at = << >> /\ rb'.ino = 0 /\ rb'.file = Nobody
      /\ rb'.table = IF rb.table[i] = << >> THEN [rb.table EXCEPT ![i] = p] ELSE rb.table
      /\ rb'.paths = IF known THEN [rb.paths EXCEPT ![p] = ino] ELSE rb.paths
      /\ rb'.stats = IF known THEN [rb.stats EXCEPT ![ino] = stats[i]] ELSE rb.stats
      /\ rb'.refused = rb.refused \cup more
  <2>1. rb'.todo = rb.todo \ {p} /\ rb'.at = << >> /\ rb'.ino = 0 /\ rb'.file = Nobody
    BY <1>1, <1>3 DEF RbTypes
  <2>2. rb'.table = IF rb.table[i] = << >> THEN [rb.table EXCEPT ![i] = p] ELSE rb.table
    BY <1>1, <1>3 DEF RbTypes
  <2>3. rb'.paths = IF known THEN [rb.paths EXCEPT ![p] = ino] ELSE rb.paths
    BY <1>1, <1>3 DEF RbTypes
  <2>4. rb'.stats = IF known THEN [rb.stats EXCEPT ![ino] = stats[i]] ELSE rb.stats
    BY <1>1, <1>3 DEF RbTypes
  <2>5. rb'.refused = rb.refused \cup more
    BY <1>1, <1>3 DEF RbTypes
  <2>. QED
    BY <2>1, <2>2, <2>3, <2>4, <2>5
<1>5. /\ rb.table \in [Inos -> Tree \cup {<< >>}] /\ rb.paths \in [Tree -> Inos \cup {0}]
      /\ rb.stats \in [Inos -> Ids \cup {Nobody}] /\ rb.refused \subseteq Tree
  BY <1>1 DEF RbTypes
<1>6. /\ rb'.todo \in SUBSET Tree /\ rb'.table \in [Inos -> Tree \cup {<< >>}]
      /\ rb'.paths \in [Tree -> Inos \cup {0}] /\ rb'.stats \in [Inos -> Ids \cup {Nobody}]
      /\ rb'.refused \in SUBSET Tree
  BY <1>1, <1>4, <1>5
<1>7. rb' = [todo |-> rb'.todo, table |-> rb'.table, paths |-> rb'.paths, stats |-> rb'.stats,
             at |-> rb'.at, ino |-> rb'.ino, file |-> rb'.file, refused |-> rb'.refused]
  BY <1>1, <1>3 DEF RbTypes
<1>8. rb' \in RbTypes
  BY <1>4, <1>6, <1>7 DEF RbTypes
<1>9. \A j \in Inos : rb'.table[j] = IF j = i /\ rb.table[j] = << >> THEN p ELSE rb.table[j]
  BY <1>1, <1>4, <1>5
<1>10. \A x \in Tree : rb'.paths[x] = IF x = p /\ known THEN ino ELSE rb.paths[x]
  BY <1>1, <1>4, <1>5
<1>11. \A j \in Inos : rb'.stats[j] = IF j = ino /\ known THEN stats[i] ELSE rb.stats[j]
  BY <1>1, <1>4, <1>5
<1>. QED
  BY <1>4, <1>8, <1>9, <1>10, <1>11 DEF RowsAre, i, known

\* What the row of p is done with: its file was f and had the inode ino, and is
\* one with the file at the first path with its number.
RowReady(p, ino, f) ==
  /\ who[ino] \in {Nobody, f}
  /\ dir'[p] # 0 => Same(who[dir'[p]], f)
  /\ f \notin hurt => stats[paths[p]] = f
  /\ f \notin hurt /\ dir'[p] # 0 /\ rb.table[paths[p]] # << >> => dir[rb.table[paths[p]]] = dir'[p]
  /\ rb.table[paths[p]] = << >> => dir'[p] = ino
  /\ \A y \in Tree : y # p /\ dir[y] # 0 /\ rb.paths[y] = ino => Same(who[dir[y]], f)

\* A row that is done leaves sound what was done before.
LEMMA RowDone ==
  ASSUME Inv, mnt = "rebuild", NEW p \in rb.todo, NEW ino \in Inos, NEW f \in Ids,
         UNCHANGED <<paths, stats, mnt, hurt, who>>,
         dir' \in [Tree -> Inos \cup {0}], \A x \in Tree : x # p => dir'[x] = dir[x],
         badrow' = IF RowKnown(p) /\ dir'[p] # ino THEN badrow \cup {p} ELSE badrow \ {p},
         RowsAre(p, ino), RowReady(p, ino, f)
  PROVE  Rebuild'
<1>. DEFINE i == paths[p]
            first == rb.table[i]
            known == RowKnown(p)
<1>0. FakeTypeOK /\ HostInv /\ Moved /\ Rebuild /\ moved /\ rb \in RbTypes /\ p \in Tree
  BY DEF Inv, Quiet, FakeTypeOK, RbTypes
<1>1. /\ TableSound /\ Relinked /\ NewStats /\ NewPaths /\ NewNumbers /\ NewApart
      /\ \A x \in rb.todo : x \in Tree /\ paths[x] # 0
  BY <1>0 DEF Rebuild, RbTypes
<1>2. /\ i # 0 /\ i \in Inos /\ first \in Tree \cup {<< >>} /\ ~ Done(p) /\ Known
      /\ known <=> stats[i] # Nobody
      /\ first # << >> =>
           first \in Tree /\ first # p /\ dir[first] # 0 /\ paths[first] = i /\ Done(first)
  BY <1>0, <1>1 DEF TableSound, Done, RbTypes, RowKnown, FakeTypeOK, Moved
<1>3. /\ rb' \in RbTypes /\ rb'.at = << >> /\ rb'.todo = rb.todo \ {p}
      /\ \A j \in Inos : rb'.table[j] = IF j = i /\ rb.table[j] = << >> THEN p ELSE rb.table[j]
      /\ \A x \in Tree : rb'.paths[x] = IF x = p /\ known THEN ino ELSE rb.paths[x]
      /\ \A j \in Inos : rb'.stats[j] = IF j = ino /\ known THEN stats[i] ELSE rb.stats[j]
  BY DEF RowsAre
<1>4. /\ who[ino] \in {Nobody, f} /\ f # Nobody
      /\ dir'[p] # 0 => Same(who[dir'[p]], f)
      /\ f \notin hurt => stats[i] = f
      /\ f \notin hurt /\ dir'[p] # 0 /\ first # << >> => dir[first] = dir'[p]
      /\ (first = << >> => dir'[p] = ino) /\ ino # 0
      /\ \A y \in Tree : y # p /\ dir[y] # 0 /\ rb.paths[y] = ino => Same(who[dir[y]], f)
  BY FakeFsAssumption DEF RowReady
<1>5. badrow' = IF known /\ dir'[p] # ino THEN badrow \cup {p} ELSE badrow \ {p}
  OBVIOUS
<1>. HIDE DEF i, first, known
<1>6. /\ \A x \in Tree : Done(x) => x # p /\ Done(x)'
      /\ \A x \in Tree : Done(x)' => x = p \/ Done(x)
      /\ Done(p)'
  BY <1>0, <1>2, <1>3 DEF Done, i
<1>7. /\ \A x \in Tree : x # p => (Whole(x)' <=> Whole(x)) /\ dir'[x] = dir[x]
      /\ Whole(p)' => dir'[p] # 0 /\ f \notin hurt /\ who[dir'[p]] = f /\ known /\ stats[i] = f
  BY <1>2, <1>4 DEF Whole, Same
<1>8. TableSound'
  <2>. SUFFICES ASSUME NEW j \in Inos, rb'.table[j] # << >>
                PROVE  \E y \in Tree : rb'.table[j] = y /\ Done(y)' /\ dir'[y] # 0 /\ paths[y] = j
    BY DEF TableSound, Done
  <2>1. CASE first = << >> /\ j = i
    <3>1. rb'.table[j] = p
      BY <1>3, <2>1 DEF first
    <3>2. Done(p)' /\ dir'[p] # 0 /\ paths[p] = j
      BY <1>4, <1>6, <2>1 DEF i
    <3>. QED
      BY <1>0, <3>1, <3>2
  <2>2. CASE ~ (first = << >> /\ j = i)
    <3>1. rb'.table[j] = rb.table[j] /\ rb.table[j] # << >>
      BY <1>3, <2>2 DEF first
    <3>2. PICK y \in Tree : rb.table[j] = y /\ Done(y) /\ dir[y] # 0 /\ paths[y] = j
      BY <1>0, <1>1, <3>1 DEF TableSound, RbTypes
    <3>3. Done(y)' /\ dir'[y] # 0
      BY <1>6, <1>7, <3>2
    <3>. QED
      BY <3>1, <3>2, <3>3
  <2>. QED
    BY <2>1, <2>2
<1>9. Relinked'
  <2>. SUFFICES ASSUME NEW x \in Tree, Done(x)', Whole(x)'
                PROVE  rb'.table[paths[x]] # << >> /\ dir'[rb'.table[paths[x]]] = dir'[x]
    BY DEF Relinked
  <2>1. CASE x # p
    <3>0. Done(x) /\ Whole(x)
      BY <1>6, <1>7, <2>1
    <3>1. rb.table[paths[x]] # << >> /\ dir[rb.table[paths[x]]] = dir[x]
      BY <1>1, <3>0 DEF Relinked
    <3>2. paths[x] \in Inos
      BY <1>0, <1>2, <3>0 DEF Known, FakeTypeOK
    <3>3. rb'.table[paths[x]] = rb.table[paths[x]]
      BY <1>3, <3>1, <3>2
    <3>. DEFINE y == rb.table[paths[x]]
    <3>4. y \in Tree /\ Done(y)
      BY <1>0, <1>1, <3>1, <3>2 DEF TableSound, RbTypes
    <3>. HIDE DEF y
    <3>5. dir'[y] = dir[y]
      BY <1>6, <1>7, <3>4
    <3>. QED
      BY <1>7, <2>1, <3>1, <3>3, <3>5 DEF y
  <2>2. CASE x = p /\ first = << >>
    <3>1. rb'.table[i] = p /\ paths[x] = i /\ p # << >>
      BY <1>0, <1>2, <1>3, <2>2, FakeFsAssumption DEF first, i
    <3>. QED
      BY <2>2, <3>1
  <2>3. CASE x = p /\ first # << >>
    <3>1. rb'.table[i] = first /\ paths[x] = i
      BY <1>2, <1>3, <2>3 DEF first, i
    <3>2. dir'[first] = dir[first] /\ dir[first] = dir'[p]
      BY <1>2, <1>4, <1>7, <2>3
    <3>. QED
      BY <2>3, <3>1, <3>2
  <2>. QED
    BY <2>1, <2>2, <2>3
<1>10. ASSUME NEW x \in Tree, x # p, Done(x), Whole(x), NEW j \in Inos, j = dir[x] \/ j = rb.paths[x],
              rb.stats[j] = who[dir[x]]
       PROVE  rb'.stats[j] = who[dir[x]]
  <2>1. CASE j = ino /\ known
    <3>1. who[dir[x]] \notin hurt /\ who[dir[x]] # Nobody
      BY <1>0, <1>10, FileOfPath DEF Whole
    <3>2. who[dir[x]] = f
      BY <1>4, <1>10, <2>1, <3>1 DEF Same, Whole
    <3>3. stats[i] = f
      BY <1>4, <3>1, <3>2
    <3>. QED
      BY <1>3, <2>1, <3>2, <3>3
  <2>2. CASE ~ (j = ino /\ known)
    BY <1>3, <1>10, <2>2
  <2>. QED
    BY <2>1, <2>2
<1>11. NewStats'
  <2>. SUFFICES ASSUME NEW x \in Tree, Done(x)', Whole(x)' PROVE rb'.stats[dir'[x]] = who[dir'[x]]
    BY DEF NewStats
  <2>1. CASE x # p
    <3>1. Done(x) /\ Whole(x) /\ dir'[x] = dir[x] /\ dir[x] \in Inos
      BY <1>0, <1>6, <1>7, <2>1, FileOfPath DEF Whole
    <3>2. rb.stats[dir[x]] = who[dir[x]]
      BY <1>1, <3>1 DEF NewStats
    <3>. QED
      BY <1>10, <2>1, <3>1, <3>2
  <2>2. CASE x = p
    <3>1. dir'[p] \in Inos /\ who[dir'[p]] = f /\ f \notin hurt /\ dir'[p] # 0 /\ known /\ stats[i] = f
      BY <1>0, <1>7, <2>2
    <3>2. CASE dir'[p] = ino
      BY <1>3, <2>2, <3>1, <3>2
    <3>3. CASE dir'[p] # ino
      <4>1. /\ first \in Tree /\ first # p /\ dir[first] = dir'[p] /\ Done(first) /\ Whole(first)
        BY <1>2, <1>4, <3>1, <3>3 DEF Whole
      <4>2. rb.stats[dir[first]] = who[dir[first]]
        BY <1>1, <4>1 DEF NewStats
      <4>3. rb'.stats[dir[first]] = who[dir[first]]
        BY <1>10, <3>1, <4>1, <4>2
      <4>. QED
        BY <2>2, <4>1, <4>3
    <3>. QED
      BY <3>2, <3>3
  <2>. QED
    BY <2>1, <2>2
<1>12. NewPaths'
  <2>. SUFFICES ASSUME NEW x \in Tree, Done(x)', Whole(x)'
                PROVE  /\ rb'.paths[x] = dir'[x] \/ x \in badrow'
                       /\ rb'.paths[x] # 0 /\ rb'.stats[rb'.paths[x]] = who[dir'[x]]
                       /\ who[rb'.paths[x]] \in {Nobody, who[dir'[x]]}
    BY DEF NewPaths
  <2>1. CASE x # p
    <3>1. Done(x) /\ Whole(x) /\ dir'[x] = dir[x] /\ rb'.paths[x] = rb.paths[x]
      BY <1>3, <1>6, <1>7, <2>1
    <3>2. /\ rb.paths[x] = dir[x] \/ x \in badrow
          /\ rb.paths[x] # 0 /\ rb.stats[rb.paths[x]] = who[dir[x]]
          /\ who[rb.paths[x]] \in {Nobody, who[dir[x]]}
      BY <1>1, <3>1 DEF NewPaths
    <3>3. rb.paths[x] \in Inos
      BY <1>0, <3>2 DEF RbTypes
    <3>4. rb'.stats[rb.paths[x]] = who[dir[x]]
      BY <1>10, <2>1, <3>1, <3>2, <3>3
    <3>5. x \in badrow => x \in badrow'
      BY <1>5, <2>1
    <3>. QED
      BY <3>1, <3>2, <3>4, <3>5
  <2>2. CASE x = p
    <3>1. rb'.paths[p] = ino /\ rb'.stats[ino] = f /\ who[dir'[p]] = f
      BY <1>0, <1>3, <1>7, <2>2
    <3>2. dir'[p] # ino => p \in badrow'
      BY <1>5, <1>7, <2>2
    <3>. QED
      BY <1>4, <2>2, <3>1, <3>2
  <2>. QED
    BY <2>1, <2>2
<1>13. rb'.paths[p] # 0 => known /\ rb'.paths[p] = ino
  <2>1. rb.paths[p] = 0
    BY <1>0, <1>1, <1>2 DEF NewNumbers
  <2>. QED
    BY <1>0, <1>3, <2>1
<1>14. NewNumbers'
  <2>. SUFFICES ASSUME NEW y \in Tree, rb'.paths[y] # 0
                PROVE  /\ Done(y)'
                       /\ dir'[y] = 0 \/ who[rb'.paths[y]] \in hurt \cup {Nobody, who[dir'[y]]}
    BY DEF NewNumbers
  <2>1. CASE y # p
    BY <1>1, <1>3, <1>6, <1>7, <2>1 DEF NewNumbers
  <2>2. CASE y = p
    BY <1>4, <1>6, <1>13, <2>2 DEF Same
  <2>. QED
    BY <2>1, <2>2
<1>15. NewApart'
  <2>. SUFFICES ASSUME NEW x \in Tree, NEW y \in Tree, Done(x)', Whole(x)', dir'[y] # 0,
                       rb'.paths[y] = rb'.paths[x]
                PROVE  who[dir'[y]] = who[dir'[x]]
    BY DEF NewApart
  <2>1. CASE x # p /\ y # p
    BY <1>1, <1>3, <1>6, <1>7, <2>1 DEF NewApart
  <2>2. CASE x = p /\ y # p
    <3>1. rb.paths[y] = ino /\ dir[y] # 0 /\ dir'[y] = dir[y]
      BY <1>3, <1>7, <2>2
    <3>. QED
      BY <1>4, <1>7, <2>2, <3>1 DEF Same
  <2>3. CASE x # p /\ y = p
    <3>1. Done(x) /\ Whole(x) /\ dir'[x] = dir[x] /\ rb'.paths[x] # 0 /\ rb'.paths[x] = rb.paths[x]
      BY <1>3, <1>6, <1>7, <1>12, <2>3 DEF NewPaths
    <3>2. rb.paths[x] = ino
      BY <1>13, <2>3, <3>1
    <3>3. who[dir[x]] = f /\ f \notin hurt
      BY <1>4, <2>3, <3>1, <3>2 DEF Same, Whole
    <3>. QED
      BY <1>4, <2>3, <3>1, <3>3 DEF Same
  <2>. QED
    BY <2>1, <2>2, <2>3
<1>16. Unlinked' /\ \A x \in rb'.todo : paths'[x] # 0
  BY <1>1, <1>3 DEF Unlinked
<1>. QED
  BY <1>8, <1>9, <1>11, <1>12, <1>14, <1>15, <1>16 DEF Rebuild

\* What a step of the rebuild leaves as it is.
RebuildStays ==
  /\ mnt = "rebuild" /\ mnt' = "rebuild" /\ moved /\ moved' = moved /\ fits' = fits
  /\ paths' = paths /\ stats' = stats /\ pc' = pc /\ hurt' = hurt /\ leaked' = leaked

\* The rest of the invariant, when each path now has the file that it had, or
\* one that a path with its number had.
LEMMA RebuildKeeps ==
  ASSUME Inv, RebuildStays, HostInv', OneInode', rb' \in RbTypes, badrow' \subseteq Tree,
         \A x \in Tree : dir'[x] # 0 =>
           \E y \in Tree : /\ dir[y] # 0 /\ paths[y] = paths[x] /\ who'[dir'[x]] = who[dir[y]]
                           /\ x = y \/ ~ IsDir(y),
         Rebuild'
  PROVE  Inv'
<1>0. /\ FakeTypeOK /\ HostInv /\ Txns /\ Quiet /\ Moved /\ RebuildStays
  BY DEF Inv
<1>1. \A t \in Users : pc[t].k = "idle" /\ pc[t] = AtRest
  BY <1>0 DEF Quiet, AtRest, RebuildStays
<1>2. Quiet' /\ Txns' /\ Tables'
  BY <1>0, <1>1 DEF Quiet, Txns, Tables, RebuildStays
<1>3. FakeTypeOK'
  <2>1. dir' \in [Tree -> Inos \cup {0}] /\ who' \in [Inos -> Ids \cup {Nobody}]
    BY DEF HostInv, HostTypes
  <2>. QED
    BY <1>0, <2>1 DEF FakeTypeOK, RebuildStays
<1>4. ASSUME NEW x \in Tree, dir'[x] # 0
      PROVE  \E y \in Tree : /\ dir[y] # 0 /\ paths[y] = paths[x] /\ who'[dir'[x]] = who[dir[y]]
                             /\ x = y \/ ~ IsDir(y)
  BY <1>4
<1>5. Known /\ Apart /\ (fits \/ Together)
  BY <1>0 DEF Moved, RebuildStays
<1>6. Known'
  <2>. SUFFICES ASSUME NEW x \in Tree, Whole(x)' PROVE paths[x] # 0 /\ stats[paths[x]] = who'[dir'[x]]
    BY <1>0 DEF Known, RebuildStays
  <2>1. dir'[x] # 0 /\ who'[dir'[x]] \notin hurt
    BY <1>0 DEF Whole, RebuildStays
  <2>2. PICK y \in Tree : dir[y] # 0 /\ paths[y] = paths[x] /\ who'[dir'[x]] = who[dir[y]]
    BY <1>4, <2>1
  <2>. QED
    BY <1>5, <2>1, <2>2 DEF Known, Whole
<1>7. Apart'
  <2>. SUFFICES ASSUME NEW x \in Tree, NEW y \in Tree, Whole(x)', dir'[y] # 0, paths[y] = paths[x]
                PROVE  who'[dir'[y]] = who'[dir'[x]]
    BY <1>0 DEF Apart, RebuildStays
  <2>1. dir'[x] # 0 /\ who'[dir'[x]] \notin hurt
    BY <1>0 DEF Whole, RebuildStays
  <2>2. PICK a \in Tree : dir[a] # 0 /\ paths[a] = paths[x] /\ who'[dir'[x]] = who[dir[a]]
    BY <1>4, <2>1
  <2>3. PICK b \in Tree : dir[b] # 0 /\ paths[b] = paths[y] /\ who'[dir'[y]] = who[dir[b]]
    BY <1>4
  <2>. QED
    BY <1>5, <2>1, <2>2, <2>3 DEF Apart, Whole
<1>8. Together => Together'
  <2>. SUFFICES ASSUME Together, NEW x \in Tree, NEW y \in Tree, Whole(x)', dir'[y] # 0,
                       who'[dir'[y]] = who'[dir'[x]]
                PROVE  paths[y] = paths[x] /\ (IsDir(x)' => y = x)
    BY <1>0 DEF Together, RebuildStays
  <2>1. dir'[x] # 0 /\ who'[dir'[x]] \notin hurt
    BY <1>0 DEF Whole, RebuildStays
  <2>2. PICK a \in Tree : /\ dir[a] # 0 /\ paths[a] = paths[x] /\ who'[dir'[x]] = who[dir[a]]
                          /\ x = a \/ ~ IsDir(a)
    BY <1>4, <2>1
  <2>3. PICK b \in Tree : /\ dir[b] # 0 /\ paths[b] = paths[y] /\ who'[dir'[y]] = who[dir[b]]
                          /\ y = b \/ ~ IsDir(b)
    BY <1>4
  <2>4. Whole(a) /\ paths[b] = paths[a] /\ (IsDir(a) => b = a)
    BY <2>1, <2>2, <2>3 DEF Together, Whole
  <2>5. IsDir(x)' => IsDir(a) /\ IsDir(b)
    BY <2>1, <2>2, <2>3 DEF IsDir
  <2>. QED
    BY <2>2, <2>3, <2>4, <2>5
<1>9. Moved'
  BY <1>0, <1>5, <1>6, <1>7, <1>8 DEF Moved, RebuildStays
<1>. QED
  BY <1>2, <1>3, <1>9 DEF Inv

\* A row is left out, its path is unlinked, or the row is done.
LEMMA RebuildRowInv ==
  ASSUME Inv, NEW p \in Tree, RebuildRow(p)
  PROVE  Inv'
<1>. DEFINE i == paths[p]
            first == rb.table[i]
<1>0. /\ FakeTypeOK /\ HostInv /\ OneInode /\ Quiet /\ Moved /\ Rebuild
      /\ RebuildStays /\ p \in rb.todo /\ rb.at = << >> /\ rb \in RbTypes
      /\ mnt = "rebuild" /\ paths' = paths /\ stats' = stats /\ mnt' = mnt /\ hurt' = hurt
  BY DEF Inv, RebuildRow, Rebuilds, Rebuilding, RebuildStays, Quiet, tables, FakeTypeOK
<1>1. Known /\ Apart /\ (fits \/ Together)
  BY <1>0 DEF Moved, RebuildStays
<1>2. /\ TableSound /\ Relinked /\ NewStats /\ NewPaths /\ NewNumbers /\ NewApart
      /\ \A x \in rb.todo : x \in Tree /\ paths[x] # 0
  BY <1>0 DEF Rebuild, RbTypes
<1>3. /\ i # 0 /\ i \in Inos /\ ~ Done(p)
      /\ first # << >> =>
           first \in Tree /\ first # p /\ dir[first] # 0 /\ paths[first] = i /\ Done(first)
  BY <1>0, <1>2 DEF TableSound, Done, RbTypes, FakeTypeOK
<1>4. CASE dir[p] = 0
  <2>1. rb' = [rb EXCEPT !.todo = @ \ {p}] /\ dir' = dir /\ who' = who /\ badrow' = badrow
    BY <1>4 DEF RebuildRow, Rebuilds, hostVars
  <2>2. /\ rb'.todo = rb.todo \ {p} /\ rb'.table = rb.table /\ rb'.paths = rb.paths /\ rb'.stats = rb.stats
        /\ rb'.at = rb.at /\ rb' \in RbTypes
    BY <1>0, <2>1 DEF RbTypes
  <2>3. HostInv' /\ OneInode' /\ badrow' \subseteq Tree
    BY <1>0, <2>1 DEF FakeTypeOK, HostInv, HostTypes, InUse, OneName, Ancestors, IsDir, OneInode, RebuildStays
  <2>4. /\ \A x \in Tree : Done(x) => Done(x)'
        /\ \A x \in Tree : Done(x)' /\ dir[x] # 0 => Done(x)
        /\ \A x \in Tree : Whole(x)' <=> Whole(x)
    BY <1>0, <1>4, <2>1, <2>2 DEF Done, Whole
  <2>5. TableSound'
    BY <1>0, <1>2, <2>1, <2>2, <2>4 DEF TableSound, RbTypes
  <2>6. Relinked' /\ NewStats' /\ NewPaths'
    BY <1>0, <1>2, <2>1, <2>2, <2>4 DEF Relinked, NewStats, NewPaths, Whole
  <2>7. NewNumbers' /\ NewApart'
    BY <1>0, <1>2, <2>1, <2>2, <2>4 DEF NewNumbers, NewApart, Whole
  <2>8. Unlinked'
    BY <1>0, <2>2 DEF Unlinked
  <2>9. Rebuild'
    BY <1>0, <1>2, <2>2, <2>5, <2>6, <2>7, <2>8 DEF Rebuild
  <2>. QED
    BY <1>0, <2>1, <2>2, <2>3, <2>9, RebuildKeeps, FileOfPath
<1>5. CASE dir[p] # 0 /\ (first = << >> \/ IsDir(p))
  <2>1. rb' = NewRows(p, dir[p]) /\ badrow' = badrow \ {p} /\ dir' = dir /\ who' = who
    BY <1>5 DEF RebuildRow, Rebuilds, hostVars
  <2>2. dir[p] \in Inos /\ who[dir[p]] \in Ids /\ who[dir[p]] # Nobody
    BY <1>0, <1>5, FileOfPath
  <2>3. RowsAre(p, dir[p])
    BY <1>0, <2>1, <2>2, NewRowsAre
  <2>4. HostInv' /\ OneInode' /\ badrow' \subseteq Tree
    BY <1>0, <2>1 DEF FakeTypeOK, HostInv, HostTypes, InUse, OneName, Ancestors, IsDir, OneInode, RebuildStays
  <2>5. who[dir[p]] \notin hurt => stats[paths[p]] = who[dir[p]]
    BY <1>1, <1>5 DEF Known, Whole
  <2>6. ASSUME who[dir[p]] \notin hurt, first # << >> PROVE dir[first] = dir[p]
    <3>1. first \in Tree /\ first # p /\ dir[first] # 0 /\ paths[first] = i /\ Whole(p) /\ IsDir(p)
      BY <1>3, <1>5, <2>6 DEF Whole
    <3>2. who[dir[first]] = who[dir[p]]
      BY <1>1, <3>1 DEF Apart
    <3>3. CASE Together
      BY <3>1, <3>2, <3>3 DEF Together
    <3>4. CASE fits
      <4>1. dir[first] \in Inos /\ who[dir[p]] \in Ids \ hurt
        BY <1>0, <2>2, <2>6, <3>1, FileOfPath
      <4>. QED
        BY <1>0, <2>2, <3>2, <3>4, <4>1 DEF OneInode
    <3>. QED
      BY <1>1, <3>3, <3>4
  <2>7. \A y \in Tree : y # p /\ dir[y] # 0 /\ rb.paths[y] = dir[p] => Same(who[dir[y]], who[dir[p]])
    <3>. SUFFICES ASSUME NEW y \in Tree, dir[y] # 0, rb.paths[y] = dir[p]
                  PROVE  Same(who[dir[y]], who[dir[p]])
      OBVIOUS
    <3>1. Done(y) /\ who[dir[p]] \in hurt \cup {Nobody, who[dir[y]]}
      BY <1>2, <1>5 DEF NewNumbers
    <3>2. CASE Whole(y)
      BY <1>2, <2>2, <3>1, <3>2 DEF NewPaths, Same
    <3>3. CASE ~ Whole(y)
      BY <2>2, <3>1, <3>3 DEF Whole, Same
    <3>. QED
      BY <3>2, <3>3
  <2>8. RowReady(p, dir[p], who[dir[p]])
    BY <1>3, <2>1, <2>5, <2>6, <2>7 DEF RowReady, Same
  <2>9. badrow' = IF RowKnown(p) /\ dir'[p] # dir[p] THEN badrow \cup {p} ELSE badrow \ {p}
    BY <2>1
  <2>10. dir' \in [Tree -> Inos \cup {0}]
    BY <1>0, <2>1 DEF FakeTypeOK
  <2>11. Rebuild'
    BY <1>0, <2>1, <2>2, <2>3, <2>8, <2>9, <2>10, RowDone
  <2>12. rb' \in RbTypes
    BY <2>3 DEF RowsAre
  <2>. QED
    BY <1>0, <2>1, <2>4, <2>11, <2>12, RebuildKeeps, FileOfPath
<1>6. CASE dir[p] # 0 /\ first # << >> /\ ~ IsDir(p)
  <2>1. /\ HostRemoves(p) /\ rb' = [rb EXCEPT !.at = p, !.ino = dir[p], !.file = who[dir[p]]]
        /\ badrow' = badrow
    BY <1>6 DEF RebuildRow, Rebuilds
  <2>2. \A r \in Below(p) : dir[r] = 0
    BY <1>0, <1>6, NothingBelow DEF Below
  <2>3. /\ HostInv' /\ dir'[p] = 0
        /\ \A x \in Tree : x # p => dir'[x] = dir[x]
        /\ \A x \in Tree : dir'[x] # 0 => who'[dir'[x]] = who[dir[x]]
        /\ \A j \in Inos : who'[j] \in {who[j], Nobody}
    BY <1>0, <1>6, <2>1, <2>2, HostRemovesIs
  <2>. DEFINE f == who[dir[p]]
  <2>4. dir[p] \in Inos /\ f \in Ids /\ f # Nobody
    BY <1>0, <1>6, FileOfPath
  <2>5. /\ rb'.todo = rb.todo /\ rb'.table = rb.table /\ rb'.paths = rb.paths /\ rb'.stats = rb.stats
        /\ rb'.at = p /\ rb'.ino = dir[p] /\ rb'.file = f /\ rb' \in RbTypes
    BY <1>0, <2>1, <2>4 DEF RbTypes
  <2>6. OneInode' /\ badrow' \subseteq Tree
    BY <1>0, <2>1, <2>3, OneInodeStays DEF FakeTypeOK, RebuildStays
  <2>. HIDE DEF f, i, first
  <2>7. /\ \A x \in Tree : Done(x)' <=> Done(x)
        /\ \A x \in Tree : Done(x) => x # p /\ dir'[x] = dir[x]
        /\ \A x \in Tree : dir'[x] # 0 => x # p /\ dir[x] # 0 /\ dir'[x] = dir[x]
        /\ \A x \in Tree : Whole(x)' => Whole(x) /\ who'[dir[x]] = who[dir[x]] /\ dir'[x] = dir[x]
    BY <1>0, <1>3, <2>3, <2>5 DEF Done, Whole
  <2>8. TableSound'
    BY <1>0, <1>2, <2>5, <2>7 DEF TableSound, RbTypes
  <2>9. Relinked'
    <3>. SUFFICES ASSUME NEW x \in Tree, Done(x), Whole(x)'
                  PROVE  rb.table[paths[x]] # << >> /\ dir'[rb.table[paths[x]]] = dir'[x]
      BY <1>0, <2>5, <2>7 DEF Relinked
    <3>1. /\ rb.table[paths[x]] # << >> /\ dir[rb.table[paths[x]]] = dir[x] /\ paths[x] \in Inos
          /\ dir'[x] = dir[x]
      BY <1>0, <1>1, <1>2, <2>7 DEF Relinked, Known, FakeTypeOK
    <3>2. Done(rb.table[paths[x]]) /\ rb.table[paths[x]] \in Tree
      BY <1>0, <1>2, <3>1 DEF TableSound, RbTypes
    <3>. QED
      BY <2>7, <3>1, <3>2
  <2>10. NewStats'
    BY <1>0, <1>2, <2>5, <2>7 DEF NewStats
  <2>11. NewPaths'
    <3>. SUFFICES ASSUME NEW x \in Tree, Done(x), Whole(x)'
                  PROVE  /\ rb.paths[x] = dir[x] \/ x \in badrow
                         /\ rb.paths[x] # 0 /\ rb.stats[rb.paths[x]] = who[dir[x]]
                         /\ who'[rb.paths[x]] \in {Nobody, who[dir[x]]}
      BY <1>0, <2>1, <2>5, <2>7 DEF NewPaths
    <3>1. /\ rb.paths[x] = dir[x] \/ x \in badrow
          /\ rb.paths[x] # 0 /\ rb.stats[rb.paths[x]] = who[dir[x]]
          /\ who[rb.paths[x]] \in {Nobody, who[dir[x]]}
      BY <1>2, <2>7 DEF NewPaths
    <3>2. rb.paths[x] \in Inos
      BY <1>0, <3>1 DEF RbTypes
    <3>. QED
      BY <2>3, <3>1, <3>2
  <2>12. NewNumbers'
    <3>. SUFFICES ASSUME NEW y \in Tree, rb.paths[y] # 0
                  PROVE  /\ Done(y)
                         /\ dir'[y] = 0 \/ who'[rb.paths[y]] \in hurt \cup {Nobody, who'[dir'[y]]}
      BY <1>0, <2>5, <2>7 DEF NewNumbers
    <3>1. Done(y) /\ (dir[y] = 0 \/ who[rb.paths[y]] \in hurt \cup {Nobody, who[dir[y]]})
      BY <1>2 DEF NewNumbers
    <3>2. rb.paths[y] \in Inos
      BY <1>0 DEF RbTypes
    <3>3. who'[rb.paths[y]] \in {who[rb.paths[y]], Nobody}
      BY <2>3, <3>2
    <3>. QED
      BY <2>3, <2>7, <3>1, <3>3
  <2>13. NewApart'
    <3>. SUFFICES ASSUME NEW x \in Tree, NEW y \in Tree, Done(x), Whole(x)', dir'[y] # 0,
                         rb.paths[y] = rb.paths[x]
                  PROVE  who'[dir'[y]] = who'[dir'[x]]
      BY <2>5, <2>7 DEF NewApart
    <3>1. who[dir[y]] = who[dir[x]]
      BY <1>2, <2>7 DEF NewApart
    <3>. QED
      BY <2>3, <2>7, <3>1
  <2>14. Unlinked'
    <3>1. first \in Tree /\ first # p /\ dir[first] # 0 /\ paths[first] = i /\ Done(first) /\ first = rb.table[i]
      BY <1>3, <1>6 DEF first
    <3>2. dir'[first] = dir[first] /\ who'[dir[first]] = who[dir[first]]
      BY <2>3, <2>7, <3>1
    <3>3. Same(who[dir[first]], f)
      <4>1. CASE f \notin hurt
        <5>1. Whole(p)
          BY <1>6, <4>1 DEF Whole, f
        <5>. QED
          BY <1>1, <3>1, <5>1 DEF Apart, Same, f, i
      <4>2. CASE who[dir[first]] \notin hurt
        <5>1. Whole(first)
          BY <3>1, <4>2 DEF Whole
        <5>. QED
          BY <1>1, <1>6, <3>1, <5>1 DEF Apart, Same, f, i
      <4>. QED
        BY <4>1, <4>2 DEF Same
    <3>4. f \notin hurt => stats[i] = f /\ ~ IsDir(first)
      <4>1. f \notin hurt => stats[i] = f
        BY <1>1, <1>6 DEF Known, Whole, f, i
      <4>2. f \notin hurt => who[dir[first]] = f
        BY <3>3 DEF Same
      <4>. QED
        BY <1>6, <4>1, <4>2 DEF IsDir, f
    <3>5. \A y \in Tree : dir'[y] # 0 /\ rb.paths[y] = dir[p] => Same(who'[dir'[y]], f)
      <4>. SUFFICES ASSUME NEW y \in Tree, dir'[y] # 0, rb.paths[y] = dir[p]
                    PROVE  Same(who[dir[y]], f)
        BY <2>3 DEF Same
      <4>1. dir[y] # 0
        BY <2>7
      <4>2. Done(y) /\ f \in hurt \cup {Nobody, who[dir[y]]}
        BY <1>2, <1>6, <4>1 DEF NewNumbers, f
      <4>3. CASE Whole(y)
        BY <1>2, <2>4, <4>2, <4>3 DEF NewPaths, Same, f
      <4>4. CASE ~ Whole(y)
        BY <2>4, <4>1, <4>2, <4>4 DEF Whole, Same
      <4>. QED
        BY <4>3, <4>4
    <3>6. \A x \in Tree : IsStrictPrefix(x, p) => IsDir(x)'
      <4>. SUFFICES ASSUME NEW x \in Tree, IsStrictPrefix(x, p) PROVE IsDir(x)'
        OBVIOUS
      <4>1. IsDir(x) /\ x # p
        BY <1>0, <1>6 DEF HostInv, Ancestors
      <4>. QED
        BY <2>3, <4>1 DEF IsDir
    <3>7. who'[dir[p]] \in {Nobody, f}
      BY <2>3, <2>4 DEF f
    <3>8. ~ IsDir(first) => dir'[first] = 0 \/ who'[dir'[first]] \notin DirIds
      BY <3>1, <3>2 DEF IsDir
    <3>9. /\ rb'.at = p /\ p \in rb'.todo /\ rb'.ino = dir[p] /\ dir[p] \in Inos
          /\ rb'.file = f /\ f \in Ids /\ rb'.table[paths'[p]] = first /\ stats' = stats /\ hurt' = hurt
          /\ paths' = paths /\ rb'.paths = rb.paths /\ i = paths[p] /\ first # << >> /\ dir'[p] = 0
      BY <1>0, <1>6, <2>3, <2>4, <2>5, <3>1 DEF i
    <3>10. who'[dir'[first]] = who[dir[first]]
      BY <3>2
    <3>. QED
      BY <3>3, <3>4, <3>5, <3>6, <3>7, <3>8, <3>9, <3>10 DEF Unlinked, Same, IsDir
  <2>15. Rebuild'
    BY <1>0, <1>2, <2>5, <2>8, <2>9, <2>10, <2>11, <2>12, <2>13, <2>14 DEF Rebuild
  <2>. QED
    BY <1>0, <2>3, <2>5, <2>6, <2>7, <2>15, RebuildKeeps
<1>. QED
  BY <1>4, <1>5, <1>6

\* The path that is unlinked is linked to the first one with its number, or
\* its name is gone; its row is done with the number it had.
LEMMA RebuildLinkInv ==
  ASSUME Inv, RebuildLink
  PROVE  Inv'
<1>. DEFINE p == rb.at
            i == paths[p]
            first == rb.table[i]
            ino == rb.ino
            f == rb.file
<1>0. /\ FakeTypeOK /\ HostInv /\ OneInode /\ Quiet /\ Moved /\ Rebuild
      /\ RebuildStays /\ p # << >> /\ rb \in RbTypes
      /\ mnt = "rebuild" /\ paths' = paths /\ stats' = stats /\ mnt' = mnt /\ hurt' = hurt /\ who' = who
  BY DEF Inv, RebuildLink, Links, Rebuilding, RebuildStays, Quiet, tables, FakeTypeOK
<1>1. /\ p \in rb.todo /\ dir[p] = 0 /\ ino \in Inos /\ f \in Ids
      /\ \A x \in Tree : IsStrictPrefix(x, p) => IsDir(x)
      /\ first # << >>
      /\ who[ino] \in {Nobody, f}
      /\ Same(who[dir[first]], f)
      /\ f \notin hurt => stats[i] = f /\ ~ IsDir(first)
      /\ \A y \in Tree : dir[y] # 0 /\ rb.paths[y] = ino => Same(who[dir[y]], f)
  BY <1>0 DEF Rebuild, Unlinked
<1>2. /\ i \in Inos /\ p \in Tree
      /\ first \in Tree /\ first # p /\ dir[first] # 0 /\ paths[first] = i /\ Done(first)
  BY <1>0, <1>1 DEF Rebuild, TableSound, Done, RbTypes, FakeTypeOK
<1>. DEFINE d == IF IsDir(first) THEN 0 ELSE dir[first]
<1>3. PICK refused \in SUBSET Tree :
        \/ Links(d, refused)
        \/ Links(0, refused)
  <2>1. {rb.at} \in SUBSET Tree /\ {} \in SUBSET Tree
    BY <1>2
  <2>. QED
    BY <2>1 DEF RebuildLink
<1>4. \E to \in {0, d} :
        /\ dir' = [dir EXCEPT ![p] = to]
        /\ rb' = [NewRows(p, ino) EXCEPT !.refused = @ \cup refused]
        /\ badrow' = IF RowKnown(p) /\ to # ino THEN badrow \cup {p} ELSE badrow \ {p}
  BY <1>3 DEF Links
<1>. HIDE DEF p, i, first, ino, f
<1>5. /\ dir' \in [Tree -> Inos \cup {0}] /\ \A x \in Tree : x # p => dir'[x] = dir[x]
      /\ dir'[p] # 0 => dir'[p] = dir[first] /\ ~ IsDir(first)
      /\ badrow' = IF RowKnown(p) /\ dir'[p] # ino THEN badrow \cup {p} ELSE badrow \ {p}
      /\ badrow' \subseteq Tree
      /\ rb' = [NewRows(p, ino) EXCEPT !.refused = @ \cup refused]
  BY <1>0, <1>2, <1>4 DEF FakeTypeOK
<1>6. RowsAre(p, ino)
  BY <1>0, <1>1, <1>5, NewRowsAre
<1>7. RowReady(p, ino, f)
  BY <1>1, <1>5 DEF RowReady, first, i
<1>8. Rebuild'
  BY <1>0, <1>1, <1>5, <1>6, <1>7, RowDone
<1>9. \A x \in Tree : IsDir(x)' <=> IsDir(x)
  BY <1>0, <1>1, <1>5 DEF IsDir
<1>10. HostInv'
  <2>1. HostTypes'
    BY <1>0, <1>5 DEF HostInv, HostTypes
  <2>2. InUse'
    <3>. SUFFICES ASSUME NEW j \in Inos PROVE who[j] # Nobody <=> \E x \in Tree : dir'[x] = j
      BY <1>0 DEF InUse
    <3>1. (\E x \in Tree : dir[x] = j) => \E x \in Tree : dir'[x] = j
      BY <1>1, <1>5, FakeFsAssumption
    <3>2. (\E x \in Tree : dir'[x] = j) => \E x \in Tree : dir[x] = j
      BY <1>2, <1>5, FakeFsAssumption
    <3>. QED
      BY <1>0, <3>1, <3>2 DEF HostInv, InUse
  <2>3. OneName'
    <3>. SUFFICES ASSUME NEW x \in Tree, NEW y \in Tree, IsDir(x), dir'[y] = dir'[x] PROVE x = y
      BY <1>9 DEF OneName
    <3>1. x # p /\ dir'[x] = dir[x] /\ dir[x] # 0
      BY <1>1, <1>5 DEF IsDir
    <3>2. y # p
      BY <1>5, <3>1 DEF IsDir
    <3>. QED
      BY <1>0, <1>5, <3>1, <3>2 DEF HostInv, OneName
  <2>4. Ancestors'
    <3>. SUFFICES ASSUME NEW x \in Tree, NEW y \in Tree, dir'[y] # 0, IsStrictPrefix(x, y) PROVE IsDir(x)
      BY <1>9 DEF Ancestors
    <3>. QED
      BY <1>0, <1>1, <1>5 DEF HostInv, Ancestors
  <2>. QED
    BY <2>1, <2>2, <2>3, <2>4 DEF HostInv
<1>11. OneInode'
  BY <1>0, <1>10, OneInodeStays DEF RebuildStays
<1>12. ASSUME NEW x \in Tree, dir'[x] # 0
       PROVE  \E y \in Tree : /\ dir[y] # 0 /\ paths[y] = paths[x] /\ who'[dir'[x]] = who[dir[y]]
                              /\ x = y \/ ~ IsDir(y)
  <2>1. CASE x = p
    BY <1>0, <1>2, <1>5, <1>12, <2>1 DEF i
  <2>2. CASE x # p
    BY <1>0, <1>5, <1>12, <2>2
  <2>. QED
    BY <2>1, <2>2
<1>13. rb' \in RbTypes
  BY <1>6 DEF RowsAre
<1>. QED
  BY <1>0, <1>5, <1>8, <1>10, <1>11, <1>12, <1>13, RebuildKeeps

\* All rows are done: the new tables hold of the tree as it is now.
LEMMA RebuildEndsInv ==
  ASSUME Inv, RebuildEnds
  PROVE  Inv'
<1>0. /\ FakeTypeOK /\ HostInv /\ OneInode /\ Txns /\ Quiet /\ Moved /\ Rebuild
      /\ mnt = "rebuild" /\ mnt' = "rebuilt" /\ moved /\ rb.todo = {}
      /\ paths' = rb.paths /\ stats' = rb.stats /\ pc' = pc /\ moved' = moved /\ fits' = TRUE
      /\ dir' = dir /\ who' = who /\ hurt' = hurt /\ badrow' = badrow
      /\ leaked' = {i \in Inos : rb.stats[i] # Nobody /\ who[i] = Nobody}
  BY DEF Inv, RebuildEnds, Quiet, hostVars
<1>1. /\ Known /\ Apart /\ (fits \/ Together)
      /\ Relinked /\ NewStats /\ NewPaths /\ NewApart
  BY <1>0 DEF Moved, Rebuild
<1>2. \A t \in Users : pc'[t].k = "idle" /\ pc'[t] = AtRest
  BY <1>0 DEF Quiet, AtRest
<1>3. \A x \in Tree : (Whole(x)' <=> Whole(x)) /\ (Whole(x) => Done(x))
  BY <1>0, <1>1 DEF Whole, Known, Done
<1>4. FakeTypeOK'
  <2>1. /\ rb.paths \in [Tree -> Inos \cup {0}] /\ rb.stats \in [Inos -> Ids \cup {Nobody}]
    BY <1>0 DEF FakeTypeOK, RbTypes
  <2>. QED
    BY <1>0, <2>1 DEF FakeTypeOK
<1>5. HostInv'
  BY <1>0 DEF HostInv, HostTypes, InUse, OneName, Ancestors, IsDir
<1>6. OneInode'
  <2>. SUFFICES ASSUME NEW i \in Inos, NEW j \in Inos, who[i] = who[j], who[i] \in Ids \ hurt PROVE i = j
    BY <1>0 DEF OneInode
  <2>1. CASE fits
    BY <1>0, <2>1 DEF OneInode
  <2>2. CASE Together
    <3>1. who[i] # Nobody /\ who[j] # Nobody
      BY FakeFsAssumption
    <3>2. PICK x \in Tree : dir[x] = i
      BY <1>0, <3>1 DEF HostInv, InUse
    <3>3. PICK y \in Tree : dir[y] = j
      BY <1>0, <3>1 DEF HostInv, InUse
    <3>4. Whole(x) /\ Whole(y)
      BY <3>2, <3>3, FakeFsAssumption DEF Whole
    <3>5. paths[y] = paths[x]
      BY <2>2, <3>2, <3>3, <3>4 DEF Together, Whole
    <3>6. dir[x] = dir[y]
      BY <1>1, <1>3, <3>4, <3>5 DEF Relinked
    <3>. QED
      BY <3>2, <3>3, <3>6
  <2>. QED
    BY <1>1, <2>1, <2>2
<1>7. Quiet' /\ Txns' /\ Rebuild'
  BY <1>0, <1>2 DEF Quiet, Txns, Rebuild
<1>8. Moved'
  <2>1. Known'
    BY <1>0, <1>1, <1>3 DEF Known, NewPaths
  <2>2. Apart'
    BY <1>0, <1>1, <1>3 DEF Apart, NewApart
  <2>. QED
    BY <1>0, <2>1, <2>2 DEF Moved
<1>9. Tables'
  <2>1. PathsThen' = rb.paths /\ StatsThen' = rb.stats /\ BadThen' = badrow
    BY <1>0, <1>2 DEF PathsThen, StatsThen, BadThen, LockFree
  <2>2. StatsSound'
    BY <1>0, <1>1, <1>3, <2>1 DEF StatsSound, NewStats
  <2>3. PathsSound'
    BY <1>0, <1>1, <1>3, <2>1 DEF PathsSound, NewPaths
  <2>4. RowsSound'
    BY <1>0, <2>1 DEF RowsSound
  <2>. QED
    BY <2>2, <2>3, <2>4 DEF Tables
<1>. QED
  BY <1>4, <1>5, <1>6, <1>7, <1>8, <1>9 DEF Inv

(***************************************************************************)
(* The invariant and what follows from it                                  *)
(***************************************************************************)

\* An empty tree has no files and no rows.
LEMMA InitInv == FakeInit => Inv
<1>. SUFFICES ASSUME FakeInit PROVE Inv
  OBVIOUS
<1>0. /\ dir = [p \in Tree |-> 0] /\ who = [i \in Inos |-> Nobody]
      /\ paths = [p \in Tree |-> 0] /\ stats = [i \in Inos |-> Nobody]
      /\ pc = [t \in Users |-> AtRest] /\ mnt = "on" /\ moved = FALSE /\ fits = TRUE
      /\ hurt = {} /\ leaked = {} /\ badrow = {}
      /\ AtRest \in Phases /\ AtRest.k = "idle"
  BY DEF FakeInit, AtRest, Phases
<1>1. FakeTypeOK
  BY <1>0 DEF FakeTypeOK
<1>2. HostInv
  BY <1>0, FakeFsAssumption DEF HostInv, HostTypes, InUse, OneName, Ancestors, IsDir
<1>3. OneInode
  BY <1>0, FakeFsAssumption DEF OneInode
<1>4. PathsThen = paths /\ StatsThen = stats /\ BadThen = badrow
  BY <1>0 DEF PathsThen, StatsThen, BadThen, LockFree
<1>5. Tables
  BY <1>0, <1>4 DEF Tables, StatsSound, PathsSound, RowsSound, Whole
<1>6. Txns /\ Quiet /\ Moved /\ Rebuild
  BY <1>0 DEF Txns, Quiet, Moved, Rebuild
<1>. QED
  BY <1>1, <1>2, <1>3, <1>5, <1>6 DEF Inv

\* Every call, crash, copy and row of a rebuild preserves the invariant.
LEMMA NextInv == Inv /\ [FakeNext]_fakeVars => Inv'
<1>. SUFFICES ASSUME Inv, [FakeNext]_fakeVars PROVE Inv'
  OBVIOUS
<1>1. ASSUME NEW t \in Users, FakeStep(t) PROVE Inv'
  <2>1. ASSUME NEW p \in Tree, OpenMakes(t, p) PROVE Inv'
    BY <2>1, OpenMakesInv
  <2>2. ASSUME NEW p \in Tree, UnlinkTests(t, p) PROVE Inv'
    BY <2>2, UnlinkTestsInv
  <2>3. ASSUME NEW p \in Tree, FakeRmdir(t, p) PROVE Inv'
    BY <2>3, RmdirInv
  <2>4. ASSUME NEW p \in Tree, SetAttr(t, p) PROVE Inv'
    BY <2>4, SetAttrInv
  <2>5. ASSUME NEW p \in Tree, NEW kind \in {FileIds, DirIds}, Make(t, p, kind) PROVE Inv'
    BY <2>5, MakeInv
  <2>6. ASSUME NEW p \in Tree, NEW q \in Tree, Link(t, p, q) PROVE Inv'
    BY <2>6, LinkInv
  <2>7. ASSUME NEW p \in Tree, NEW q \in Tree, Rename(t, p, q) PROVE Inv'
    BY <2>7, RenameInv
  <2>8. CASE OpenRecords(t)
    BY <2>8, OpenRecordsInv
  <2>9. CASE Unlink(t)
    BY <2>9, UnlinkInv
  <2>10. CASE Commit(t)
    BY <2>10, CommitInv
  <2>11. CASE SymlinkFails(t)
    BY <2>11, SymlinkFailsInv
  <2>. QED
    BY <1>1, <2>1, <2>2, <2>3, <2>4, <2>5, <2>6, <2>7, <2>8, <2>9, <2>10, <2>11 DEF FakeStep
<1>2. CASE Crash \/ Asserts
  BY <1>2, GoesDownInv DEF Crash, Asserts
<1>3. CASE Unmount
  BY <1>3, UnmountInv
<1>4. CASE Copied
  BY <1>4, CopiedInv
<1>5. CASE Mount
  BY <1>5, MountInv
<1>6. CASE RebuildEnds
  BY <1>6, RebuildEndsInv
<1>7. CASE SavesInode
  BY <1>7, SavesInodeInv
<1>8. ASSUME NEW p \in Tree, RebuildRow(p) PROVE Inv'
  BY <1>8, RebuildRowInv
<1>9. CASE RebuildLink
  BY <1>9, RebuildLinkInv
<1>10. CASE UNCHANGED fakeVars
  <2>1. UNCHANGED <<dir, who, paths, stats, pc, mnt, moved, fits, rb, hurt, leaked, badrow>>
    BY <1>10 DEF fakeVars
  <2>2. FakeTypeOK' /\ HostInv' /\ OneInode'
    BY <2>1 DEF Inv, FakeTypeOK, HostInv, HostTypes, InUse, OneName, Ancestors, IsDir, OneInode
  <2>3. PathsThen' = PathsThen /\ StatsThen' = StatsThen /\ BadThen' = BadThen
    BY <2>1 DEF PathsThen, StatsThen, BadThen, LockFree, Holder, PathsAfter, StatsAfter, BadAfter, Records
  <2>4. Tables'
    BY <2>1, <2>3 DEF Inv, Tables, StatsSound, PathsSound, RowsSound, Whole, OpenAt
  <2>5. Txns' /\ Quiet'
    BY <2>1 DEF Inv, Txns, Records, Deletes, Quiet
  <2>6. Moved'
    BY <2>1 DEF Inv, Moved, Known, Apart, Together, Whole, IsDir
  <2>7. Rebuild'
    BY <2>1 DEF Inv, Rebuild, TableSound, Relinked, NewStats, NewPaths, NewNumbers, NewApart, Done, Whole,
                    Unlinked, Same, IsDir
  <2>. QED
    BY <2>2, <2>4, <2>5, <2>6, <2>7 DEF Inv
<1>. QED
  BY <1>1, <1>2, <1>3, <1>4, <1>5, <1>6, <1>7, <1>8, <1>9, <1>10 DEF FakeNext

\* With no transaction open the tables to come are the tables.
LEMMA InvImplies == Inv => MetadataSurvives
<1>. SUFFICES ASSUME Inv PROVE MetadataSurvives
  OBVIOUS
<1>0. FakeTypeOK /\ HostInv /\ OneInode /\ Tables /\ Quiet /\ ThenFacts
  BY ThenIs DEF Inv
<1>1. ASSUME mnt = "on", LockFree PROVE StatsSound /\ PathsSound /\ RowsSound
  BY <1>0, <1>1 DEF Quiet, Tables
<1>2. LockFree => PathsThen = paths /\ StatsThen = stats /\ BadThen = badrow
  BY <1>0 DEF ThenFacts
<1>3. MetadataFollows
  <2>. SUFFICES ASSUME mnt = "on", LockFree, NEW p \in Tree, dir[p] # 0,
                       who[dir[p]] \notin hurt \cup Opening
                PROVE  StatAnswer(p) = who[dir[p]]
    BY DEF MetadataFollows
  <2>1. stats[dir[p]] = who[dir[p]] \/ OpenAt(dir[p])
    BY <1>1, <1>2 DEF StatsSound, Whole
  <2>2. ~ OpenAt(dir[p])
    BY DEF OpenAt, Opening
  <2>. QED
    BY <2>1, <2>2 DEF StatAnswer
<1>4. PathsFollow
  <2>. SUFFICES ASSUME mnt = "on", LockFree, NEW p \in Tree, dir[p] # 0,
                       who[dir[p]] \notin hurt \cup Opening, p \notin badrow
                PROVE  paths[p] = dir[p]
    BY DEF PathsFollow
  <2>1. paths[p] = dir[p] \/ \E t \in Users : pc[t].k = "open" /\ pc[t].p = p
    BY <1>1, <1>2 DEF PathsSound, Whole
  <2>. QED
    BY <2>1 DEF Opening
<1>5. RowsHaveFiles
  BY <1>1, <1>2 DEF RowsHaveFiles, RowsSound
<1>6. LinksAreRestored
  <2>. SUFFICES ASSUME mnt = "on", NEW p \in Tree, NEW q \in Tree, dir[p] # 0, dir[q] # 0,
                       who[dir[p]] = who[dir[q]], who[dir[p]] \notin hurt
                PROVE  dir[p] = dir[q]
    BY DEF LinksAreRestored
  <2>. QED
    BY <1>0, FileOfPath DEF OneInode, Quiet
<1>. QED
  BY <1>0, <1>3, <1>4, <1>5, <1>6 DEF MetadataSurvives

\* A path has the metadata and the row of its own file, a row has a file, and
\* links are links again: for every tree, any number of tasks, inodes, calls,
\* crashes, copies and rebuilds, but for the files named in hurt (fs/fake.c,
\* fs/fake-rebuild.c).
THEOREM MetadataKept == FakeSpec => []MetadataSurvives
<1>1. FakeSpec => []Inv
  BY InitInv, NextInv, PTL DEF FakeSpec
<1>. QED
  BY <1>1, InvImplies, PTL

\* What fakefs_rebuild unlinks it links again to a file of the same contents:
\* no step while a copied tree is mounted, and no crash, loses a file, but for
\* a crash between unlinkat and linkat and a link that the host refuses
\* (fs/fake-rebuild.c:91).
THEOREM FilesKept == FakeSpec => [][RebuildKeepsFiles]_fakeVars
<1>1. FakeSpec => []Inv
  BY InitInv, NextInv, PTL DEF FakeSpec
<1>2. Inv /\ [FakeNext]_fakeVars => [RebuildKeepsFiles]_fakeVars
  <2>. SUFFICES ASSUME Inv, FakeNext, mnt = "rebuild", NEW p \in Tree,
                       FileAt(p) \notin hurt \cup {Nobody}
                PROVE  \/ FileAt(p)' = FileAt(p)
                       \/ p = rb.at /\ (mnt' = "off" \/ p \in rb'.refused)
    BY DEF RebuildKeepsFiles
  <2>0. /\ HostInv /\ Rebuild /\ Moved /\ moved /\ p # << >> /\ rb \in RbTypes
        /\ \A t \in Users : pc[t] = AtRest /\ pc[t].k = "idle"
    BY FakeFsAssumption DEF Inv, Quiet, AtRest, FakeTypeOK
  <2>1. ASSUME dir' = dir, who' = who, p # rb.at, rb'.at # p
        PROVE  FileAt(p)' = FileAt(p)
    BY <2>1 DEF FileAt
  <2>2. ASSUME NEW t \in Users, FakeStep(t) PROVE FALSE
    BY <2>0, <2>2
    DEF FakeStep, OpenMakes, UnlinkTests, FakeRmdir, SetAttr, Make, Link, Rename, OpenRecords, Unlink, Commit,
        SymlinkFails, Begins
  <2>3. CASE RebuildEnds
    <3>1. rb.at = << >>
      BY <2>0, <2>3 DEF RebuildEnds, Rebuild, Unlinked
    <3>. QED
      BY <2>0, <2>1, <2>3, <3>1 DEF RebuildEnds, hostVars, NoRebuild
  <2>4. CASE GoesDown
    <3>1. dir' = dir /\ who' = who /\ rb'.at = << >> /\ mnt' = "off"
      BY <2>4 DEF GoesDown, hostVars, NoRebuild
    <3>. QED
      BY <2>0, <2>1, <3>1
  <2>5. ASSUME NEW y \in Tree, RebuildRow(y) PROVE FileAt(p)' = FileAt(p)
    <3>0. rb.at = << >> /\ mnt = "rebuild" /\ y \in rb.todo
      BY <2>5 DEF RebuildRow, Rebuilds
    <3>1. CASE dir[y] = 0
      <4>1. dir' = dir /\ who' = who /\ rb'.at = << >>
        BY <2>0, <2>5, <3>0, <3>1 DEF RebuildRow, Rebuilds, hostVars, RbTypes
      <4>. QED
        BY <2>0, <2>1, <3>0, <4>1
    <3>2. CASE dir[y] # 0 /\ (rb.table[paths[y]] = << >> \/ IsDir(y))
      <4>1. dir' = dir /\ who' = who /\ rb' = NewRows(y, dir[y])
        BY <2>5, <3>2 DEF RebuildRow, Rebuilds, hostVars
      <4>2. dir[y] \in Inos
        BY <2>0, <3>2, FileOfPath
      <4>3. rb'.at = << >>
        BY <3>0, <4>1, <4>2, NewRowsAre DEF RowsAre
      <4>. QED
        BY <2>0, <2>1, <3>0, <4>1, <4>3
    <3>3. CASE dir[y] # 0 /\ rb.table[paths[y]] # << >> /\ ~ IsDir(y)
      <4>1. HostRemoves(y) /\ rb' = [rb EXCEPT !.at = y, !.ino = dir[y], !.file = who[dir[y]]]
        BY <2>5, <3>3 DEF RebuildRow, Rebuilds
      <4>2. rb'.at = y /\ rb'.file = who[dir[y]]
        BY <2>0, <4>1 DEF RbTypes
      <4>3. \A r \in Below(y) : dir[r] = 0
        BY <2>0, <3>3, NothingBelow DEF Below
      <4>4. /\ \A x \in Tree : x # y => dir'[x] = dir[x]
            /\ \A x \in Tree : dir'[x] # 0 => who'[dir'[x]] = who[dir[x]]
        BY <2>0, <3>3, <4>1, <4>3, HostRemovesIs
      <4>5. CASE p = y
        BY <2>0, <3>0, <3>3, <4>2, <4>5 DEF FileAt
      <4>6. CASE p # y
        BY <2>0, <3>0, <4>2, <4>4, <4>6 DEF FileAt
      <4>. QED
        BY <4>5, <4>6
    <3>. QED
      BY <3>1, <3>2, <3>3
  <2>6. CASE RebuildLink
    <3>. DEFINE y == rb.at
                first == rb.table[paths[y]]
    <3>1. y # << >> /\ who' = who
      BY <2>6 DEF RebuildLink, Links
    <3>2. /\ y \in rb.todo /\ y \in Tree /\ rb.ino \in Inos /\ dir[y] = 0
          /\ first # << >> /\ Same(who[dir[first]], rb.file)
          /\ rb.file \notin hurt => ~ IsDir(first)
      BY <2>0, <3>1 DEF Rebuild, Unlinked, RbTypes
    <3>3. first \in Tree /\ dir[first] # 0
      <4>1. paths[y] \in Inos
        BY <2>0, <3>2 DEF Rebuild, Inv, FakeTypeOK
      <4>2. first \in Tree
        <5>1. first \in Tree \cup {<< >>}
          BY <2>0, <4>1 DEF RbTypes
        <5>. QED
          BY <3>2, <5>1
      <4>3. dir[first] # 0
        BY <2>0, <3>2, <4>1 DEF Rebuild, TableSound
      <4>. QED
        BY <4>2, <4>3
    <3>4. PICK refused \in {{}, {y}} :
            /\ rb' = [NewRows(y, rb.ino) EXCEPT !.refused = @ \cup refused]
            /\ \/ refused = {} /\ dir' = [dir EXCEPT ![y] = IF IsDir(first) THEN 0 ELSE dir[first]]
               \/ refused = {y} /\ dir' = [dir EXCEPT ![y] = 0]
      BY <2>6 DEF RebuildLink, Links
    <3>5. rb'.at = << >>
      <4>1. refused \in SUBSET Tree
        BY <3>2
      <4>. QED
        BY <3>2, <3>4, <4>1, NewRowsAre DEF RowsAre
    <3>6. dir \in [Tree -> Inos \cup {0}]
      BY <2>0 DEF HostInv, HostTypes
    <3>7. CASE p # y
      <4>1. dir'[p] = dir[p]
        BY <3>2, <3>4, <3>6, <3>7
      <4>. QED
        BY <2>0, <3>1, <3>5, <3>7, <4>1 DEF FileAt
    <3>8. CASE p = y /\ refused = {y}
      <4>1. y \in rb'.refused
        BY <2>0, <3>4, <3>8 DEF NewRows, RbTypes
      <4>. QED
        BY <3>8, <4>1
    <3>9. CASE p = y /\ refused # {y}
      <4>1. rb.file \notin hurt /\ FileAt(p) = rb.file
        BY <3>9 DEF FileAt
      <4>2. dir'[p] = dir[first] /\ who[dir[first]] = rb.file
        BY <3>2, <3>4, <3>6, <3>9, <4>1 DEF Same
      <4>. QED
        BY <2>0, <3>1, <3>3, <3>5, <4>1, <4>2 DEF FileAt
    <3>. QED
      BY <3>7, <3>8, <3>9
  <2>. QED
    BY <2>2, <2>3, <2>4, <2>5, <2>6
    DEF FakeNext, Crash, Asserts, Unmount, Copied, Mount, SavesInode
<1>. QED
  BY <1>1, <1>2, PTL DEF FakeSpec
=============================================================================
