------------------------------ MODULE Mounts -------------------------------
(***************************************************************************)
(* Mounted file systems and the calls that work on paths: fs/mount.c,      *)
(* fs/generic.c, fs/stat.c and the calls of kernel/fs.c that lead there.   *)
(* A path is normalised (module Paths): the sequence of its names.  What   *)
(* a file system does between mount_find and mount_release is left open.   *)
(***************************************************************************)
EXTENDS Naturals, Sequences, FiniteSets, SequencesExt

CONSTANTS Callers,     \* tasks
          Mounts,      \* struct mount
          RootMount,        \* the mount of the root
          Points,      \* where something may be mounted, other than at <<>>
          Paths,       \* paths that calls are made with
          MaxOpens     \* references a mount has when a file is opened on it

\* A path is a sequence of names.
ASSUME MountsAssumption ==
    IsFiniteSet(Callers) /\ RootMount \in Mounts /\ Points \cup Paths \subseteq Seq(STRING)

VARIABLES list,        \* the list of mounts
          point,       \* point[m]
          refs,        \* refs[m]: refcount
          opens,       \* opens[m]: files ever opened on m
          mountCall,   \* mountCall[t]: what a task does and the mounts it found
          age          \* the mounts in the order in which they were mounted

mountVars == <<list, point, refs, opens, mountCall, age>>

Idle == [kind |-> "none", uses |-> <<>>]
Members(s) == {s[i] : i \in DOMAIN s}
Uses(t, m) == Cardinality({i \in DOMAIN mountCall[t].uses : mountCall[t].uses[i] = m})
PlaceOf(m) == CHOOSE i \in DOMAIN age : age[i] = m

\* The match of mount_find: the point, and then a slash or the end.
Covers(m, path) == IsPrefix(point[m], path)
\* mount_find: the first match in the list.
MountFind(path) == list[CHOOSE i \in DOMAIN list :
                          /\ Covers(list[i], path)
                          /\ \A j \in 1 .. i - 1 : ~Covers(list[j], path)]
ContainsMountPoint(path) == \E m \in Members(list) : IsPrefix(path, point[m])

\* After init: the root is mounted, and opened twice, as root and as pwd.
MountInit ==
    /\ list = <<RootMount>> /\ age = <<RootMount>>
    /\ point = [m \in Mounts |-> <<>>]
    /\ refs = [m \in Mounts |-> IF m = RootMount THEN 2 ELSE 0]
    /\ opens = refs
    /\ mountCall = [t \in Callers |-> Idle]

Found(t, kind, found) ==
    /\ refs' = [m \in Mounts |-> refs[m] + Cardinality({i \in DOMAIN found : found[i] = m})]
    /\ mountCall' = [mountCall EXCEPT ![t] = [kind |-> kind, uses |-> found]]
    /\ UNCHANGED <<list, point, opens, age>>

\* access, stat, statfs, unlink, symlink, mknod, chmod, chown, utimes, readlink,
\* mkdir, and the look at every name of a path for a symbolic link.
PathCall(t, path) == mountCall[t] = Idle /\ Found(t, "path", <<MountFind(path)>>)

\* rmdir: EBUSY for what a mount point is, or is in.
Rmdir(t, path) ==
    /\ mountCall[t] = Idle /\ ~ContainsMountPoint(path)
    /\ Found(t, "path", <<MountFind(path)>>)

\* link: both mounts are found, and EXDEV if they differ.
Linkat(t, src, dst) ==
    /\ mountCall[t] = Idle
    /\ Found(t, "pair", <<MountFind(src), MountFind(dst)>>)

Renameat(t, src, dst) == ~ContainsMountPoint(src) /\ Linkat(t, src, dst)

\* mount_release at the end of all of these.
PathCallEnds(t) ==
    /\ mountCall[t].kind \in {"path", "pair"}
    /\ refs' = [m \in Mounts |-> refs[m] - Uses(t, m)]
    /\ mountCall' = [mountCall EXCEPT ![t] = Idle]
    /\ UNCHANGED <<list, point, opens, age>>

\* generic_openat: the reference goes to the descriptor, and nothing gives it
\* back: neither fd_close nor the ways in which opening fails.
Openat(t, path) ==
    /\ mountCall[t] = Idle /\ refs[MountFind(path)] < MaxOpens
    /\ Found(t, "open", <<MountFind(path)>>)

OpenEnds(t) ==
    /\ mountCall[t].kind = "open"
    /\ opens' = [opens EXCEPT ![mountCall[t].uses[1]] = @ + 1]
    /\ mountCall' = [mountCall EXCEPT ![t] = Idle]
    /\ UNCHANGED <<list, point, refs, age>>

\* A slip: behind the mounts whose point is as long.
DoMountBehind(t, p) ==
    /\ mountCall[t] = Idle
    /\ \E m \in Mounts \ Members(list) :
          LET later == {i \in DOMAIN list : Len(point[list[i]]) < Len(p)}
              at == CHOOSE i \in later : \A j \in later : i <= j
          IN /\ point' = [point EXCEPT ![m] = p]
             /\ list' = InsertAt(list, at, m)
             /\ refs' = [refs EXCEPT ![m] = 0] /\ opens' = [opens EXCEPT ![m] = 0]
             /\ age' = Append(age, m)
    /\ UNCHANGED mountCall

\* do_mount: before the first mount whose point is not longer.
DoMount(t, p) ==
    /\ mountCall[t] = Idle
    /\ \E m \in Mounts \ Members(list) :
          LET later == {i \in DOMAIN list : Len(point[list[i]]) <= Len(p)}
              at == CHOOSE i \in later : \A j \in later : i <= j
          IN /\ point' = [point EXCEPT ![m] = p]
             /\ list' = InsertAt(list, at, m)
             /\ refs' = [refs EXCEPT ![m] = 0] /\ opens' = [opens EXCEPT ![m] = 0]
             /\ age' = Append(age, m)
    /\ UNCHANGED mountCall

\* A slip: a mount is busy only while a file on it is open.
DoUmountInUse(t, p) ==
    LET at == {i \in DOMAIN list : point[list[i]] = p}
        first == CHOOSE i \in at : \A j \in at : i <= j
        m == list[first]
    IN /\ mountCall[t] = Idle /\ at # {} /\ opens[m] = 0
       /\ list' = RemoveAt(list, first)
       /\ age' = RemoveAt(age, PlaceOf(m))
       /\ point' = [point EXCEPT ![m] = <<>>] /\ opens' = [opens EXCEPT ![m] = 0]
       /\ UNCHANGED <<refs, mountCall>>

\* do_umount and mount_remove: the first mount of that point, unless it is busy.
DoUmount(t, p) ==
    LET at == {i \in DOMAIN list : point[list[i]] = p}
        first == CHOOSE i \in at : \A j \in at : i <= j
        m == list[first]
    IN /\ mountCall[t] = Idle /\ at # {} /\ refs[m] = 0
       /\ list' = RemoveAt(list, first)
       /\ age' = RemoveAt(age, PlaceOf(m))
       /\ point' = [point EXCEPT ![m] = <<>>] /\ opens' = [opens EXCEPT ![m] = 0]
       /\ UNCHANGED <<refs, mountCall>>

MountNext == \E t \in Callers :
    \/ \E p \in Paths : PathCall(t, p) \/ Rmdir(t, p) \/ Openat(t, p)
    \/ \E p, q \in Paths : Linkat(t, p, q) \/ Renameat(t, p, q)
    \/ PathCallEnds(t) \/ OpenEnds(t)
    \/ \E p \in Points : DoMount(t, p)
    \/ \E p \in Points \cup {<<>>} : DoUmount(t, p)

MountSpec == MountInit /\ [][MountNext]_mountVars
-----------------------------------------------------------------------------
MountTypeOK ==
    /\ Members(list) \subseteq Mounts /\ Members(age) = Members(list)
    /\ point \in [Mounts -> Points \cup {<<>>}] /\ refs \in [Mounts -> Nat]
    /\ opens \in [Mounts -> Nat] /\ DOMAIN mountCall = Callers

\* Every path belongs to the innermost mount above it, and of several mounted on
\* one point to the last: the order of the list is what mount_find relies on
\* (fs/mount.c:17-21, 50-56).
FindsInnermost ==
    \A path \in Paths :
        LET above == {m \in Members(list) : IsPrefix(point[m], path)}
        IN \A m \in above \ {MountFind(path)} :
              \/ Len(point[m]) < Len(point[MountFind(path)])
              \/ point[m] = point[MountFind(path)] /\ PlaceOf(m) < PlaceOf(MountFind(path))

\* A mount that a call or an open file uses is not unmounted and freed under it,
\* and counts exactly those (fs/mount.c:22, 61, 129-131, 146-148).
UsedMountsStay ==
    \A m \in Mounts :
        LET used == opens[m] + Cardinality({u \in Callers \X {1, 2} :
                        /\ u[2] \in DOMAIN mountCall[u[1]].uses
                        /\ mountCall[u[1]].uses[u[2]] = m})
        IN /\ used > 0 => m \in Members(list)
           /\ m \in Members(list) => refs[m] = used

\* All that the list of mounts promises.
MountsSound == MountTypeOK /\ FindsInnermost /\ UsedMountsStay
=============================================================================
