------------------------------- MODULE Paths --------------------------------
(***************************************************************************)
(* Path normalisation: fs/path.c.  path_normalize walks a path component   *)
(* by component into a buffer of MAX_PATH bytes, undoes ".." in the        *)
(* buffer, and starts again on the expanded path when it has written the   *)
(* name of a symbolic link.  A path is a sequence of components and        *)
(* whether it begins with a slash; of a component only the size counts.    *)
(***************************************************************************)
EXTENDS Integers, Sequences, SequencesExt

CONSTANTS Names,      \* components other than "." and ".."
          Size,       \* Size[c]: bytes of a component
          Trees,      \* trees: functions from the paths of links to targets
          Bases,      \* paths of the working directory
          MaxPath,    \* MAX_PATH
          MaxParts,   \* components of a path given by the guest
          MaxDepth    \* calls of itself that the stack can hold

Parts == Names \cup {".", ".."}
Targets == [abs : BOOLEAN, parts : BoundedSeq(Parts, MaxParts)]

VARIABLES call,    \* the call's arguments, or << >> between calls
          out,     \* what has been written to the buffer
          rest,    \* components to come
          depth,   \* calls of path_normalize under way
          res      \* "", or how it ended

vars == <<call, out, rest, depth, res>>

Bytes(path) == FoldLeft(LAMBDA n, c : n + 1 + Size[c], 0, path)
Left == MaxPath - 1 - Bytes(out)      \* n
Link(path) == path \in DOMAIN call.tree

Normalize(tree, base, path, follow) ==
    /\ call = << >>
    /\ call' = [tree |-> tree, base |-> base, path |-> path, follow |-> follow]
    /\ out' = IF path.abs THEN << >> ELSE base
    /\ rest' = path.parts /\ depth' = 1 /\ res' = ""

Running == call # << >> /\ res = ""
Ends(r) == res' = r /\ UNCHANGED <<call, out, rest, depth>>

Dot ==
    /\ Running /\ rest # << >> /\ Head(rest) = "."
    /\ rest' = Tail(rest) /\ UNCHANGED <<call, out, depth, res>>

\* Slips: the last component stays; or a path of one component counts as the
\* root.
DotDotIgnored ==
    /\ Running /\ rest # << >> /\ Head(rest) = ".."
    /\ rest' = Tail(rest) /\ UNCHANGED <<call, out, depth, res>>
DotDotEarly ==
    /\ Running /\ rest # << >> /\ Head(rest) = ".."
    /\ IF Len(out) <= 1 THEN Ends("underrun")
       ELSE out' = Front(out) /\ rest' = Tail(rest) /\ UNCHANGED <<call, depth, res>>

\* The loop runs back to the slash before the last component; at the root
\* it leaves the buffer by its front.
DotDot ==
    /\ Running /\ rest # << >> /\ Head(rest) = ".."
    /\ IF out = << >> THEN Ends("underrun")
       ELSE out' = Front(out) /\ rest' = Tail(rest) /\ UNCHANGED <<call, depth, res>>

\* A component: the slash takes a byte without a look at n; the bytes stop
\* when n is 0.  With one byte left before the slash n passes 0 unnoticed
\* and the loop goes on writing slashes.
Component ==
    LET c == Head(rest)
        to == Append(out, c)
        follows == call.follow \/ Tail(rest) # << >>
        target == call.tree[to]
        expanded == (IF target.abs THEN << >> ELSE out) \o target.parts \o Tail(rest)
    IN /\ Running /\ rest # << >> /\ c \in Names
       /\ CASE Left = 1 -> Ends("overrun")
            [] Left # 1 /\ Left <= 1 + Size[c] -> Ends("ENAMETOOLONG")
            [] OTHER ->
                 IF follows /\ Link(to)
                 THEN IF Bytes(expanded) >= MaxPath THEN Ends("overrun")
                      ELSE IF depth = MaxDepth THEN Ends("stack")
                      ELSE /\ out' = << >> /\ rest' = expanded /\ depth' = depth + 1
                           /\ UNCHANGED <<call, res>>
                 ELSE out' = to /\ rest' = Tail(rest) /\ UNCHANGED <<call, depth, res>>

Done == Running /\ rest = << >> /\ Ends("ok")

Return ==
    /\ res # "" /\ call' = << >> /\ out' = << >> /\ rest' = << >> /\ depth' = 0 /\ res' = ""

Init == call = << >> /\ out = << >> /\ rest = << >> /\ depth = 0 /\ res = ""

Next ==
    \/ \E tree \in Trees, base \in Bases, path \in Targets, follow \in BOOLEAN :
            Normalize(tree, base, path, follow)
    \/ Dot \/ DotDot \/ Component \/ Done \/ Return

Spec == Init /\ [][Next]_vars
-----------------------------------------------------------------------------
(* What a path means: the file reached by walking it directory by          *)
(* directory, where the root's parent is the root.  `fuel' links at most   *)
(* are followed; << "loop" >> is no file.                                  *)
RECURSIVE Walk(_, _, _, _, _)
Walk(tree, at, parts, follow, fuel) ==
    IF parts = << >> THEN at
    ELSE LET c == Head(parts)
             more == Tail(parts)
             to == Append(at, c)
         IN CASE c = "." -> Walk(tree, at, more, follow, fuel)
              [] c = ".." -> Walk(tree, IF at = << >> THEN at ELSE Front(at), more, follow, fuel)
              [] OTHER ->
                   IF to \in DOMAIN tree /\ (follow \/ more # << >>)
                   THEN IF fuel = 0 THEN << "loop" >>
                        ELSE Walk(tree, IF tree[to].abs THEN << >> ELSE at,
                                  tree[to].parts \o more, follow, fuel - 1)
                   ELSE Walk(tree, to, more, follow, fuel)

Meaning(c, fuel) ==
    Walk(c.tree, IF c.path.abs THEN << >> ELSE c.base, c.path.parts, c.follow, fuel)

\* Whether a walk asks for the parent of the root, and so leaves the buffer.
RECURSIVE ClimbsOut(_, _, _, _, _)
ClimbsOut(tree, at, parts, follow, fuel) ==
    /\ parts # << >>
    /\ LET c == Head(parts)
           more == Tail(parts)
           to == Append(at, c)
       IN CASE c = "." -> ClimbsOut(tree, at, more, follow, fuel)
            [] c = ".." -> at = << >> \/ ClimbsOut(tree, Front(at), more, follow, fuel)
            [] OTHER ->
                 IF to \in DOMAIN tree /\ (follow \/ more # << >>)
                 THEN fuel > 0 /\ ClimbsOut(tree, << >>, (IF tree[to].abs THEN << >> ELSE at)
                                                \o tree[to].parts \o more, follow, fuel - 1)
                 ELSE ClimbsOut(tree, to, more, follow, fuel)

TypeOK ==
    /\ out \in Seq(Names) /\ rest \in Seq(Parts) /\ depth \in 0 .. MaxDepth
    /\ res \in {"", "ok", "ENAMETOOLONG", "underrun", "overrun", "stack"}

\* A path that path_normalize accepts names the file the path means: what it
\* returns is free of links that were to be followed, of "." and of "..".
NormalIsMeant == res = "ok" => out = Meaning(call, MaxDepth) /\ Bytes(out) + 1 < MaxPath

\* It leaves its buffer by the front only for the parent of the root, and
\* runs out of stack only on links that turn in a circle or too many of them.
OnlyKnownFailures ==
    /\ res = "underrun" => ClimbsOut(call.tree, IF call.path.abs THEN << >> ELSE call.base,
                                     call.path.parts, call.follow, MaxDepth)
    /\ res = "stack" => Meaning(call, MaxDepth - 1) = << "loop" >>
=============================================================================
