----------------------------- MODULE MCMemory ------------------------------
(* Instances of Memory for TLC. *)
EXTENDS Memory, TLC

CONSTANTS t1, t2, m1, m2, lo, hi

\* The page between the image and the stack, with what is below it, and all.
SomeRanges == {<<0, 1>>, <<0, 2>>, <<0, 3>>}

\* Many calls of one kind, or a few of each; or two stores and few calls.
FewCalls == {<<3, 0, 1>>, <<1, 1, 1>>, <<0, 3, 1>>, <<1, 0, 2>>, <<0, 1, 2>>}

LowTwo == {<<lo, 2>>}

Anonymous == {{"w", "anon"}}
=============================================================================
