----------------------------- MODULE MCProcTree ----------------------------
(* Instances of ProcTree for TLC. *)
EXTENDS ProcTree, TLC

CONSTANTS t1, t2, t3, t4, t5

\* Task structures other than the first process' are interchangeable.
Symmetry == Permutations(Task \ {Init1})
=============================================================================
