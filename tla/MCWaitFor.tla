---------------------------- MODULE MCWaitFor ----------------------------
(* Instances of WaitFor for TLC. *)
EXTENDS WaitFor, TLC

CONSTANTS t1, t2, t3, tty, pids

\* No thread has a role of its own.
Symmetry == Permutations(Thread)
=============================================================================
