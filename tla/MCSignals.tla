----------------------------- MODULE MCSignals -----------------------------
(* Instances of Signals for TLC: signal numbers are the kernel's own.       *)
EXTENDS Signals, TLC

CONSTANTS t1, t2, t3

SIGKILL == 9
SIGSEGV == 11

KillSegv        == {SIGKILL, SIGSEGV}
JustKill        == {SIGKILL}
JustSegv        == {SIGSEGV}
AllMasks        == SUBSET Sig
NoSignals       == {}
NoMasks         == {{}}
=============================================================================
