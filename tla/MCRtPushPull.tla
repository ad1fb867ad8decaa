---------------------------- MODULE MCRtPushPull ----------------------------
(***************************************************************************)
(* Real-time tasks that may run everywhere, or only where the CPU may go.  *)
(***************************************************************************)
EXTENDS RtPushPull, TLC

CONSTANTS t1, t2, t3

FreeOrPlugged == {CPU, Pluggable}

Symmetry == Permutations(Task)
=============================================================================
