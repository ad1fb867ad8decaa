----------------------------- MODULE MCSmpSched -----------------------------
(***************************************************************************)
(* Instances of SmpSched: two CPUs and two or three tasks.                 *)
(***************************************************************************)
EXTENDS SmpSched, TLC

CONSTANTS t1, t2, t3

NoMask == {}
OneCpuMasks == {{c} : c \in CPU}
OwnCache == [c \in CPU |-> c]
WorkerSymmetry == Permutations({t1, t2})
=============================================================================
