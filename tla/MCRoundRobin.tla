---------------------------- MODULE MCRoundRobin ----------------------------
(***************************************************************************)
(* The arguments of the system calls in the runs of RoundRobin.            *)
(***************************************************************************)
EXTENDS RoundRobinSysRq, TLC

CONSTANTS t1, t2, t3

Call(policy, priority, nice, reset) ==
    [policy |-> policy, priority |-> priority, nice |-> nice, reset_on_fork |-> reset]

NoAttr == {}

\* Changes of class, of policy within a class and of real-time priority, to
\* better, worse and other than real-time with respect to a boost to 1.
ClassAttr ==
    {Call("SCHED_NORMAL", 0, 0, FALSE),
     Call("SCHED_IDLE", 0, NULL, FALSE),
     Call("SCHED_FIFO", 1, NULL, TRUE),
     Call("SCHED_RR", 3, NULL, FALSE),
     Call(SETPARAM_POLICY, 1, NULL, FALSE)}

\* A better nice value, to be set once.
BetterNice == {-1}

Symmetry == Permutations({t2, t3})
=============================================================================
