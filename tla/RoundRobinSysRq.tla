--------------------------- MODULE RoundRobinSysRq ---------------------------
(***************************************************************************)
(* RoundRobin with normalize_rt_tasks, which SysRq-n runs from the         *)
(* keyboard interrupt or from /proc/sysrq-trigger: every user task is made *)
(* SCHED_NORMAL.  The loop takes and releases rq->lock for each task, so   *)
(* each iteration is an action; kernel threads are skipped.                *)
(***************************************************************************)
EXTENDS RoundRobin

\* Unlike change_class it does not ask whether p is running.
normalize_task(p) ==
    LET attr == [policy |-> "SCHED_NORMAL", priority |-> 0]
        new == [task EXCEPT ![p] = setscheduler(@, "SCHED_NORMAL", attr, 0)]
        moved == enqueue_task(dequeue_task(rq, task, p), new, p, FALSE)
        on == IF p \in rq.on_rq THEN resched_curr(moved) ELSE rq
    IN  [rq |-> check_class_changed(on, new, p, task[p].sched_class, task[p].prio),
         task |-> new]

\* One iteration of normalize_rt_tasks.
Normalize(p) ==
    LET after == IF rt_prio(task[p].prio) THEN normalize_task(p) ELSE set_user_nice(p, 0)
    IN  /\ life[p] # "free"
        /\ rt_prio(task[p].prio) \/ task[p].static_prio < NICE_TO_PRIO(0)
        /\ rq' = after.rq
        /\ task' = after.task
        /\ UNCHANGED <<state, life, pi>>

NextSysRq == Next \/ \E p \in Task : Normalize(p)

SpecSysRq == Init /\ [][NextSysRq]_vars

\* circular.c, set_next_entity: "'current' is not kept within the circular list."
CurrentNotInRing == rq.curr \notin Elems(rq.ring)
=============================================================================
