------------------------------ MODULE RoundRobin ------------------------------
(***************************************************************************)
(* One CPU of the scheduler: core.c driving the real-time class (rt.c),    *)
(* the circular class that replaces the fair one (circular.c) and the idle *)
(* task.  circular.c only builds without CONFIG_SMP, so this is the whole  *)
(* system.                                                                 *)
(*                                                                         *)
(* An action is one section under rq->lock (the lock makes it atomic).     *)
(* The operators named after the functions of the code take the struct rq  *)
(* they work on as `r' and the scheduling attributes of the tasks as `t',  *)
(* and return the new struct rq.                                           *)
(*                                                                         *)
(* The ring of circlist.c is the sequence of its nodes, head first, which  *)
(* is what CircListProofs shows it to be, as long as no node is inserted   *)
(* twice and no absent node is removed from a non-empty list.  Here those  *)
(* two misuses set `fault': the first relinks the ring and loses nodes,    *)
(* the second searches it for ever.                                        *)
(*                                                                         *)
(* Time is left out: clocks, run-time statistics, load weights, and the    *)
(* throttling of the real-time class (sysctl_sched_rt_runtime is -1).      *)
(* So are SCHED_DEADLINE, whose code is not in this repository, and the    *)
(* permission checks, whose failure changes nothing.                       *)
(***************************************************************************)
EXTENDS Integers, Sequences, FiniteSets, Lists

CONSTANTS
    Task,               \* the task_structs a process may be created in
    InitTask,           \* the first process, which never exits
    IDLE,               \* the idle task
    NULL,
    MAX_RT_PRIO,        \* priorities below it are real-time
    NICE_WIDTH,         \* number of nice levels
    RR_TIMESLICE,       \* sched_rr_timeslice, in ticks
    WAKEUP_PREEMPTION,  \* the scheduler feature of that name
    CHILD_RUNS_FIRST,   \* sysctl_sched_child_runs_first
    Worker,             \* the tasks that are workqueue workers
    Attr,               \* arguments of sched_setattr; nice is NULL in the older
                        \* calls, which pass on the nice level the task has
    Nice,               \* the arguments set_user_nice is called with
    Holder,             \* the tasks that hold rt_mutexes
    Boost               \* the priorities of their top waiters

MAX_PRIO == MAX_RT_PRIO + NICE_WIDTH
DEFAULT_PRIO == MAX_RT_PRIO + NICE_WIDTH \div 2
NICE_TO_PRIO(nice) == nice + DEFAULT_PRIO
PRIO_TO_NICE(prio) == prio - DEFAULT_PRIO
NiceLevel == {PRIO_TO_NICE(prio) : prio \in MAX_RT_PRIO..(MAX_PRIO - 1)}

rt_policies == {"SCHED_FIFO", "SCHED_RR"}
fair_policies == {"SCHED_NORMAL", "SCHED_BATCH", "SCHED_IDLE"}
SETPARAM_POLICY == "-1"

rt_policy(policy) == policy \in rt_policies
fair_policy(policy) == policy \in fair_policies
rt_prio(prio) == prio < MAX_RT_PRIO

ASSUME SizeAssumption ==
    /\ MAX_RT_PRIO \in Nat \ {0}
    /\ NICE_WIDTH \in Nat \ {0, 1}
    /\ RR_TIMESLICE \in Nat \ {0}
ASSUME NameAssumption ==
    InitTask \in Task /\ IDLE \notin Task /\ NULL \notin Task /\ IDLE # NULL
ASSUME FeatureAssumption == {WAKEUP_PREEMPTION, CHILD_RUNS_FIRST} \subseteq BOOLEAN
ASSUME WorkerAssumption == Worker \cup Holder \subseteq Task
ASSUME InputAssumption ==
    /\ Attr \subseteq [policy : rt_policies \cup fair_policies \cup {SETPARAM_POLICY},
                       priority : 0..(MAX_RT_PRIO - 1),
                       nice : NiceLevel \cup {NULL},
                       reset_on_fork : BOOLEAN]
    /\ Nice \subseteq NiceLevel
    /\ Boost \subseteq 0..MAX_PRIO

VARIABLES
    rq,      \* struct rq, what rq->lock protects
    task,    \* the scheduling attributes of every task_struct
    state,   \* task_struct.state: "R" is TASK_RUNNING, "S" any sleeping state
    life,    \* "free", "new" (forked, not yet woken up) or "live"
    pi       \* priority of the top waiter a task inherits from, MAX_PRIO if none

vars == <<rq, task, state, life, pi>>

RtPrio == 0..(MAX_RT_PRIO - 1)

Attributes ==
    [sched_class : {"rt", "circular"},
     policy : rt_policies \cup fair_policies,
     rt_priority : RtPrio,
     static_prio : MAX_RT_PRIO..(MAX_PRIO - 1),
     normal_prio : 0..(MAX_PRIO - 1),
     prio : 0..(MAX_PRIO - 1),
     time_slice : 1..RR_TIMESLICE,
     reset_on_fork : BOOLEAN]

-----------------------------------------------------------------------------
Lowest(S) == CHOOSE i \in S : \A j \in S : i <= j

\* The idle task keeps the attributes init_task is born with.
class_of(t, p) == IF p = IDLE THEN "idle" ELSE t[p].sched_class
prio_of(t, p) == IF p = IDLE THEN DEFAULT_PRIO ELSE t[p].prio
policy_of(t, p) == IF p = IDLE THEN "SCHED_NORMAL" ELSE t[p].policy

\* for_each_class goes through rt, circular, idle.
Rank(class) == CASE class = "rt" -> 1 [] class = "circular" -> 2 [] class = "idle" -> 3

resched_curr(r) == [r EXCEPT !.need_resched = TRUE]

-----------------------------------------------------------------------------
\* circular.c

circularlist_insert(r, p) ==
    IF p \in Elems(r.ring)
    THEN [r EXCEPT !.fault = "ring relinked"]
    ELSE [r EXCEPT !.ring = Append(@, p)]

circularlist_remove(r, p) ==
    IF r.ring = <<>> \/ p \in Elems(r.ring)
    THEN [r EXCEPT !.ring = Delete(@, p)]
    ELSE [r EXCEPT !.fault = "endless search"]

enqueue_entity(r, p) ==
    LET linked == IF p # r.circ_curr THEN circularlist_insert(r, p) ELSE r
    IN  [linked EXCEPT !.circ_nr = @ + 1, !.se_on_rq = @ \cup {p}]

enqueue_task_circular(r, p) ==
    LET entered == IF p \notin r.se_on_rq THEN enqueue_entity(r, p) ELSE r
    IN  [entered EXCEPT !.nr_running = @ + 1]

\* Mutant: the entity is unlinked even when it is the running one.
DequeueUnlinksCurr(r, p) ==
    [circularlist_remove(r, p) EXCEPT !.se_on_rq = @ \ {p},
                                      !.circ_nr = @ - 1,
                                      !.nr_running = @ - 1]

dequeue_task_circular(r, p) ==
    LET unlinked == IF p # r.circ_curr THEN circularlist_remove(r, p) ELSE r
    IN  [unlinked EXCEPT !.se_on_rq = @ \ {p},
                         !.circ_nr = @ - 1,
                         !.nr_running = @ - 1]

\* Mutant: a task that went to sleep is put back on the ring.
PutPrevAlways(r, prev) ==
    [circularlist_insert(r, prev) EXCEPT !.circ_curr = NULL]

put_prev_task_circular(r, prev) ==
    LET back == IF prev \in r.se_on_rq THEN circularlist_insert(r, prev) ELSE r
    IN  [back EXCEPT !.circ_curr = NULL]

\* 'current' is not kept within the circular list.
set_next_entity(r, p) ==
    LET unlinked == IF p \in r.se_on_rq THEN circularlist_remove(r, p) ELSE r
    IN  [unlinked EXCEPT !.circ_curr = p]

check_preempt_wakeup(r, t, p) ==
    IF p = r.curr THEN r
    ELSE IF policy_of(t, r.curr) = "SCHED_IDLE" /\ t[p].policy # "SCHED_IDLE"
         THEN resched_curr(r)
    ELSE IF t[p].policy # "SCHED_NORMAL" \/ ~WAKEUP_PREEMPTION
         THEN r
    ELSE resched_curr(r)

-----------------------------------------------------------------------------
\* rt.c

on_rt_rq(r, p) == \E i \in RtPrio : p \in Elems(r.queue[i])

dequeue_top_rt_rq(r) ==
    IF r.rt_queued
    THEN [r EXCEPT !.nr_running = @ - r.rt_nr, !.rt_queued = FALSE]
    ELSE r

enqueue_top_rt_rq(r) ==
    IF r.rt_queued \/ r.rt_nr = 0
    THEN r
    ELSE [r EXCEPT !.nr_running = @ + r.rt_nr, !.rt_queued = TRUE]

enqueue_one_rt_entity(r, t, p, head) ==
    [r EXCEPT !.queue[t[p].prio] = IF head THEN <<p>> \o @ ELSE Append(@, p),
              !.bitmap = @ \cup {t[p].prio},
              !.rt_nr = @ + 1]

dequeue_one_rt_entity(r, t, p) ==
    LET q == [i \in RtPrio |-> Delete(r.queue[i], p)]
    IN  [r EXCEPT !.queue = q,
                  !.bitmap = IF q[t[p].prio] = <<>> THEN @ \ {t[p].prio} ELSE @,
                  !.rt_nr = @ - 1]

dequeue_rt_stack(r, t, p) ==
    LET top == dequeue_top_rt_rq(r)
    IN  IF on_rt_rq(r, p) THEN dequeue_one_rt_entity(top, t, p) ELSE top

enqueue_task_rt(r, t, p, head) ==
    enqueue_top_rt_rq(enqueue_one_rt_entity(dequeue_rt_stack(r, t, p), t, p, head))

dequeue_task_rt(r, t, p) ==
    enqueue_top_rt_rq(dequeue_rt_stack(r, t, p))

requeue_task_rt(r, t, p) ==
    IF on_rt_rq(r, p)
    THEN [r EXCEPT !.queue[t[p].prio] = Append(Delete(@, p), p)]
    ELSE r

check_preempt_curr_rt(r, t, p) ==
    IF t[p].prio < prio_of(t, r.curr) THEN resched_curr(r) ELSE r

switched_to_rt(r, t, p) ==
    IF p \in r.on_rq /\ r.curr # p /\ t[p].prio < prio_of(t, r.curr)
    THEN resched_curr(r)
    ELSE r

\* Without CONFIG_SMP: "simply resched on drop of prio".
prio_changed_rt(r, t, p, oldprio) ==
    IF /\ p \in r.on_rq
       /\ IF r.curr = p THEN oldprio < t[p].prio
                        ELSE t[p].prio < prio_of(t, r.curr)
    THEN resched_curr(r)
    ELSE r

-----------------------------------------------------------------------------
\* core.c: the calls through p->sched_class

enqueue_task(r, t, p, head) ==
    IF t[p].sched_class = "rt" THEN enqueue_task_rt(r, t, p, head)
                               ELSE enqueue_task_circular(r, p)

dequeue_task(r, t, p) ==
    IF t[p].sched_class = "rt" THEN dequeue_task_rt(r, t, p)
                               ELSE dequeue_task_circular(r, p)

\* Without CONFIG_SMP only the circular class has something to do.
put_prev_task(r, t, p) ==
    IF class_of(t, p) = "circular" THEN put_prev_task_circular(r, p) ELSE r

set_curr_task(r, t, p) ==
    IF t[p].sched_class = "circular" THEN set_next_entity(r, p) ELSE r

check_preempt_curr(r, t, p) ==
    LET class == t[p].sched_class
        running == class_of(t, r.curr)
    IN  CASE Rank(class) < Rank(running) -> resched_curr(r)
          [] Rank(class) > Rank(running) -> r
          [] class = "rt" /\ running = "rt" -> check_preempt_curr_rt(r, t, p)
          [] class = "circular" /\ running = "circular" -> check_preempt_wakeup(r, t, p)

switched_to_circular(r, t, p) ==
    CASE p \notin r.on_rq -> r
      [] p \in r.on_rq /\ r.curr = p -> resched_curr(r)
      [] OTHER -> check_preempt_curr(r, t, p)

\* Unlike the one of rt.c it does not ask whether p is queued.
prio_changed_circular(r, t, p, oldprio) ==
    IF r.curr = p
    THEN IF t[p].prio > oldprio THEN resched_curr(r) ELSE r
    ELSE check_preempt_curr(r, t, p)

\* Mutant: a change of class is not announced to the new class.
IgnoresSwitch(r, t, p, prev_class, oldprio) ==
    IF prev_class # t[p].sched_class \/ oldprio = t[p].prio THEN r
    ELSE IF t[p].sched_class = "rt" THEN prio_changed_rt(r, t, p, oldprio)
                                    ELSE prio_changed_circular(r, t, p, oldprio)

check_class_changed(r, t, p, prev_class, oldprio) ==
    CASE prev_class # t[p].sched_class ->
           IF t[p].sched_class = "rt" THEN switched_to_rt(r, t, p)
                                      ELSE switched_to_circular(r, t, p)
      [] prev_class = t[p].sched_class /\ oldprio # t[p].prio ->
           IF t[p].sched_class = "rt" THEN prio_changed_rt(r, t, p, oldprio)
                                      ELSE prio_changed_circular(r, t, p, oldprio)
      [] OTHER -> r

-----------------------------------------------------------------------------
\* core.c: choosing the next task.  The result is a struct rq and a task.

pick_next_task_rt(r, t, prev) ==
    LET put == put_prev_task(r, t, prev)
        idx == Lowest(put.bitmap)
    IN  IF put.bitmap = {} \/ put.queue[idx] = <<>>
        THEN [rq |-> [put EXCEPT !.fault = "empty queue"], next |-> IDLE]
        ELSE [rq |-> put, next |-> Head(put.queue[idx])]

\* Mutant: the youngest waiting task is chosen.
PickLast(r, t, prev) ==
    LET put == put_prev_task(r, t, prev)
        se == put.ring[Len(put.ring)]
    IN  [rq |-> set_next_entity(put, se), next |-> se]

pick_next_task_circular(r, t, prev) ==
    LET put == put_prev_task(r, t, prev)
        se == Head(put.ring)
    IN  CASE put.ring # <<>> -> [rq |-> set_next_entity(put, se), next |-> se]
          [] put.ring = <<>> /\ put.circ_curr # NULL ->
               [rq |-> put, next |-> put.circ_curr]
          [] OTHER -> [rq |-> [put EXCEPT !.fault = "no entity"], next |-> IDLE]

pick_next_task_idle(r, t, prev) ==
    [rq |-> put_prev_task(r, t, prev), next |-> IDLE]

\* No task is ever in the fair class.
cfs_h_nr_running == 0

pick_next_task(r, t, prev) ==
    IF /\ ~(class_of(t, prev) = "circular" /\ r.nr_running = cfs_h_nr_running)
       /\ r.rt_queued
    THEN pick_next_task_rt(r, t, prev)
    ELSE IF r.circ_nr # 0 THEN pick_next_task_circular(r, t, prev)
                          ELSE pick_next_task_idle(r, t, prev)

\* __schedule from the choice of the next task on.
switch_from(r, t) ==
    LET pick == pick_next_task(r, t, r.curr)
    IN  [pick.rq EXCEPT !.need_resched = FALSE, !.curr = pick.next]

-----------------------------------------------------------------------------
\* core.c: the attributes of a task

normal_prio(a) ==
    IF rt_policy(a.policy) THEN MAX_RT_PRIO - 1 - a.rt_priority ELSE a.static_prio

effective_prio(a) == IF rt_prio(a.prio) THEN a.prio ELSE normal_prio(a)

class_for(prio) == IF rt_prio(prio) THEN "rt" ELSE "circular"

\* __setscheduler_params
setscheduler_params(a, policy, attr, nice) ==
    LET b == [a EXCEPT !.policy = policy,
                       !.static_prio = IF fair_policy(policy) THEN NICE_TO_PRIO(nice) ELSE @,
                       !.rt_priority = attr.priority]
    IN  [b EXCEPT !.normal_prio = normal_prio(b)]

\* Mutant: the class is chosen by the policy before the change.
OldPolicyClass(a, policy, attr, nice) ==
    LET b == setscheduler_params(a, policy, attr, nice)
    IN  [b EXCEPT !.prio = normal_prio(b),
                  !.sched_class = IF rt_policy(a.policy) THEN "rt" ELSE "circular"]

\* __setscheduler
setscheduler(a, policy, attr, nice) ==
    LET b == setscheduler_params(a, policy, attr, nice)
    IN  [b EXCEPT !.prio = normal_prio(b), !.sched_class = class_for(normal_prio(b))]

\* Mutant: the priority is changed before the task is taken off its queue.
ChangesPrioFirst(r, t, new, p, head) ==
    LET queued == p \in r.on_rq
        running == r.curr = p
        early == [t EXCEPT ![p].prio = new[p].prio]
        off == IF queued THEN dequeue_task(r, early, p) ELSE r
        out == IF running THEN put_prev_task(off, t, p) ELSE off
        in  == IF running THEN set_curr_task(out, new, p) ELSE out
        on  == IF queued THEN enqueue_task(in, new, p, head) ELSE in
    IN  check_class_changed(on, new, p, t[p].sched_class, t[p].prio)

(***************************************************************************)
(* The middle of __sched_setscheduler and of rt_mutex_setprio: p is taken  *)
(* off its queue and, if it is running, out of its class, then the same in *)
(* reverse with its new attributes.                                        *)
(***************************************************************************)
change_class(r, t, new, p, head) ==
    LET queued == p \in r.on_rq
        running == r.curr = p
        off == IF queued THEN dequeue_task(r, t, p) ELSE r
        out == IF running THEN put_prev_task(off, t, p) ELSE off
        in  == IF running THEN set_curr_task(out, new, p) ELSE out
        on  == IF queued THEN enqueue_task(in, new, p, head) ELSE in
    IN  check_class_changed(on, new, p, t[p].sched_class, t[p].prio)

\* Mutant of keeps_boost(): the new priority is taken in any case.
ForgetsBoost(p, newprio) == FALSE

\* rtmutex.c, external: is p boosted at least to newprio?
rt_mutex_check_prio(p, newprio) == pi[p] <= newprio

\* __sched_setscheduler stores the parameters only.
keeps_boost(p, newprio) == rt_mutex_check_prio(p, newprio)

\* rtmutex.c, external: the priority p should run at.
rt_mutex_getprio(p, waiter) ==
    IF waiter < task[p].normal_prio THEN waiter ELSE task[p].normal_prio

-----------------------------------------------------------------------------
InitAttributes ==
    [sched_class |-> "circular", policy |-> "SCHED_NORMAL", rt_priority |-> 0,
     static_prio |-> DEFAULT_PRIO, normal_prio |-> DEFAULT_PRIO, prio |-> DEFAULT_PRIO,
     time_slice |-> RR_TIMESLICE, reset_on_fork |-> FALSE]

\* The boot thread has become the idle task and has started the first process.
Init ==
    /\ rq = [curr |-> IDLE, need_resched |-> TRUE, nr_running |-> 1, on_rq |-> {InitTask},
             ring |-> <<InitTask>>, circ_curr |-> NULL, circ_nr |-> 1,
             se_on_rq |-> {InitTask},
             queue |-> [i \in RtPrio |-> <<>>], bitmap |-> {}, rt_nr |-> 0,
             rt_queued |-> FALSE, fault |-> "none"]
    /\ task = [p \in Task |-> InitAttributes]
    /\ state = [p \in Task |-> "R"]
    /\ life = [p \in Task |-> IF p = InitTask THEN "live" ELSE "free"]
    /\ pi = [p \in Task |-> MAX_PRIO]

Current == rq.curr
InTask == Current \in Task

-----------------------------------------------------------------------------
\* Going to sleep, switching, waking up

\* set_current_state(), before the condition waited for is tested.
SetCurrentState(s) ==
    /\ InTask
    /\ state[Current] # s
    /\ state' = [state EXCEPT ![Current] = s]
    /\ UNCHANGED <<rq, task, life, pi>>

\* __schedule with TASK_RUNNING, or interrupted in a sleeping state (PREEMPT_ACTIVE).
Preempt ==
    /\ rq.need_resched
    /\ rq' = switch_from(rq, task)
    /\ UNCHANGED <<task, state, life, pi>>

\* schedule() called by a task that is runnable.
ScheduleRunning ==
    /\ InTask
    /\ state[Current] = "R"
    /\ rq' = switch_from(rq, task)
    /\ UNCHANGED <<task, state, life, pi>>

\* schedule() called to sleep, with a signal pending.
ScheduleSignalled ==
    /\ InTask
    /\ state[Current] # "R"
    /\ state' = [state EXCEPT ![Current] = "R"]
    /\ rq' = switch_from(rq, task)
    /\ UNCHANGED <<task, life, pi>>

deactivate(r, p) == [dequeue_task(r, task, p) EXCEPT !.on_rq = @ \ {p}]

activate(r, p) ==
    LET on == [enqueue_task(r, task, p, FALSE) EXCEPT !.on_rq = @ \cup {p}]
    IN  check_preempt_curr(on, task, p)

\* Mutant: __schedule does not look at the state again.
BlocksAlways ==
    /\ InTask
    /\ rq' = switch_from(deactivate(rq, Current), task)
    /\ UNCHANGED <<task, state, life, pi>>

\* schedule() called to sleep.
ScheduleBlocks ==
    /\ InTask
    /\ state[Current] # "R"
    /\ rq' = switch_from(deactivate(rq, Current), task)
    /\ UNCHANGED <<task, state, life, pi>>

(***************************************************************************)
(* The same by a workqueue worker: wq_worker_sleeping names another worker *)
(* w, which try_to_wake_up_local wakes while rq->curr is the one that has  *)
(* just been dequeued.                                                     *)
(***************************************************************************)
ScheduleBlocksWorker(w) ==
    /\ InTask
    /\ Current \in Worker /\ w \in Worker \ {Current}
    /\ state[Current] # "R"
    /\ life[w] = "live" /\ state[w] # "R"
    /\ state' = [state EXCEPT ![w] = "R"]
    /\ LET off == deactivate(rq, Current)
           woken == IF w \in off.on_rq THEN check_preempt_curr(off, task, w)
                                       ELSE activate(off, w)
       IN  rq' = switch_from(woken, task)
    /\ UNCHANGED <<task, life, pi>>

\* do_exit(): schedule() in state TASK_DEAD; finish_task_switch frees the task.
Exit ==
    /\ InTask
    /\ Current # InitTask
    /\ pi[Current] = MAX_PRIO
    /\ rq' = switch_from(deactivate(rq, Current), task)
    /\ life' = [life EXCEPT ![Current] = "free"]
    /\ state' = [state EXCEPT ![Current] = "R"]
    /\ task' = [task EXCEPT ![Current] = InitAttributes]
    /\ UNCHANGED pi

\* try_to_wake_up of a task that has not left the run queue (ttwu_remote).
WakeUpQueued(p) ==
    /\ life[p] = "live" /\ state[p] # "R"
    /\ p \in rq.on_rq
    /\ rq' = check_preempt_curr(rq, task, p)
    /\ state' = [state EXCEPT ![p] = "R"]
    /\ UNCHANGED <<task, life, pi>>

\* try_to_wake_up of a task that sleeps.
WakeUp(p) ==
    /\ life[p] = "live" /\ state[p] # "R"
    /\ p \notin rq.on_rq
    /\ rq' = activate(rq, p)
    /\ state' = [state EXCEPT ![p] = "R"]
    /\ UNCHANGED <<task, life, pi>>

-----------------------------------------------------------------------------
\* Creating tasks

\* sched_fork of the child c, a copy of the current task.
Fork(c) ==
    /\ InTask
    /\ life[c] = "free"
    /\ LET a == task[Current]
           copy == [a EXCEPT !.prio = a.normal_prio]
           renice == rt_policy(a.policy) \/ PRIO_TO_NICE(a.static_prio) < 0
           nice0 == IF renice THEN NICE_TO_PRIO(0) ELSE a.static_prio
           reset == [copy EXCEPT
                       !.policy = IF rt_policy(@) THEN "SCHED_NORMAL" ELSE @,
                       !.rt_priority = IF rt_policy(a.policy) THEN 0 ELSE @,
                       !.static_prio = nice0,
                       !.normal_prio = nice0,
                       !.prio = nice0,
                       !.reset_on_fork = FALSE]
           child == IF a.reset_on_fork THEN reset ELSE copy
       IN  /\ task' = [task EXCEPT ![c] = [child EXCEPT !.sched_class = class_for(child.prio)]]
           /\ rq' = IF ~rt_prio(child.prio) /\ CHILD_RUNS_FIRST
                    THEN resched_curr(rq)
                    ELSE rq
    /\ life' = [life EXCEPT ![c] = "new"]
    /\ state' = [state EXCEPT ![c] = "R"]
    /\ UNCHANGED pi

wake_up_new_task(c) ==
    /\ InTask
    /\ life[c] = "new"
    /\ rq' = activate(rq, c)
    /\ life' = [life EXCEPT ![c] = "live"]
    /\ UNCHANGED <<task, state, pi>>

-----------------------------------------------------------------------------
\* Changing attributes

(***************************************************************************)
(* __sched_setscheduler.  The recheck of the policy under the lock makes   *)
(* the whole call atomic in p->policy.                                     *)
(***************************************************************************)
SetScheduler(p, attr) ==
    LET a == task[p]
        param == attr.policy = SETPARAM_POLICY
        policy == IF param THEN a.policy ELSE attr.policy
        nice == IF attr.nice = NULL THEN PRIO_TO_NICE(a.static_prio) ELSE attr.nice
        flag == [a EXCEPT !.reset_on_fork = IF param THEN @ ELSE attr.reset_on_fork]
        newprio == MAX_RT_PRIO - 1 - attr.priority
        same == /\ policy = a.policy
                /\ fair_policy(policy) => nice = PRIO_TO_NICE(a.static_prio)
                /\ rt_policy(policy) => attr.priority = a.rt_priority
        changed == [task EXCEPT ![p] = setscheduler(flag, policy, attr, nice)]
    IN  /\ InTask
        /\ life[p] # "free"
        /\ rt_policy(policy) <=> attr.priority # 0
        /\ \/ /\ same
              /\ task' = [task EXCEPT ![p] = flag]
              /\ UNCHANGED rq
           \/ /\ ~same
              /\ keeps_boost(p, newprio)
              /\ task' = [task EXCEPT ![p] = setscheduler_params(flag, policy, attr, nice)]
              /\ UNCHANGED rq
           \/ /\ ~same
              /\ ~keeps_boost(p, newprio)
              /\ task' = changed
              /\ rq' = change_class(rq, task, changed, p, a.prio <= changed[p].prio)
        /\ UNCHANGED <<state, life, pi>>

\* The new attributes and struct rq after set_user_nice(p, nice).
set_user_nice(p, nice) ==
    LET a == task[p]
        b == [a EXCEPT !.static_prio = NICE_TO_PRIO(nice)]
        c == [b EXCEPT !.normal_prio = normal_prio(b), !.prio = effective_prio(b)]
        new == [task EXCEPT ![p] = c]
        on == enqueue_task(dequeue_task(rq, task, p), new, p, FALSE)
        resched == c.prio < a.prio \/ (c.prio > a.prio /\ rq.curr = p)
    IN  IF rt_policy(a.policy)
        THEN [rq |-> rq, task |-> [task EXCEPT ![p] = b]]
        ELSE [rq |-> IF p \notin rq.on_rq THEN rq
                     ELSE IF resched THEN resched_curr(on) ELSE on,
              task |-> new]

SetUserNice(p, nice) ==
    /\ InTask
    /\ life[p] # "free"
    /\ PRIO_TO_NICE(task[p].static_prio) # nice
    /\ rq' = set_user_nice(p, nice).rq
    /\ task' = set_user_nice(p, nice).task
    /\ UNCHANGED <<state, life, pi>>

(***************************************************************************)
(* The top waiter of the rt_mutexes p holds changes (external), and        *)
(* rt_mutex_setprio is called if that changes p's priority.                *)
(***************************************************************************)
AdjustPrio(p, waiter) ==
    LET prio == rt_mutex_getprio(p, waiter)
        new == [task EXCEPT ![p].prio = prio, ![p].sched_class = class_for(prio)]
        head == rt_prio(prio) /\ task[p].prio < prio
    IN  /\ InTask
        /\ life[p] = "live"
        /\ pi[p] # waiter
        /\ pi' = [pi EXCEPT ![p] = waiter]
        /\ IF task[p].prio # prio
           THEN task' = new /\ rq' = change_class(rq, task, new, p, head)
           ELSE UNCHANGED <<task, rq>>
        /\ UNCHANGED <<state, life>>

-----------------------------------------------------------------------------
\* Giving up the CPU, and the timer interrupt

\* sys_sched_yield; interrupts stay off until __schedule has the lock again.
SchedYield ==
    /\ InTask
    /\ state[Current] = "R"
    /\ LET r == IF task[Current].sched_class = "rt"
                THEN requeue_task_rt(rq, task, Current)
                ELSE rq
       IN  rq' = switch_from(r, task)
    /\ UNCHANGED <<task, state, life, pi>>

\* yield_to(p), when it returns true: it then calls schedule().
YieldTo(p) ==
    /\ InTask
    /\ state[Current] = "R"
    /\ life[p] = "live" /\ state[p] = "R"
    /\ p # Current
    /\ task[Current].sched_class = "circular"
    /\ task[p].sched_class = "circular"
    /\ p \in rq.se_on_rq
    /\ rq.nr_running # 1
    /\ rq' = switch_from(rq, task)
    /\ UNCHANGED <<task, state, life, pi>>

\* scheduler_tick; only task_tick_rt does something, to SCHED_RR tasks.
Tick ==
    /\ InTask
    /\ LET a == task[Current]
       IN  /\ a.sched_class = "rt" /\ a.policy = "SCHED_RR"
           /\ task' = [task EXCEPT ![Current].time_slice =
                         IF @ = 1 THEN RR_TIMESLICE ELSE @ - 1]
           /\ rq' = IF a.time_slice = 1 /\ Len(rq.queue[a.prio]) > 1
                    THEN resched_curr(requeue_task_rt(rq, task, Current))
                    ELSE rq
    /\ UNCHANGED <<state, life, pi>>

-----------------------------------------------------------------------------
Next ==
    \/ \E s \in {"R", "S"} : SetCurrentState(s)
    \/ Preempt
    \/ ScheduleRunning
    \/ ScheduleSignalled
    \/ ScheduleBlocks
    \/ \E w \in Task : ScheduleBlocksWorker(w)
    \/ Exit
    \/ \E p \in Task : WakeUpQueued(p)
    \/ \E p \in Task : WakeUp(p)
    \/ \E c \in Task : Fork(c)
    \/ \E c \in Task : wake_up_new_task(c)
    \/ \E p \in Task, attr \in Attr : SetScheduler(p, attr)
    \/ \E p \in Task, nice \in Nice : SetUserNice(p, nice)
    \/ \E p \in Holder, waiter \in Boost : AdjustPrio(p, waiter)
    \/ SchedYield
    \/ \E p \in Task : YieldTo(p)
    \/ Tick

Spec == Init /\ [][Next]_vars

(***************************************************************************)
(* Every task is cooperative: it goes on to yield or to sleep.  This is an *)
(* assumption about the programs.                                          *)
(***************************************************************************)
CooperativeSpec ==
    Spec /\ WF_vars(Preempt) /\ WF_vars(SchedYield \/ ScheduleBlocks)

(***************************************************************************)
(* What the kernel itself guarantees: timer interrupts keep coming, and a  *)
(* task that is marked for rescheduling is switched at the next exit from  *)
(* an interrupt.                                                           *)
(***************************************************************************)
TickSpec == Spec /\ WF_vars(Preempt) /\ WF_vars(Tick)

-----------------------------------------------------------------------------
Queued(class) == {p \in rq.on_rq : task[p].sched_class = class}

TypeOK ==
    /\ rq.curr \in Task \cup {IDLE}
    /\ rq.need_resched \in BOOLEAN
    /\ rq.on_rq \subseteq Task /\ rq.se_on_rq \subseteq Task
    /\ rq.ring \in Seq(Task)
    /\ rq.circ_curr \in Task \cup {NULL}
    /\ rq.queue \in [RtPrio -> Seq(Task)]
    /\ rq.bitmap \subseteq RtPrio
    /\ {rq.nr_running, rq.circ_nr, rq.rt_nr} \subseteq Nat
    /\ rq.rt_queued \in BOOLEAN
    /\ task \in [Task -> Attributes]
    /\ state \in [Task -> {"R", "S"}]
    /\ life \in [Task -> {"free", "new", "live"}]
    /\ pi \in [Task -> 0..MAX_PRIO]

(***************************************************************************)
(* The code of circular.c keeps to the contract of circlist.c: whatever    *)
(* sequence of switches, class changes, boosts and wakeups has led here,   *)
(* no node has been inserted twice and none searched for that is absent,   *)
(* and no pick has come back without a task.                               *)
(***************************************************************************)
NoListFault == rq.fault = "none"

(***************************************************************************)
(* A runnable task of the circular class is in exactly one place: it is    *)
(* the running task, named by circ_rq->curr and kept out of the ring, or   *)
(* it is in the ring, once.  Nothing else is in the ring, and the counter  *)
(* of the class counts both.                                               *)
(***************************************************************************)
RingExact ==
    /\ rq.circ_curr = IF class_of(task, rq.curr) = "circular" THEN rq.curr ELSE NULL
    /\ rq.se_on_rq = Queued("circular")
    /\ Elems(rq.ring) = Queued("circular") \ {rq.curr}
    /\ Cardinality(Elems(rq.ring)) = Len(rq.ring)
    /\ rq.circ_nr = Cardinality(Queued("circular"))

(***************************************************************************)
(* A runnable real-time task is on the list of its effective priority,     *)
(* once, running or not, although that priority may change while it is     *)
(* queued; the bitmap says which lists are not empty, and the counters     *)
(* agree with them.                                                        *)
(***************************************************************************)
RtQueuesExact ==
    /\ \A i \in RtPrio :
         /\ Elems(rq.queue[i]) = {p \in Queued("rt") : task[p].prio = i}
         /\ Cardinality(Elems(rq.queue[i])) = Len(rq.queue[i])
    /\ rq.bitmap = {task[p].prio : p \in Queued("rt")}
    /\ rq.rt_nr = Cardinality(Queued("rt"))
    /\ rq.rt_queued <=> rq.rt_nr # 0

(***************************************************************************)
(* No task is lost: one that does not mean to sleep is on the run queue,   *)
(* and so is the running task; nr_running, which the fast paths trust,     *)
(* counts them.                                                            *)
(***************************************************************************)
RunnableIsQueued ==
    /\ \A p \in Task : life[p] = "live" /\ state[p] = "R" => p \in rq.on_rq
    /\ rq.on_rq \subseteq {p \in Task : life[p] = "live"}
    /\ rq.curr \in rq.on_rq \cup {IDLE}
    /\ rq.nr_running = Cardinality(rq.on_rq)

\* p must run in preference to q.
Beats(p, q) ==
    \/ Rank(class_of(task, p)) < Rank(class_of(task, q))
    \/ /\ class_of(task, p) = "rt" /\ class_of(task, q) = "rt"
       /\ task[p].prio < task[q].prio

(***************************************************************************)
(* No preemption is missed: as soon as a queued task beats the running one *)
(* (a wakeup, a new task, a boost, the end of a boost, a change of policy  *)
(* of either) the running one is marked for rescheduling.                  *)
(***************************************************************************)
ReschedPending ==
    (\E p \in rq.on_rq : Beats(p, rq.curr)) => rq.need_resched

(***************************************************************************)
(* The class a task is in is the one of its effective priority, boosted or *)
(* not, and normal_prio is always up to date.  A child that has not run    *)
(* yet has no boost: fork() does not pass on the one of its parent, and no *)
(* change of its attributes brings one.                                    *)
(***************************************************************************)
ClassFollowsPrio ==
    \A p \in Task :
        life[p] # "free" =>
            /\ task[p].sched_class = class_for(task[p].prio)
            /\ task[p].normal_prio = normal_prio(task[p])
            /\ task[p].prio <= task[p].normal_prio
            /\ life[p] = "new" => task[p].prio = task[p].normal_prio

\* p waits longer than q.
Ahead(ring, p, q) ==
    \E i, j \in 1..Len(ring) : i < j /\ ring[i] = p /\ ring[j] = q

\* From one ring to the next no task is passed by another; those of M may have left it
\* and come back, behind the others.
KeepsOrder(ring, next, M) ==
    \A p \in (Elems(ring) \cap Elems(next)) \ M, q \in Elems(next) :
        (p # q /\ (q \in Elems(ring) \ M => Ahead(ring, p, q))) => Ahead(next, p, q)

InTurn ==
    /\ \/ KeepsOrder(rq.ring, rq'.ring, {})
       \/ \E p \in Task : task'[p] # task[p] /\ KeepsOrder(rq.ring, rq'.ring, {p})
    /\ (/\ rq'.curr # rq.curr
        /\ class_of(task', rq'.curr) = "circular"
        /\ rq.ring # <<>>)
       => rq'.curr = Head(rq.ring)

(***************************************************************************)
(* Round robin: of the tasks that stay in the ring, none passes another;   *)
(* a task newly in the ring is behind all of them, and so is one that was  *)
(* taken out to change its attributes; and the circular task that gets the *)
(* CPU is the one that has waited longest.                                 *)
(***************************************************************************)
OldestFirst == [][InTurn]_vars

(***************************************************************************)
(* If all tasks are cooperative, a task that waits in the ring gets the    *)
(* CPU.                                                                    *)
(***************************************************************************)
NoStarvation ==
    \A p \in Task : p \in Elems(rq.ring) ~> rq.curr = p

(***************************************************************************)
(* "To drive preemption between tasks, the scheduler sets the flag in      *)
(* timer interrupt handler scheduler_tick()" (core.c, above __schedule):   *)
(* a task that waits in the ring gets the CPU although the others never    *)
(* give it up by themselves.                                               *)
(***************************************************************************)
TickDrivesPreemption ==
    \A p \in Task : p \in Elems(rq.ring) ~> rq.curr = p

(***************************************************************************)
(* No priority inversion: whatever sched_setscheduler, set_user_nice and   *)
(* the adjustments of rt_mutexes do to a task, and in whatever order, it   *)
(* never runs at a worse priority than its top waiter, if that is a        *)
(* real-time task.  (A boost by another one does not outlive a call of     *)
(* set_user_nice or of sched_setscheduler.)                                *)
(***************************************************************************)
NoInversion ==
    \A p \in Task : life[p] = "live" /\ rt_prio(pi[p]) => task[p].prio <= pi[p]

=============================================================================
