----------------------------- MODULE RtPushPull -----------------------------
(***************************************************************************)
(* Balancing of real-time tasks by priority (rt.c, CONFIG_SMP): the lists  *)
(* of pushable tasks, the overload mask, and the push and pull of tasks at *)
(* wakeups, switches, and changes of priority, class and affinity, while   *)
(* CPUs go off line and come back (core.c).                                *)
(*                                                                         *)
(* A step is a section under rq->lock, up to the place where               *)
(* double_lock_balance() drops it; what others read without the lock in    *)
(* the middle of a section is as if they had read it before or after.      *)
(* cpupri is external: the priority that each CPU runs at.  Throttling is  *)
(* in RtBandwidth, migration_cpu_stop() and the order of the locks are in  *)
(* SmpSched.  Tasks of lower classes run when no real-time task can.       *)
(* A CPU is in the root domain of all, or in none: SchedDomains has more.  *)
(***************************************************************************)
EXTENDS Integers, Sequences, FiniteSets, FiniteSetsExt, Lists

CONSTANTS
    CPU,            \* the CPUs, numbered, on one node
    Pluggable,      \* those that may go off line: not the boot CPU
    Task,
    MAX_RT_PRIO,    \* real-time priorities are below it, low ones are better
    Caller,         \* those on which tasks are woken and system calls made
    Masks,          \* the affinity masks that tasks are given
    PREEMPT,        \* builds covered: is CONFIG_PREEMPT set?
    RT_MAX_TRIES,
    IDLE,           \* the idle task
    NONE

ASSUME PushPullAssumption ==
    /\ CPU \subseteq Nat /\ IsFiniteSet(CPU) /\ IsFiniteSet(Task)
    /\ MAX_RT_PRIO \in Nat \ {0} /\ RT_MAX_TRIES \in Nat \ {0}
    /\ Pluggable \subseteq CPU /\ Pluggable # CPU /\ Caller \subseteq CPU
    /\ Masks \subseteq SUBSET CPU /\ CPU \in Masks /\ PREEMPT \subseteq BOOLEAN
    /\ IDLE \notin Task /\ NONE \notin Task \cup CPU

VARIABLES
    rq,     \* struct rq and struct rt_rq of each CPU
    rd,     \* the root domain: rto_mask, rto_count and cpupri
    task,   \* the tasks: prio, affinity, cpu, and whether they are on a queue
    at,     \* what each CPU is in the middle of
    cpus,   \* cpu_online_mask and cpu_active_mask
    missed  \* history: waiting tasks that a change of priority, class,
            \* affinity or CPUs gave a CPU to go to, and that nobody moved

vars == <<rq, rd, task, at, cpus, missed>>

Prio == 0 .. MAX_RT_PRIO    \* MAX_RT_PRIO: not real-time
INVALID == -1               \* CPUPRI_INVALID: the CPU is not in use

\* A CPU in no operation.  In one, q is the queue it is about and held are the
\* run queues it has locked; p is the task whose pi_lock it holds; next is the
\* task to be pushed; peer the other CPU, or where the search of a pull goes on.
Outside == [pc |-> "out", caller |-> NONE, q |-> NONE, held |-> {}, p |-> NONE,
            next |-> NONE, peer |-> NONE, tries |-> 0, dropped |-> FALSE,
            ret |-> FALSE]

TypeOK ==
    /\ rq \in [CPU -> [curr : Task \cup {IDLE}, queue : Seq(Task),
                       pushable : Seq(Task), highest : Prio, next : Prio,
                       migratory : Nat, overloaded : BOOLEAN,
                       resched : BOOLEAN, post : BOOLEAN, online : BOOLEAN]]
    /\ rd \in [rto_mask : SUBSET CPU, rto_count : Nat, cpupri : [CPU -> Prio \cup {INVALID}]]
    /\ task \in [Task -> [prio : Prio, mask : Masks, cpu : CPU, on_rq : BOOLEAN]]
    /\ at \in [CPU -> [pc : {"out", "wake", "post", "push", "find", "pull",
                             "lock", "locked", "dying"},
                       caller : {NONE, "woken", "post", "to", "pick", "prio", "from"},
                       q : CPU \cup {NONE}, held : SUBSET CPU,
                       p : Task \cup {NONE}, next : Task \cup {NONE},
                       peer : CPU \cup {NONE}, tries : 0 .. RT_MAX_TRIES,
                       dropped : BOOLEAN, ret : BOOLEAN]]
    /\ cpus \in [online : SUBSET CPU, active : SUBSET CPU]
    /\ missed \subseteq Task

Init ==
    /\ rq = [c \in CPU |->
              [curr |-> IDLE, queue |-> <<>>, pushable |-> <<>>,
               highest |-> MAX_RT_PRIO, next |-> MAX_RT_PRIO, migratory |-> 0,
               overloaded |-> FALSE, resched |-> FALSE, post |-> FALSE,
               online |-> TRUE]]
    /\ rd = [rto_mask |-> {}, rto_count |-> 0,
             cpupri |-> [c \in CPU |-> MAX_RT_PRIO]]
    /\ \E c \in CPU :
        task = [p \in Task |-> [prio |-> MAX_RT_PRIO, mask |-> CPU, cpu |-> c,
                                on_rq |-> FALSE]]
    /\ at = [c \in CPU |-> Outside]
    /\ cpus = [online |-> CPU, active |-> CPU]
    /\ missed = {}

(***************************************************************************)
(* The queues.  Operators take and return s, the state of the scheduler.   *)
(***************************************************************************)
S == [rq |-> rq, rd |-> rd, task |-> task]

PrioOf(s, p) == IF p = IDLE THEN MAX_RT_PRIO + 1 ELSE s.task[p].prio
rt_task(s, p) == PrioOf(s, p) < MAX_RT_PRIO
migratory(s, p) == Cardinality(s.task[p].mask) > 1
BestPrio(s, l) == IF l = <<>> THEN MAX_RT_PRIO
                  ELSE Min({s.task[p].prio : p \in Elems(l)})

\* Is p waiting for a CPU among the real-time tasks?
Waiting(s, p) == /\ rt_task(s, p) /\ s.task[p].on_rq
                 /\ s.rq[s.task[p].cpu].curr # p

\* The waiting tasks that a push would move.
unbalanced(s) ==
    {p \in Task : /\ Waiting(s, p) /\ s.rq[s.task[p].cpu].online
                   /\ \E c \in s.task[p].mask :
                        s.rq[c].online /\ s.rq[c].highest > s.task[p].prio}

resched_curr(s, c) == [s EXCEPT !.rq[c].resched = TRUE]

\* A list in the order of priorities, first come first served: p goes before
\* the first that is worse.
plist_add(s, l, p) ==
    LET worse == {i \in 1 .. Len(l) : s.task[l[i]].prio > s.task[p].prio}
    IN  Insert(l, Min(worse \cup {Len(l) + 1}), p)

enqueue_pushable_task(s, c, p) ==
    [s EXCEPT !.rq[c].pushable = plist_add(s, Delete(@, p), p),
              !.rq[c].next = Min({@, s.task[p].prio})]

\* Mutant of dequeue_pushable_task(): highest_prio.next stays what it was.
KeepsNext(s, c, p) == [s EXCEPT !.rq[c].pushable = Delete(@, p)]

dequeue_pushable_task(s, c, p) ==
    LET l == Delete(s.rq[c].pushable, p) IN
    [s EXCEPT !.rq[c].pushable = l,
              !.rq[c].next = IF l = <<>> THEN MAX_RT_PRIO ELSE s.task[l[1]].prio]

\* The CPU enters or leaves the overload mask, if it is in use.
rt_set_overload(s, c) ==
    IF s.rq[c].online
    THEN [s EXCEPT !.rd.rto_mask = @ \cup {c}, !.rd.rto_count = @ + 1] ELSE s

rt_clear_overload(s, c) ==
    IF s.rq[c].online
    THEN [s EXCEPT !.rd.rto_mask = @ \ {c}, !.rd.rto_count = @ - 1] ELSE s

update_rt_migration(s, c) ==
    LET over == s.rq[c].migratory # 0 /\ Len(s.rq[c].queue) > 1
        told == IF over THEN rt_set_overload(s, c) ELSE rt_clear_overload(s, c)
    IN  IF over = s.rq[c].overloaded THEN s
        ELSE [told EXCEPT !.rq[c].overloaded = over]

\* p is counted on c, or no more.
count_migratory(s, c, p, n) ==
    update_rt_migration(
        [s EXCEPT !.rq[c].migratory = IF migratory(s, p) THEN @ + n ELSE @], c)

\* cpupri hears of a change of highest_prio.
new_highest(s, c, prio) ==
    [s EXCEPT !.rq[c].highest = prio,
              !.rd.cpupri[c] = IF s.rq[c].online /\ prio # s.rq[c].highest THEN prio ELSE @]

inc_rt_prio(s, c, p) == new_highest(s, c, Min({s.rq[c].highest, s.task[p].prio}))

dec_rt_prio(s, c, p) ==
    LET old == s.rq[c].highest
        new == IF s.rq[c].queue = <<>> THEN MAX_RT_PRIO
               ELSE IF s.task[p].prio = old THEN BestPrio(s, s.rq[c].queue)
               ELSE old
    IN  new_highest(s, c, new)

enqueue_task_rt(s, c, p, head) ==
    LET listed == [s EXCEPT !.rq[c].queue = IF head THEN <<p>> \o @ ELSE Append(@, p),
                            !.task[p].on_rq = TRUE]
        counted == count_migratory(inc_rt_prio(listed, c, p), c, p, 1)
    IN  IF s.rq[c].curr # p /\ migratory(s, p)
        THEN enqueue_pushable_task(counted, c, p) ELSE counted

dequeue_task_rt(s, c, p) ==
    LET unlisted == [s EXCEPT !.rq[c].queue = Delete(@, p), !.task[p].on_rq = FALSE]
    IN  dequeue_pushable_task(
            count_migratory(dec_rt_prio(unlisted, c, p), c, p, -1), c, p)

\* activate_task() and deactivate_task(), for lower classes too.
activate_task(s, c, p) ==
    LET here == [s EXCEPT !.task[p].cpu = c] IN
    IF rt_task(s, p) THEN enqueue_task_rt(here, c, p, FALSE)
    ELSE [here EXCEPT !.task[p].on_rq = TRUE]

deactivate_task(s, c, p) ==
    IF rt_task(s, p) THEN dequeue_task_rt(s, c, p)
    ELSE [s EXCEPT !.task[p].on_rq = FALSE]

(***************************************************************************)
(* The choice of a CPU, and preemption                                     *)
(***************************************************************************)

\* The CPUs that p may use and that run at the lowest priority below its own,
\* in the root domain of its CPU.
cpupri_find(s, p) ==
    LET below == {c \in s.task[p].mask : s.rd.cpupri[c] > s.task[p].prio}
    IN  {c \in below : /\ s.rq[s.task[p].cpu].online
                        /\ \A d \in below : s.rd.cpupri[d] <= s.rd.cpupri[c]}

\* The CPUs it may choose: the last one of the task, or by topology.
find_lowest_rq(s, p) ==
    LET lowest == cpupri_find(s, p) IN
    IF ~ migratory(s, p) THEN {}
    ELSE IF s.task[p].cpu \in lowest THEN {s.task[p].cpu} ELSE lowest

\* Would the tasks of CPU c rather keep it than leave it to p?
holds_its_cpu(s, c, p) ==
    LET curr == s.rq[c].curr IN
    /\ rt_task(s, curr)
    /\ ~ migratory(s, curr) \/ s.task[curr].prio <= s.task[p].prio

select_task_rq_rt(s, p) ==
    LET cpu == s.task[p].cpu IN
    IF /\ rt_task(s, p) /\ migratory(s, p) /\ holds_its_cpu(s, cpu, p)
       /\ find_lowest_rq(s, p) # {}
    THEN find_lowest_rq(s, p) ELSE {cpu}

\* select_fallback_rq(): the first allowed CPU that is active; if there is none,
\* p may use all CPUs.
fallback_mask(s, p) ==
    IF s.task[p].mask \cap cpus.active = {} THEN CPU ELSE s.task[p].mask
fallback_cpu(s, p) == Min(fallback_mask(s, p) \cap cpus.active)

check_preempt_equal_prio(s, c, p) ==
    LET curr == s.rq[c].curr IN
    IF \/ ~ migratory(s, curr)
       \/ migratory(s, p) /\ cpupri_find(s, p) # {}
       \/ cpupri_find(s, curr) = {}
    THEN s
    ELSE resched_curr([s EXCEPT !.rq[c].queue = <<p>> \o Delete(@, p)], c)

check_preempt_curr(s, c, p) ==
    LET curr == s.rq[c].curr IN
    CASE rt_task(s, p) /\ PrioOf(s, p) < PrioOf(s, curr) -> resched_curr(s, c)
      [] rt_task(s, p) /\ PrioOf(s, p) = PrioOf(s, curr) /\ ~ s.rq[c].resched ->
            check_preempt_equal_prio(s, c, p)
      [] ~ rt_task(s, p) /\ curr = IDLE -> resched_curr(s, c)
      [] OTHER -> s

(***************************************************************************)
(* Steps                                                                   *)
(***************************************************************************)
Free(c) == \A d \in CPU : c \notin at[d].held
PiFree(p) == \A d \in CPU : at[d].p # p

\* The state becomes s; those in better are waiting tasks with more to hope
\* for that nobody pushed.
Becomes(s, better) ==
    /\ rq' = s.rq /\ rd' = s.rd /\ task' = s.task
    /\ missed' = {p \in missed \cup better :
                    Waiting(s, p) /\ s.task[p].cpu = task[p].cpu}

Goto(c, frame) == at' = [at EXCEPT ![c] = frame]

\* One push of the queue q, or as many as it takes; a pull to the queue q.
Push(q, caller, p) == [Outside EXCEPT !.pc = "push", !.q = q, !.held = {q},
                                      !.caller = caller, !.p = p]
Pull(q, caller, p) == [Outside EXCEPT !.pc = "pull", !.q = q, !.held = {q},
                                      !.caller = caller, !.p = p]

rt_overloaded(s, c) == s.rq[c].online /\ s.rd.rto_count # 0

(***************************************************************************)
(* try_to_wake_up()                                                        *)
(***************************************************************************)
WakeSelect(c, p) ==
    /\ at[c] = Outside /\ c \in Caller \cap cpus.online /\ ~ task[p].on_rq /\ PiFree(p)
    /\ \A d \in CPU : rq[d].curr # p
    /\ \E d \in select_task_rq_rt(S, p) :
        LET good == d \in task[p].mask \cap cpus.online
            cpu == IF good THEN d ELSE fallback_cpu(S, p)
        IN  /\ Goto(c, [Outside EXCEPT !.pc = "wake", !.p = p, !.q = cpu])
            /\ task' = [task EXCEPT ![p].mask = IF good THEN @ ELSE fallback_mask(S, p)]
    /\ UNCHANGED <<rq, rd, missed>>

\* If we are not running and we are not going to reschedule soon.
task_woken_rt(s, q, p) ==
    /\ rt_task(s, p) /\ s.rq[q].curr # p /\ ~ s.rq[q].resched
    /\ s.rq[q].pushable # <<>> /\ migratory(s, p) /\ holds_its_cpu(s, q, p)

WakeActivate(c) ==
    LET q == at[c].q
        p == at[c].p
        s == check_preempt_curr(activate_task(S, q, p), q, p)
    IN
    /\ at[c].pc = "wake" /\ Free(q)
    /\ Becomes(s, {})
    /\ Goto(c, IF task_woken_rt(s, q, p) THEN Push(q, "woken", p) ELSE Outside)

(***************************************************************************)
(* __schedule()                                                            *)
(***************************************************************************)
put_prev_task(s, c) ==
    LET prev == s.rq[c].curr IN
    IF rt_task(s, prev) /\ s.task[prev].on_rq /\ migratory(s, prev)
    THEN enqueue_pushable_task(s, c, prev) ELSE s

\* The first of the list that the bitmap names.
best_queued(s, c) ==
    LET l == s.rq[c].queue
    IN  l[Min({i \in 1 .. Len(l) : s.task[l[i]].prio = s.rq[c].highest})]

\* The first task of the best priority, or one of a lower class.
pick_next_task_rt(s, c) ==
    LET put == put_prev_task(s, c)
        next == best_queued(s, c)
        taken == dequeue_pushable_task(put, c, next)
    IN  [taken EXCEPT !.rq[c].curr = next, !.rq[c].post = taken.rq[c].pushable # <<>>]

others(s, c) == {p \in Task : s.task[p].on_rq /\ s.task[p].cpu = c /\ ~ rt_task(s, p)}

picked(s, c) ==
    IF s.rq[c].queue # <<>> THEN {pick_next_task_rt(s, c)}
    ELSE {[s EXCEPT !.rq[c].curr = p] :
            p \in IF others(s, c) = {} THEN {IDLE} ELSE others(s, c)}

\* The switch, and what is left to do after it.
SwitchTo(c, s) ==
    \E next \in picked(s, c) :
        /\ Becomes([next EXCEPT !.rq[c].resched = FALSE], {})
        /\ Goto(c, IF next.rq[c].post THEN [Outside EXCEPT !.pc = "post"] ELSE Outside)

\* Mutant of need_pull_rt_task(): low numbers are taken for low priorities.
PullsIfBetter(s, c) == s.rq[c].highest < PrioOf(s, s.rq[c].curr)

need_pull_rt_task(s, c) == s.rq[c].highest > PrioOf(s, s.rq[c].curr)

\* CPU c gives up its task, in state s already if it sleeps.
ScheduleIn(c, s) ==
    IF need_pull_rt_task(s, c) /\ rt_overloaded(s, c)
    THEN Becomes(s, {}) /\ Goto(c, Pull(c, "pick", NONE))
    ELSE SwitchTo(c, s)

Preempt(c) ==
    /\ at[c] = Outside /\ Free(c) /\ rq[c].resched
    /\ ScheduleIn(c, S)

Sleep(c) ==
    /\ at[c] = Outside /\ Free(c) /\ rq[c].curr # IDLE
    /\ ScheduleIn(c, deactivate_task(S, c, rq[c].curr))

PostSchedule(c) ==
    /\ at[c].pc = "post" /\ Free(c)
    /\ \/ /\ rt_task(S, rq[c].curr)
          /\ Goto(c, Push(c, "post", NONE))
          /\ UNCHANGED <<rq, rd, task, missed>>
       \/ /\ ~ rt_task(S, rq[c].curr)
          /\ Goto(c, Outside)
          /\ Becomes([S EXCEPT !.rq[c].post = FALSE], {})

(***************************************************************************)
(* push_rt_task()                                                          *)
(***************************************************************************)

\* Back to the caller with ret: once more, or out.
PushReturn(c, s, ret) ==
    LET f == at[c]
        stays == ~ (ret /\ s.task[f.p].cpu # f.q)
        preempts == stays /\ s.task[f.p].prio < PrioOf(s, s.rq[f.q].curr)
    IN
    CASE f.caller = "to" ->
            /\ Goto(c, Outside)
            /\ Becomes(IF preempts THEN resched_curr(s, f.q) ELSE s, {})
      [] f.caller # "to" /\ ret ->
            /\ Goto(c, Push(f.q, f.caller, f.p))
            /\ Becomes(s, {})
      [] f.caller = "woken" /\ ~ ret ->
            /\ Goto(c, Outside)
            /\ Becomes(s, {})
      [] f.caller = "post" /\ ~ ret ->
            /\ Goto(c, Outside)
            /\ Becomes([s EXCEPT !.rq[f.q].post = FALSE], {})

\* Which task?  On a retry it is chosen already.
PushTask(c) ==
    LET q == at[c].q
        again == at[c].next # NONE
        next == IF again THEN at[c].next ELSE rq[q].pushable[1]
    IN
    /\ at[c].pc = "push"
    /\ \/ /\ ~ again /\ (~ rq[q].overloaded \/ rq[q].pushable = <<>>)
          /\ PushReturn(c, S, FALSE)
       \/ /\ again \/ (rq[q].overloaded /\ rq[q].pushable # <<>>)
          /\ IF task[next].prio < PrioOf(S, rq[q].curr)
             THEN PushReturn(c, resched_curr(S, q), FALSE)
             ELSE /\ Goto(c, [at[c] EXCEPT !.pc = "find", !.next = next, !.tries = 0])
                  /\ UNCHANGED <<rq, rd, task, missed>>

\* There is no CPU for next: out, or has something shifted?
NotFound(c) ==
    LET q == at[c].q
        next == at[c].next
        first == rq[q].pushable[1]
    IN
    IF rq[q].pushable = <<>> \/ (task[next].cpu = q /\ first = next)
    THEN PushReturn(c, S, FALSE)
    ELSE /\ Goto(c, [at[c] EXCEPT !.pc = "push", !.next = first, !.held = {q}])
         /\ UNCHANGED <<rq, rd, task, missed>>

\* double_lock_balance(): both locks at once, or wait for the other one, with
\* or without the lock of q.
DoubleLock(c, d) ==
    LET q == at[c].q
        wait == [at[c] EXCEPT !.peer = d, !.pc = "lock"]
    IN
    /\ \/ FALSE \in PREEMPT /\ Free(d)
          /\ Goto(c, [wait EXCEPT !.pc = "locked", !.held = {q, d}, !.dropped = FALSE])
       \/ FALSE \in PREEMPT /\ ~ Free(d) /\ q < d
          /\ Goto(c, [wait EXCEPT !.dropped = FALSE])
       \/ (TRUE \in PREEMPT \/ (~ Free(d) /\ d < q))
          /\ Goto(c, [wait EXCEPT !.held = {}, !.dropped = TRUE])
    /\ UNCHANGED <<rq, rd, task, missed>>

Locked(c) ==
    LET both == {at[c].q, at[c].peer} IN
    /\ at[c].pc = "lock"
    /\ \A d \in both \ at[c].held : Free(d)
    /\ Goto(c, [at[c] EXCEPT !.pc = "locked", !.held = both])
    /\ UNCHANGED <<rq, rd, task, missed>>

\* find_lock_lowest_rq(): the next try.
FindLowest(c) ==
    LET lowest == find_lowest_rq(S, at[c].next) IN
    /\ at[c].pc = "find"
    /\ IF at[c].tries = RT_MAX_TRIES \/ lowest \subseteq {at[c].q}
       THEN NotFound(c)
       ELSE \E d \in lowest : DoubleLock(c, d)

\* Mutant of find_lock_lowest_rq(): the affinity is not looked at again.
ForgetsMask(s, q, d, next) ==
    /\ s.task[next].cpu = q /\ s.rq[q].curr # next /\ s.task[next].on_rq

\* The lock was dropped: is next still there, waiting, and may it go to d?
still_pushable(s, q, d, next) ==
    /\ s.task[next].cpu = q /\ d \in s.task[next].mask
    /\ s.rq[q].curr # next /\ s.task[next].on_rq

move_task(s, p, from, to) == activate_task(deactivate_task(s, from, p), to, p)

PushLocked(c) ==
    LET q == at[c].q
        d == at[c].peer
        next == at[c].next
        s == resched_curr(move_task(S, next, q, d), d)
    IN
    /\ at[c].pc = "locked" /\ at[c].caller \in {"woken", "post", "to"}
    /\ \/ /\ at[c].dropped /\ ~ still_pushable(S, q, d, next)
          /\ NotFound(c)
       \/ /\ at[c].dropped => still_pushable(S, q, d, next)
          /\ \/ rq[d].highest > task[next].prio /\ PushReturn(c, s, TRUE)
             \/ /\ rq[d].highest <= task[next].prio
                /\ Goto(c, [at[c] EXCEPT !.pc = "find", !.tries = @ + 1,
                                         !.held = {q}, !.peer = NONE, !.dropped = FALSE])
                /\ UNCHANGED <<rq, rd, task, missed>>

(***************************************************************************)
(* pull_rt_task()                                                          *)
(***************************************************************************)

\* The CPUs of the mask that the loop has still to look at.
to_visit(c) ==
    {d \in rd.rto_mask \ {at[c].q} :
        rq[at[c].q].online /\ (at[c].peer = NONE \/ d > at[c].peer)}

PullReturn(c) ==
    LET f == at[c] IN
    /\ \/ f.caller = "pick" /\ SwitchTo(c, S)
       \/ /\ f.caller = "prio"
          /\ Becomes(IF task[f.p].prio > rq[f.q].highest /\ rq[f.q].curr = f.p
                     THEN resched_curr(S, f.q) ELSE S,
                     IF rq[f.q].curr # f.p THEN Elems(rq[f.q].queue) ELSE {})
          /\ Goto(c, Outside)
       \/ /\ f.caller = "from"
          /\ Becomes(IF f.ret \/ rq[f.q].curr = f.p THEN resched_curr(S, f.q) ELSE S, {})
          /\ Goto(c, Outside)

\* The next CPU: known to have nothing better, or worth its lock.
PullNext(c) ==
    LET d == Min(to_visit(c)) IN
    /\ at[c].pc = "pull"
    /\ \/ to_visit(c) = {} /\ PullReturn(c)
       \/ /\ to_visit(c) # {} /\ rq[d].next >= rq[at[c].q].highest
          /\ Goto(c, [at[c] EXCEPT !.peer = d])
          /\ UNCHANGED <<rq, rd, task, missed>>
       \/ /\ to_visit(c) # {} /\ rq[d].next < rq[at[c].q].highest
          /\ DoubleLock(c, d)

\* The pushable tasks of d that may run on CPU q, by their positions.
pushable_to(s, d, q) ==
    LET l == s.rq[d].pushable
    IN  {i \in 1 .. Len(l) : s.rq[d].curr # l[i] /\ q \in s.task[l[i]].mask}

\* The best of them.
pick_highest_pushable_task(s, d, q) == s.rq[d].pushable[Min(pushable_to(s, d, q))]

PullLocked(c) ==
    LET q == at[c].q
        d == at[c].peer
        p == pick_highest_pushable_task(S, d, q)
        moves == /\ pushable_to(S, d, q) # {} /\ task[p].prio < rq[q].highest
                 /\ ~ task[p].prio < PrioOf(S, rq[d].curr)
    IN
    /\ at[c].pc = "locked" /\ at[c].caller \in {"pick", "prio", "from"}
    /\ Becomes(IF moves THEN move_task(S, p, d, q) ELSE S, {})
    /\ Goto(c, [at[c] EXCEPT !.pc = "pull", !.held = {q}, !.ret = @ \/ moves,
                             !.dropped = FALSE])

(***************************************************************************)
(* sched_setscheduler() and set_cpus_allowed_ptr()                         *)
(***************************************************************************)

\* The queue after p has been given prio: at the head if it did not rise.
change_prio(s, p, prio) ==
    LET c == s.task[p].cpu
        out == [deactivate_task(s, c, p) EXCEPT !.task[p].prio = prio]
    IN  IF prio < MAX_RT_PRIO
        THEN enqueue_task_rt(out, c, p, s.task[p].prio <= prio)
        ELSE activate_task(out, c, p)

\* switched_from_rt() and the switched_to() of a lower class, switched_to_rt(),
\* and prio_changed_rt(), up to a push or pull.
CheckClassChanged(c, s, p) ==
    LET q == task[p].cpu
        running == s.rq[q].curr = p
        better == s.task[p].prio < PrioOf(s, s.rq[q].curr)
        preempted == s.task[p].prio > s.rq[q].highest
        told(cond) == IF cond THEN resched_curr(s, q) ELSE s
    IN
    CASE rt_task(S, p) /\ ~ rt_task(s, p) ->
            IF s.rq[q].queue = <<>> /\ rt_overloaded(s, q)
            THEN Becomes(s, {}) /\ Goto(c, Pull(q, "from", p))
            ELSE Becomes(told(running), unbalanced(s)) /\ UNCHANGED at
      [] ~ rt_task(S, p) /\ rt_task(s, p) ->
            IF ~ running /\ migratory(s, p) /\ s.rq[q].overloaded
            THEN Becomes(s, {}) /\ Goto(c, Push(q, "to", p))
            ELSE Becomes(told(~ running /\ better), {}) /\ UNCHANGED at
      [] OTHER ->
            IF running /\ s.task[p].prio > task[p].prio /\ rt_overloaded(s, q)
            THEN Becomes(s, {}) /\ Goto(c, Pull(q, "prio", p))
            ELSE /\ Becomes(told(IF running THEN preempted ELSE better),
                            IF running THEN {} ELSE unbalanced(s))
                 /\ UNCHANGED at

SetScheduler(c, p, prio) ==
    /\ at[c] = Outside /\ c \in Caller \cap cpus.online
    /\ PiFree(p) /\ Free(task[p].cpu) /\ task[p].prio # prio
    /\ \/ /\ ~ task[p].on_rq
          /\ Becomes([S EXCEPT !.task[p].prio = prio], {}) /\ UNCHANGED at
       \/ /\ task[p].on_rq
          /\ CheckClassChanged(c, change_prio(S, p, prio), p)

set_cpus_allowed_rt(s, p, mask) ==
    LET c == s.task[p].cpu
        many == Cardinality(mask) > 1
        listed == CASE s.rq[c].curr = p -> s
                    [] s.rq[c].curr # p /\ many -> enqueue_pushable_task(s, c, p)
                    [] s.rq[c].curr # p /\ ~ many -> dequeue_pushable_task(s, c, p)
    IN  IF ~ rt_task(s, p) \/ ~ s.task[p].on_rq \/ many = migratory(s, p) THEN s
        ELSE update_rt_migration(
                [listed EXCEPT !.rq[c].migratory = IF many THEN @ + 1 ELSE @ - 1], c)

\* If the task is on a CPU the mask holds it: migration is in SmpSched.
SetCpusAllowed(c, p, mask) ==
    /\ at[c] = Outside /\ c \in Caller \cap cpus.online /\ PiFree(p) /\ Free(task[p].cpu)
    /\ mask # task[p].mask /\ mask \cap cpus.active # {}
    /\ task[p].cpu \in mask \/ ~ (task[p].on_rq \/ rq[task[p].cpu].curr = p)
    /\ LET s == [set_cpus_allowed_rt(S, p, mask) EXCEPT !.task[p].mask = mask]
       IN  Becomes(s, unbalanced(s))
    /\ UNCHANGED at

(***************************************************************************)
(* CPU hotplug                                                             *)
(***************************************************************************)

\* CPU_DOWN_PREPARE: the CPU is not active any more;
DownPrepare(c) ==
    /\ c \in Pluggable \cap cpus.active /\ rq[c].online
    /\ cpus' = [cpus EXCEPT !.active = @ \ {c}]
    /\ UNCHANGED <<rq, rd, task, at, missed>>

\* then it leaves the root domain: set_rq_offline().
RqOffline(c) ==
    LET s == IF rq[c].overloaded THEN rt_clear_overload(S, c) ELSE S IN
    /\ c \notin cpus.active /\ rq[c].online /\ Free(c)
    /\ Becomes([s EXCEPT !.rd.cpupri[c] = INVALID, !.rq[c].online = FALSE], {})
    /\ UNCHANGED <<at, cpus>>

\* CPU_DOWN_FAILED, and the start of a CPU that was off line.
MakeActive(c) ==
    /\ c \notin cpus.active
    /\ cpus' = [online |-> cpus.online \cup {c}, active |-> cpus.active \cup {c}]
    /\ UNCHANGED <<rq, rd, task, at, missed>>

\* It joins the root domain: set_rq_online().
RqOnline(c) ==
    LET on == [S EXCEPT !.rq[c].online = TRUE, !.rd.cpupri[c] = rq[c].highest]
        s == IF rq[c].overloaded THEN rt_set_overload(on, c) ELSE on
    IN
    /\ c \in cpus.active /\ ~ rq[c].online /\ Free(c)
    /\ Becomes(s, unbalanced(s))
    /\ UNCHANGED <<at, cpus>>

\* __migrate_task() of a task on c, to where it may run, or to any CPU.
migrate_away(s, c, p) ==
    LET dest == fallback_cpu(s, p)
        free == [set_cpus_allowed_rt(s, p, fallback_mask(s, p))
                    EXCEPT !.task[p].mask = fallback_mask(s, p)]
    IN  check_preempt_curr(move_task(free, p, c, dest), dest, p)

\* CPU_DYING, in stop_machine(): no other CPU is doing anything, and on this
\* one the stopper thread has taken the place of the task that was running.
Dying(c) ==
    /\ c \in cpus.online \ cpus.active /\ ~ rq[c].online
    /\ \A d \in CPU : at[d] = Outside
    /\ Becomes([put_prev_task(S, c) EXCEPT !.rq[c].curr = IDLE, !.rq[c].resched = FALSE], {})
    /\ Goto(c, [Outside EXCEPT !.pc = "dying"])
    /\ UNCHANGED cpus

\* migrate_tasks(): the next task is picked, put back, and moved,
MigrateTask(c) ==
    /\ at[c].pc = "dying"
    /\ \E s \in picked(S, c) :
        LET p == s.rq[c].curr
            put == [put_prev_task(s, c) EXCEPT !.rq[c].curr = IDLE]
        IN  p # IDLE /\ Becomes(migrate_away(put, c, p), {})
    /\ UNCHANGED <<at, cpus>>

\* until there is none left.
Dead(c) ==
    /\ at[c].pc = "dying" /\ rq[c].queue = <<>> /\ others(S, c) = {}
    /\ cpus' = [cpus EXCEPT !.online = @ \ {c}]
    /\ Becomes(S, unbalanced(S))
    /\ Goto(c, Outside)

(***************************************************************************)
(* The specification                                                       *)
(***************************************************************************)
Operate ==
    \E c \in CPU :
        \/ \E p \in Task : WakeSelect(c, p)
        \/ WakeActivate(c)
        \/ Preempt(c) \/ Sleep(c) \/ PostSchedule(c)
        \/ PushTask(c) \/ FindLowest(c) \/ Locked(c) \/ PushLocked(c)
        \/ PullNext(c) \/ PullLocked(c)
        \/ \E p \in Task, prio \in Prio : SetScheduler(c, p, prio)
        \/ \E p \in Task, mask \in Masks : SetCpusAllowed(c, p, mask)

Hotplug ==
    \E c \in CPU : \/ DownPrepare(c) \/ RqOffline(c) \/ Dying(c)
                  \/ MakeActive(c) \/ RqOnline(c)

Stopped == \E c \in CPU : at[c].pc = "dying"

Next ==
    \/ ~ Stopped /\ ((Operate /\ UNCHANGED cpus) \/ Hotplug)
    \/ \E c \in CPU : MigrateTask(c) \/ Dead(c)

Spec == Init /\ [][Next]_vars

(***************************************************************************)
(* Properties                                                              *)
(***************************************************************************)

\* What the balancing decides by, always agrees with what is on the queue: when
\* nobody has the lock of a run queue, its pushable tasks are the tasks on it
\* that may run elsewhere and do not run here, highest_prio.curr, .next and
\* cpupri are the priorities they are taken for, rt_nr_migratory is their number,
\* and the CPU is in rto_mask if there is something to pull from it.
BooksExact ==
    \A c \in CPU : Free(c) =>
        LET r == rq[c]
            here == {p \in Task : rt_task(S, p) /\ task[p].on_rq /\ task[p].cpu = c}
            mig == {p \in here : migratory(S, p)}
        IN  /\ Elems(r.queue) = here /\ Len(r.queue) = Cardinality(here)
            /\ Elems(r.pushable) = mig \ {r.curr}
            /\ r.highest = BestPrio(S, r.queue)
            /\ rd.cpupri[c] = IF r.online THEN r.highest ELSE INVALID
            /\ r.next = BestPrio(S, r.pushable)
            /\ r.migratory = Cardinality(mig)
            /\ r.overloaded <=> mig # {} /\ Cardinality(here) > 1
            /\ c \in rd.rto_mask <=> r.overloaded /\ r.online

\* However the locks were dropped between the choice of a CPU and the move, a
\* task is only ever put where it may run at that time.
Allowed ==
    \A p \in Task : task[p].on_rq => task[p].cpu \in task[p].mask \cap cpus.online

Quiet == \A c \in CPU : at[c] = Outside /\ ~ rq[c].resched

\* The point of push and pull: when every operation has come to its end, no
\* real-time task waits while a CPU it may use runs something worse.  Left out
\* are the waiting tasks in missed, for which the code does not balance, and
\* those that would have to wait behind one of them.
BestRun ==
    Quiet => \A p \in Task \ missed : Waiting(S, p) /\ rq[task[p].cpu].online =>
        \A c \in task[p].mask :
            rq[c].online =>
                \/ PrioOf(S, rq[c].curr) <= task[p].prio
                \/ \E m \in missed : task[m].cpu = c /\ task[m].prio <= task[p].prio
=============================================================================
