------------------------------ MODULE SmpSched ------------------------------
(***************************************************************************)
(* The core of the scheduler on several CPUs (core.c, sched.h and the      *)
(* hooks of rt.c with CONFIG_SMP): going to sleep in __schedule() against  *)
(* try_to_wake_up() on another CPU, the lists of remote wakeups and their  *)
(* interrupts, affinity changes with the migration thread, and the pushing *)
(* and pulling of tasks, which drop and retake rq->lock half-way.          *)
(*                                                                         *)
(* Every CPU is a process; a step is what it does between two accesses to  *)
(* memory that another CPU may see without holding the same lock.  Memory  *)
(* is sequentially consistent: the barriers of the code are assumed to do  *)
(* what their comments say.  Which task a class prefers is left open: a    *)
(* queue is a set, any queued task may be picked, and any task but the     *)
(* idle one may or may not be preempted by a wakeup.                       *)
(***************************************************************************)
EXTENDS Integers, FiniteSets

CONSTANTS
    CPU,        \* the CPUs, ordered as the addresses of their run queues
    Task,       \* the tasks other than the idle and the stopper threads
    Worker,     \* those with PF_WQ_WORKER, bound to the first CPU
    Masks,      \* the arguments of set_cpus_allowed_ptr
    LLC,        \* sd_llc_id of a CPU
    TTWU_QUEUE, \* the settings of that scheduler feature, a debugfs switch
    IrqCPU,     \* the CPUs that get device interrupts
    BALANCE,    \* do the classes push and pull (rt.c does)?
    PREEMPT,    \* the builds: values of CONFIG_PREEMPT
    IDLE,       \* rq->idle of every CPU
    STOP,       \* rq->stop of every CPU
    NONE        \* no task, no CPU, lock not held

ASSUME SmpAssumption ==
    /\ CPU \subseteq Nat /\ CPU # {} /\ IsFiniteSet(CPU)
    /\ Worker \subseteq Task
    /\ Masks \subseteq (SUBSET CPU) \ {{}}
    /\ LLC \in [CPU -> Nat] /\ TTWU_QUEUE \subseteq BOOLEAN
    /\ IrqCPU \subseteq CPU
    /\ BALANCE \in BOOLEAN /\ PREEMPT \subseteq BOOLEAN
    /\ {IDLE, STOP, NONE} \cap (Task \cup CPU) = {}
    /\ IDLE # STOP /\ IDLE # NONE /\ STOP # NONE

VARIABLES
    task,       \* struct task_struct
    rq,         \* struct rq
    at          \* what each CPU is executing

vars == <<task, rq, at>>

RUNNING == "RUNNING"
SLEEP == "SLEEP"        \* TASK_INTERRUPTIBLE or TASK_UNINTERRUPTIBLE
WAKING == "WAKING"

\* A CPU that executes its current task with interrupts on.
Run == [pc |-> "run", w |-> NONE, r |-> NONE, o |-> NONE, t |-> NONE,
        prev |-> NONE, dst |-> NONE, wl |-> {}, scan |-> {}, k |-> "none", ret |-> "run"]

Pcs == {"run", "ttwu", "ttwu_on_rq", "remote_lock", "remote_spin",
        "ttwu_on_cpu", "ttwu_queue", "ttwu_list", "ttwu_kick", "idle_pending",
        "pending", "activate", "push", "bal_try", "bal_low",
        "bal_high", "both", "lock", "local", "local_pi", "local_rq", "pick",
        "switch", "unlock", "post", "sca_pi", "sca_rq", "sca_stop",
        "move_dst", "mig_pi", "mig_rq"}

\* What the variables hold.
TypeOK ==
    /\ task \in [Task -> [state : {RUNNING, SLEEP, WAKING},
                          on_rq : {"no", "queued", "migrating"},
                          cpu : CPU, on_cpu : BOOLEAN,
                          pi_lock : CPU \cup {NONE},
                          allowed : (SUBSET CPU) \ {{}},
                          cond : BOOLEAN, step : {"work", "test"},
                          preempt_active : BOOLEAN]]
    /\ rq \in [CPU -> [lock : CPU \cup {NONE}, queue : SUBSET Task,
                       curr : Task \cup {IDLE, STOP}, resched : BOOLEAN,
                       idle : {"off", "polling", "halted"},
                       wake_list : SUBSET Task, ipi : BOOLEAN,
                       stop : SUBSET (Task \X CPU \X Task)]]
    /\ at \in [CPU -> [pc : Pcs, w : Task \cup {NONE}, r : CPU \cup {NONE},
                       o : CPU \cup {NONE}, t : Task \cup {NONE},
                       prev : Task \cup {IDLE, STOP, NONE},
                       dst : CPU \cup {NONE}, wl : SUBSET Task, scan : SUBSET CPU,
                       k : {"none", "ttwu", "pend", "post", "local"},
                       ret : {"run", "lock", "mig_pi"}]]

FirstCPU == CHOOSE c \in CPU : \A d \in CPU : c <= d

\* Every task sleeps, every CPU is idle.
Init ==
    /\ task = [p \in Task |->
                [state |-> SLEEP, on_rq |-> "no", cpu |-> FirstCPU,
                 on_cpu |-> FALSE, pi_lock |-> NONE,
                 allowed |-> IF p \in Worker THEN {FirstCPU} ELSE CPU,
                 cond |-> FALSE, step |-> "work", preempt_active |-> FALSE]]
    /\ rq = [c \in CPU |->
                [lock |-> NONE, queue |-> {}, curr |-> IDLE,
                 resched |-> FALSE, idle |-> "off", wake_list |-> {},
                 ipi |-> FALSE, stop |-> {}]]
    /\ at = [c \in CPU |-> Run]

(***************************************************************************)
(* Pieces of the operations                                                *)
(***************************************************************************)
Free(lock) == lock = NONE

\* CPU c goes on at pc; the other fields of its frame stay.
Goto(c, pc) == at' = [at EXCEPT ![c].pc = pc]

cpus_share_cache(c, d) == LLC[c] = LLC[d]

task_running(p) == task[p].on_cpu

\* Mutant of resched_curr(): no interrupt to the other CPU.
ReschedWithoutIpi(q, c, by) == [q EXCEPT ![c].resched = TRUE]

\* resched_curr() on queue c of q, executed by CPU by: the flag, and an
\* interrupt unless somebody sent one already or the CPU polls the flag.
resched_curr(q, c, by) ==
    IF q[c].resched THEN q
    ELSE [q EXCEPT ![c].resched = TRUE,
                   ![c].ipi = @ \/ (c # by /\ q[c].idle # "polling")]

\* check_preempt_curr() for p on queue c: the outcomes the class may choose.
check_preempt_curr(q, c, p, by) ==
    CASE q[c].curr = IDLE -> {resched_curr(q, c, by)}
      [] q[c].curr \in {STOP, p} -> {q}
      [] OTHER -> {q, resched_curr(q, c, by)}

\* The plist of rt.c: what may be moved away from queue c.
pushable_tasks(c) ==
    {p \in rq[c].queue : /\ p # rq[c].curr
                         /\ Cardinality(task[p].allowed) > 1}

\* task_woken_rt(): does the wakeup of p on queue c of q go on to push?
task_woken(q, c, p) ==
    /\ BALANCE
    /\ ~ task_running(p)
    /\ ~ q[c].resched
    /\ Cardinality(task[p].allowed) > 1
    /\ q[c].curr \in Task

\* Where __schedule() goes on once it has dealt with prev.
SchedulePick(c) == [Run EXCEPT !.pc = "pick",
                               !.scan = IF BALANCE THEN CPU \ {c} ELSE {}]

\* The end of __schedule(), with q unlocked: once more, or back to the caller.
ScheduleEnd(q, c) ==
    /\ rq' = q
    /\ at' = [at EXCEPT ![c] = IF q[c].resched THEN [Run EXCEPT !.pc = "lock"]
                               ELSE Run]
    /\ task' = [p \in Task |->
                  IF p = q[c].curr /\ ~ q[c].resched
                  THEN [task[p] EXCEPT !.preempt_active = FALSE]
                  ELSE task[p]]

\* The end of a wakeup executed by CPU by with the lock of queue c: unlock and
\* return to the caller that k names.
WokenEnd(q, tk, c, by, k) ==
    LET unlocked == [q EXCEPT ![c].lock = NONE]
        f == at[by]
    IN
    \/ /\ k = "ttwu"
       /\ rq' = unlocked
       /\ task' = [tk EXCEPT ![f.w].pi_lock = NONE]
       /\ at' = [at EXCEPT ![by] = Run]
    \/ /\ k = "local"
       /\ rq' = q
       /\ task' = [tk EXCEPT ![f.w].pi_lock = NONE]
       /\ at' = [at EXCEPT ![by] = SchedulePick(by)]
    \/ k = "post" /\ ScheduleEnd(unlocked, c)

\* The same in sched_ttwu_pending(), which goes on with the list wl and only
\* then unlocks; ret is its own caller.
PendingEnd(q, tk, c, wl) ==
    LET f == [at[c] EXCEPT !.wl = wl, !.r = NONE, !.t = NONE, !.k = "none"] IN
    /\ task' = tk
    /\ \/ /\ wl # {}
          /\ rq' = q
          /\ at' = [at EXCEPT ![c] = [f EXCEPT !.pc = "activate"]]
       \/ /\ wl = {}
          /\ rq' = [q EXCEPT ![c].lock = NONE]
          /\ at' = [at EXCEPT ![c] = [f EXCEPT !.pc = f.ret, !.ret = "run"]]

\* ttwu_do_wakeup() for p with the lock of queue c held: preempt, mark it
\* running, call the hook.  q, tk: queues and tasks so far.
ttwu_do_wakeup(q, tk, c, p, by, k) ==
    \E q2 \in check_preempt_curr(q, c, p, by) :
        LET tk2 == [tk EXCEPT ![p].state = RUNNING] IN
        \/ /\ task_woken(q2, c, p)
           /\ rq' = q2
           /\ task' = tk2
           /\ at' = [at EXCEPT ![by].pc = "push", ![by].r = c, ![by].k = k,
                               ![by].wl = @ \ {p}]
        \/ /\ ~ task_woken(q2, c, p)
           /\ \/ k # "pend" /\ WokenEnd(q2, tk2, c, by, k)
              \/ k = "pend" /\ PendingEnd(q2, tk2, c, at[by].wl \ {p})

(***************************************************************************)
(* The tasks and the idle loop: users of the scheduler                     *)
(***************************************************************************)

\* A task that waits for its CONDITION, as the comment in try_to_wake_up()
\* has it: set_current_state(), test, schedule() or go on.
SetCurrentState(c) ==
    LET p == rq[c].curr IN
    /\ at[c].pc = "run" /\ p \in Task /\ task[p].step = "work"
    /\ task' = [task EXCEPT ![p].state = SLEEP, ![p].step = "test"]
    /\ UNCHANGED <<rq, at>>

TestCondition(c) ==
    LET p == rq[c].curr IN
    /\ at[c].pc = "run" /\ p \in Task /\ task[p].step = "test"
    /\ \/ /\ task[p].cond
          /\ task' = [task EXCEPT ![p].state = RUNNING, ![p].step = "work",
                                  ![p].cond = FALSE]
          /\ UNCHANGED at
       \/ /\ ~ task[p].cond
          /\ task' = [task EXCEPT ![p].step = "work"]
          /\ Goto(c, "lock")
    /\ UNCHANGED rq

\* The idle loop polls the flag or halts the CPU; it leaves when the flag is
\* set, runs the pending wakeups and calls schedule().
IdlePoll(c) ==
    /\ at[c].pc = "run" /\ rq[c].curr = IDLE /\ rq[c].idle = "off"
    /\ rq' = [rq EXCEPT ![c].idle = "polling"]
    /\ UNCHANGED <<task, at>>

IdleHalt(c) ==
    /\ at[c].pc = "run" /\ rq[c].idle = "polling" /\ ~ rq[c].resched
    /\ rq' = [rq EXCEPT ![c].idle = "halted"]
    /\ UNCHANGED <<task, at>>

IdleExit(c) ==
    /\ at[c].pc = "run" /\ rq[c].idle = "polling" /\ rq[c].resched
    /\ rq' = [rq EXCEPT ![c].idle = "off"]
    /\ Goto(c, "idle_pending")
    /\ UNCHANGED task

\* What an interrupt does to a halted CPU.
Unhalted(q, c) == [q EXCEPT ![c].idle = IF @ = "halted" THEN "off" ELSE @]

\* Mutant of Preempt(): without PREEMPT_ACTIVE.
PreemptSleeps(c) ==
    /\ at[c].pc = "run" /\ rq[c].curr \in Task /\ rq[c].resched
    /\ Goto(c, "lock")
    /\ UNCHANGED <<task, rq>>

\* __cond_resched(), preempt_schedule_irq(): __schedule() with PREEMPT_ACTIVE.
Preempt(c) ==
    LET p == rq[c].curr IN
    /\ at[c].pc = "run" /\ p \in Task /\ rq[c].resched
    /\ task' = [task EXCEPT ![p].preempt_active = TRUE]
    /\ Goto(c, "lock")
    /\ UNCHANGED rq

(***************************************************************************)
(* __schedule()                                                            *)
(***************************************************************************)

\* prev still wants to run, or was preempted.
ScheduleRunning(c) ==
    LET prev == rq[c].curr IN
    /\ at[c].pc = "lock" /\ Free(rq[c].lock)
    /\ prev \in Task =>
          task[prev].state = RUNNING \/ task[prev].preempt_active
    /\ rq' = [rq EXCEPT ![c].lock = c]
    /\ at' = [at EXCEPT ![c] = SchedulePick(c)]
    /\ UNCHANGED task

\* prev was about to sleep and has a signal pending.
ScheduleSignalled(c) ==
    LET prev == rq[c].curr IN
    /\ at[c].pc = "lock" /\ Free(rq[c].lock) /\ prev \in Task
    /\ task[prev].state # RUNNING /\ ~ task[prev].preempt_active
    /\ rq' = [rq EXCEPT ![c].lock = c]
    /\ task' = [task EXCEPT ![prev].state = RUNNING]
    /\ at' = [at EXCEPT ![c] = SchedulePick(c)]

\* prev goes to sleep; a worker may wake another one of its pool.
ScheduleBlocks(c) ==
    LET prev == rq[c].curr IN
    /\ at[c].pc = "lock" /\ Free(rq[c].lock) /\ prev \in Task
    /\ task[prev].state # RUNNING /\ ~ task[prev].preempt_active
    /\ rq' = [rq EXCEPT ![c].lock = c, ![c].queue = @ \ {prev}]
    /\ task' = [task EXCEPT ![prev].on_rq = "no"]
    /\ \/ at' = [at EXCEPT ![c] = SchedulePick(c)]
       \/ /\ prev \in Worker
          /\ \E q \in Worker \ {prev} :
                at' = [at EXCEPT ![c].pc = "local", ![c].w = q, ![c].r = c]

\* Mutant of try_to_wake_up_local(): waits for pi_lock under rq->lock.
LocalSpins(c) ==
    /\ at[c].pc = "local"
    /\ Goto(c, "local_pi")
    /\ UNCHANGED <<task, rq>>

\* try_to_wake_up_local(): rq->lock is held, pi_lock is only tried; to take
\* it in the right order rq->lock must be dropped in between.
LocalTrylock(c) ==
    LET q == at[c].w IN
    /\ at[c].pc = "local"
    /\ \/ /\ Free(task[q].pi_lock)
          /\ task' = [task EXCEPT ![q].pi_lock = c]
          /\ Goto(c, "local_rq")
          /\ UNCHANGED rq
       \/ /\ ~ Free(task[q].pi_lock)
          /\ rq' = [rq EXCEPT ![c].lock = NONE]
          /\ Goto(c, "local_pi")
          /\ UNCHANGED task

LocalPiLock(c) ==
    LET q == at[c].w IN
    /\ at[c].pc = "local_pi" /\ Free(task[q].pi_lock)
    /\ task' = [task EXCEPT ![q].pi_lock = c]
    /\ Goto(c, "local_rq")
    /\ UNCHANGED rq

LocalWake(c) ==
    LET q == at[c].w
        locked == [rq EXCEPT ![c].lock = c]
    IN
    /\ at[c].pc = "local_rq" /\ rq[c].lock \in {c, NONE}
    /\ \/ /\ task[q].state # SLEEP
          /\ WokenEnd(locked, task, c, c, "local")
       \/ /\ task[q].state = SLEEP
          /\ ttwu_do_wakeup([locked EXCEPT ![c].queue = @ \cup {q}],
                            [task EXCEPT ![q].on_rq = "queued"],
                            c, q, c, "local")

\* The switch is over and rq->lock released in q; rq->post_schedule, set by
\* the pick, says whether to push what the switch left behind.
Unlocked(q, c) ==
    LET post == BALANCE /\ q[c].curr \in Task /\ pushable_tasks(c) # {} IN
    \/ /\ post
       /\ rq' = q
       /\ at' = [at EXCEPT ![c] = [Run EXCEPT !.pc = "post"]]
       /\ UNCHANGED task
    \/ ~ post /\ ScheduleEnd(q, c)

\* pick_next_task() and the first half of the switch: next is on the CPU,
\* but prev's stack is in use until finish_lock_switch().
PickNextTask(c) ==
    LET prev == rq[c].curr
        classes == IF rq[c].stop # {} THEN {STOP}
                   ELSE IF rq[c].queue # {} THEN rq[c].queue ELSE {IDLE}
    IN
    /\ at[c].pc = "pick"
    /\ \E next \in classes :
        \/ /\ next = prev
           /\ Unlocked([rq EXCEPT ![c].resched = FALSE, ![c].lock = NONE], c)
        \/ /\ next # prev
           /\ rq' = [rq EXCEPT ![c].resched = FALSE, ![c].curr = next]
           /\ task' = [p \in Task |-> IF p = next
                                      THEN [task[p] EXCEPT !.on_cpu = TRUE]
                                      ELSE task[p]]
           /\ at' = [at EXCEPT ![c] = [Run EXCEPT !.pc = "switch",
                                                  !.prev = prev]]

\* finish_lock_switch(): first prev is off the CPU, then the lock is free.
FinishSwitch(c) ==
    /\ at[c].pc = "switch"
    /\ task' = [p \in Task |-> IF p = at[c].prev
                               THEN [task[p] EXCEPT !.on_cpu = FALSE]
                               ELSE task[p]]
    /\ Goto(c, "unlock")
    /\ UNCHANGED rq

FinishUnlock(c) ==
    /\ at[c].pc = "unlock"
    /\ Unlocked([rq EXCEPT ![c].lock = NONE], c)

\* post_schedule() takes the lock again and pushes.
PostSchedule(c) ==
    /\ at[c].pc = "post" /\ Free(rq[c].lock)
    /\ rq' = [rq EXCEPT ![c].lock = c]
    /\ at' = [at EXCEPT ![c].pc = "push", ![c].r = c, ![c].k = "post"]
    /\ UNCHANGED task

(***************************************************************************)
(* try_to_wake_up()                                                        *)
(***************************************************************************)

\* Somebody makes the CONDITION of p true and calls wake_up_process(p): the
\* task that runs on c, or an interrupt handler.
WakeUpProcess(c, p) ==
    /\ at[c].pc = "run"
    /\ c \in IrqCPU \/ rq[c].curr \in Task
    /\ task' = [task EXCEPT ![p].cond = TRUE]
    /\ rq' = Unhalted(rq, c)
    /\ at' = [at EXCEPT ![c].pc = "ttwu", ![c].w = p]

\* p->state is tested under pi_lock.
TtwuState(c) ==
    LET p == at[c].w IN
    /\ at[c].pc = "ttwu" /\ Free(task[p].pi_lock)
    /\ \/ /\ task[p].state # SLEEP
          /\ at' = [at EXCEPT ![c] = Run]
          /\ UNCHANGED task
       \/ /\ task[p].state = SLEEP
          /\ task' = [task EXCEPT ![p].pi_lock = c]
          /\ Goto(c, "ttwu_on_rq")
    /\ UNCHANGED rq

TtwuOnRq(c) ==
    LET p == at[c].w IN
    /\ at[c].pc = "ttwu_on_rq"
    /\ at' = [at EXCEPT ![c].pc = IF task[p].on_rq = "no" THEN "ttwu_on_cpu"
                                  ELSE "remote_lock",
                        ![c].r = task[p].cpu]
    /\ UNCHANGED <<task, rq>>

\* Mutant of task_rq_is(): what was read before the lock still holds.
NoRecheck(p, r) == TRUE

\* __task_rq_lock(): was it the queue of p, and is p not between two?
task_rq_is(p, r) == task[p].cpu = r /\ task[p].on_rq # "migrating"

\* Mutant of ttwu_remote(): on_rq is not read again under the lock.
RemoteWithoutQueuedTest(c) ==
    LET r == at[c].r IN
    /\ at[c].pc = "remote_lock" /\ Free(rq[r].lock)
    /\ ttwu_do_wakeup([rq EXCEPT ![r].lock = c], task, r, at[c].w, c, "ttwu")

\* ttwu_remote(): p is still queued, flip its state under the lock of its
\* queue; if it has gone from there in the meantime do the full wakeup.
TtwuRemote(c) ==
    LET p == at[c].w
        r == at[c].r
    IN
    /\ at[c].pc = "remote_lock" /\ Free(rq[r].lock)
    /\ \/ /\ ~ task_rq_is(p, r)
          /\ Goto(c, "remote_spin")
          /\ UNCHANGED <<task, rq>>
       \/ /\ task_rq_is(p, r) /\ task[p].on_rq = "queued"
          /\ ttwu_do_wakeup([rq EXCEPT ![r].lock = c], task, r, p, c, "ttwu")
       \/ /\ task_rq_is(p, r) /\ task[p].on_rq = "no"
          /\ Goto(c, "ttwu_on_cpu")
          /\ UNCHANGED <<task, rq>>

TtwuSpin(c) ==
    LET p == at[c].w IN
    /\ at[c].pc = "remote_spin" /\ task[p].on_rq # "migrating"
    /\ at' = [at EXCEPT ![c].pc = "remote_lock", ![c].r = task[p].cpu]
    /\ UNCHANGED <<task, rq>>

\* Mutants of try_to_wake_up(): no wait for p->on_cpu; the result of
\* find_lowest_rq() used when there is no target.
SelectAtOnce(c) ==
    LET p == at[c].w IN
    /\ at[c].pc = "ttwu_on_cpu"
    /\ \E d \in task[p].allowed :
        /\ task' = [task EXCEPT ![p].state = WAKING, ![p].cpu = d]
        /\ at' = [at EXCEPT ![c].pc = "ttwu_list", ![c].r = d]
    /\ UNCHANGED rq

\* Wait until the CPU p slept on has left its stack, then choose a CPU.
TtwuSelect(c) ==
    LET p == at[c].w IN
    /\ at[c].pc = "ttwu_on_cpu" /\ ~ task_running(p)
    /\ \E d \in task[p].allowed, feat \in TTWU_QUEUE :
        /\ task' = [task EXCEPT ![p].state = WAKING, ![p].cpu = d]
        /\ at' = [at EXCEPT ![c].pc = IF feat /\ ~ cpus_share_cache(c, d)
                                      THEN "ttwu_list" ELSE "ttwu_queue",
                            ![c].r = d]
    /\ UNCHANGED rq

\* ttwu_queue(), the near case.
TtwuQueue(c) ==
    LET p == at[c].w
        r == at[c].r
    IN
    /\ at[c].pc = "ttwu_queue" /\ Free(rq[r].lock)
    /\ ttwu_do_wakeup([rq EXCEPT ![r].lock = c, ![r].queue = @ \cup {p}],
                      [task EXCEPT ![p].on_rq = "queued"], r, p, c, "ttwu")

\* ttwu_queue_remote(): only the first on the list rings the bell.
TtwuList(c) ==
    LET p == at[c].w
        r == at[c].r
    IN
    /\ at[c].pc = "ttwu_list"
    /\ rq' = [rq EXCEPT ![r].wake_list = @ \cup {p}]
    /\ \/ /\ rq[r].wake_list = {}
          /\ Goto(c, "ttwu_kick")
          /\ UNCHANGED task
       \/ /\ rq[r].wake_list # {}
          /\ task' = [task EXCEPT ![p].pi_lock = NONE]
          /\ at' = [at EXCEPT ![c] = Run]

\* Mutant of ttwu_queue_remote(): any idle CPU is taken to poll.
KickIdleWithFlag(c) ==
    LET r == at[c].r IN
    /\ at[c].pc = "ttwu_kick"
    /\ rq' = IF rq[r].curr = IDLE THEN [rq EXCEPT ![r].resched = TRUE]
             ELSE [rq EXCEPT ![r].ipi = TRUE]
    /\ task' = [task EXCEPT ![at[c].w].pi_lock = NONE]
    /\ at' = [at EXCEPT ![c] = Run]

\* set_nr_if_polling() or smp_send_reschedule().
TtwuKick(c) ==
    LET r == at[c].r IN
    /\ at[c].pc = "ttwu_kick"
    /\ rq' = IF rq[r].idle = "polling" THEN [rq EXCEPT ![r].resched = TRUE]
             ELSE [rq EXCEPT ![r].ipi = TRUE]
    /\ task' = [task EXCEPT ![at[c].w].pi_lock = NONE]
    /\ at' = [at EXCEPT ![c] = Run]

(***************************************************************************)
(* Pending wakeups and the reschedule interrupt                            *)
(***************************************************************************)

\* llist_del_all() and what sched_ttwu_pending() does when it got something;
\* ret is where its caller goes on.
TakeWakeList(q, c, ret, frame) ==
    /\ rq' = [q EXCEPT ![c].wake_list = {}]
    /\ at' = [at EXCEPT ![c] =
                [frame EXCEPT !.pc = IF q[c].wake_list = {} THEN ret
                                     ELSE "pending",
                              !.wl = q[c].wake_list, !.ret = ret]]
    /\ UNCHANGED task

\* Mutant of scheduler_ipi(): only reschedules.
IpiWithoutPending(c) ==
    /\ at[c].pc = "run" /\ rq[c].ipi
    /\ rq' = [Unhalted(rq, c) EXCEPT ![c].ipi = FALSE]
    /\ UNCHANGED <<task, at>>

SchedulerIpi(c) ==
    /\ at[c].pc = "run" /\ rq[c].ipi
    /\ TakeWakeList([Unhalted(rq, c) EXCEPT ![c].ipi = FALSE], c, "run", Run)

IdlePending(c) ==
    /\ at[c].pc = "idle_pending"
    /\ TakeWakeList(rq, c, "lock", Run)

\* Under the lock, ttwu_do_activate() for one task of the list.
PendingActivate(c) ==
    /\ \/ at[c].pc = "pending" /\ Free(rq[c].lock)
       \/ at[c].pc = "activate"
    /\ \E p \in at[c].wl :
        ttwu_do_wakeup([rq EXCEPT ![c].lock = c, ![c].queue = @ \cup {p}],
                       [task EXCEPT ![p].on_rq = "queued"], c, p, c, "pend")

(***************************************************************************)
(* Pushing and pulling                                                     *)
(***************************************************************************)

\* push_rt_task() for one task of the locked queue r; o is find_lowest_rq().
PushBegin(c) ==
    LET r == at[c].r IN
    /\ at[c].pc = "push"
    /\ \E t \in pushable_tasks(r) : \E o \in task[t].allowed \ {r} :
        at' = [at EXCEPT ![c].pc = "bal_try", ![c].t = t, ![c].o = o]
    /\ UNCHANGED <<task, rq>>

\* No more tasks, no queue for them, or the next one preempts current.
PushEnd(c) ==
    /\ at[c].pc = "push"
    /\ \E q \in {rq, resched_curr(rq, at[c].r, c)} :
        \/ at[c].k # "pend" /\ WokenEnd(q, task, at[c].r, c, at[c].k)
        \/ at[c].k = "pend" /\ PendingEnd(q, task, c, at[c].wl)

\* pull_rt_task() looks at one more queue before the pick.
PullBegin(c) ==
    /\ at[c].pc = "pick"
    /\ \E o \in at[c].scan :
        at' = [at EXCEPT ![c].pc = "bal_try", ![c].r = c, ![c].o = o,
                         ![c].scan = @ \ {o}]
    /\ UNCHANGED <<task, rq>>

\* Mutant of double_lock_balance(): keeps its lock while it waits.
BalSpins(c) ==
    /\ at[c].pc = "bal_try"
    /\ Goto(c, "bal_low")
    /\ UNCHANGED <<task, rq>>

\* double_lock_balance(): queue r is locked, get o as well.  The lower lock
\* goes first, so r may have to be dropped; with CONFIG_PREEMPT it always is.
BalTry(c) ==
    LET r == at[c].r
        o == at[c].o
    IN
    /\ at[c].pc = "bal_try"
    /\ \/ /\ FALSE \in PREEMPT /\ Free(rq[o].lock)
          /\ rq' = [rq EXCEPT ![o].lock = c]
          /\ Goto(c, "both")
       \/ /\ \/ TRUE \in PREEMPT
             \/ FALSE \in PREEMPT /\ ~ Free(rq[o].lock) /\ o < r
          /\ rq' = [rq EXCEPT ![r].lock = NONE]
          /\ Goto(c, "bal_low")
    /\ UNCHANGED task

LowerOf(c) == IF at[c].o < at[c].r THEN at[c].o ELSE at[c].r
HigherOf(c) == IF at[c].o < at[c].r THEN at[c].r ELSE at[c].o

BalLow(c) ==
    /\ at[c].pc = "bal_low" /\ Free(rq[LowerOf(c)].lock)
    /\ rq' = [rq EXCEPT ![LowerOf(c)].lock = c]
    /\ Goto(c, "bal_high")
    /\ UNCHANGED task

\* What find_lock_lowest_rq() tests again when r was unlocked.
still_pushable(t, r, o) ==
    /\ task[t].cpu = r
    /\ o \in task[t].allowed
    /\ ~ task_running(t)
    /\ task[t].on_rq = "queued"

BalHigh(c) ==
    LET r == at[c].r
        o == at[c].o
        t == at[c].t
        stale == t # NONE /\ ~ still_pushable(t, r, o)
        both == [rq EXCEPT ![HigherOf(c)].lock = c]
    IN
    /\ at[c].pc = "bal_high" /\ Free(rq[HigherOf(c)].lock)
    /\ \/ /\ ~ stale
          /\ rq' = both
          /\ Goto(c, "both")
       \/ /\ stale
          /\ rq' = [both EXCEPT ![o].lock = NONE]
          /\ at' = [at EXCEPT ![c].pc = "push", ![c].t = NONE, ![c].o = NONE]
    /\ UNCHANGED task

\* deactivate_task(), set_task_cpu(), activate_task() with both locks held.
Moved(q, p, from, to) == [q EXCEPT ![from].queue = @ \ {p},
                                   ![to].queue = @ \cup {p}]

PushMove(c) ==
    LET r == at[c].r
        o == at[c].o
        t == at[c].t
    IN
    /\ at[c].pc = "both" /\ t # NONE
    /\ \/ /\ rq' = [resched_curr(Moved(rq, t, r, o), o, c)
                        EXCEPT ![o].lock = NONE]
          /\ task' = [task EXCEPT ![t].cpu = o]
       \/ /\ rq' = [rq EXCEPT ![o].lock = NONE]
          /\ UNCHANGED task
    /\ at' = [at EXCEPT ![c].pc = "push", ![c].t = NONE, ![c].o = NONE]

PullMove(c) ==
    LET r == at[c].r
        o == at[c].o
    IN
    /\ at[c].pc = "both" /\ at[c].t = NONE
    /\ \/ \E p \in pushable_tasks(o) :
            /\ ~ task_running(p) /\ r \in task[p].allowed
            /\ rq' = [Moved(rq, p, o, r) EXCEPT ![o].lock = NONE]
            /\ task' = [task EXCEPT ![p].cpu = r]
       \/ /\ rq' = [rq EXCEPT ![o].lock = NONE]
          /\ UNCHANGED task
    /\ at' = [at EXCEPT ![c].pc = "pick", ![c].r = NONE, ![c].o = NONE]

(***************************************************************************)
(* Affinity and the migration thread                                       *)
(***************************************************************************)

\* A task calls set_cpus_allowed_ptr(p, mask), unless it still waits for a
\* stopper; the mask is kept in scan.
SetCpusAllowed(c, p, mask) ==
    /\ at[c].pc = "run" /\ rq[c].curr \in Task /\ p \notin Worker
    /\ \A d \in CPU : \A work \in rq[d].stop : work[3] # rq[c].curr
    /\ at' = [at EXCEPT ![c].pc = "sca_pi", ![c].w = p, ![c].scan = mask]
    /\ UNCHANGED <<task, rq>>

\* task_rq_lock(), the first lock.
AllowedPiLock(c) ==
    LET p == at[c].w IN
    /\ at[c].pc = "sca_pi" /\ Free(task[p].pi_lock)
    /\ task[p].on_rq # "migrating"
    /\ task' = [task EXCEPT ![p].pi_lock = c]
    /\ at' = [at EXCEPT ![c].pc = "sca_rq", ![c].r = task[p].cpu]
    /\ UNCHANGED rq

\* move_queued_task(), up to the unlock of the old queue.
LeaveQueue(c, p, r, d) ==
    /\ rq' = [rq EXCEPT ![r].queue = @ \ {p}]
    /\ task' = [task EXCEPT ![p].on_rq = "migrating", ![p].cpu = d,
                            ![p].allowed = IF at[c].pc = "sca_rq"
                                           THEN at[c].scan ELSE @]
    /\ at' = [at EXCEPT ![c] = [Run EXCEPT !.pc = "move_dst", !.w = p,
                                           !.dst = d]]

\* Mutant of set_cpus_allowed_ptr(): places a blocked task at once.
PlaceBlocked(c, p, tk, mask) ==
    /\ task' = [tk EXCEPT ![p].cpu = CHOOSE d \in mask : TRUE]
    /\ at' = [at EXCEPT ![c] = Run]
    /\ UNCHANGED rq

\* The mask of a blocked task changed: the next wakeup will place it.
AllowedBlocked(c, p, tk, mask) ==
    /\ task' = tk
    /\ at' = [at EXCEPT ![c] = Run]
    /\ UNCHANGED rq

\* task_rq_lock(), the second lock, and what is done under it.
AllowedRqLock(c) ==
    LET p == at[c].w
        r == at[c].r
        mask == at[c].scan
        changed == mask # task[p].allowed
        released == [task EXCEPT ![p].pi_lock = NONE, ![p].allowed = mask]
    IN
    /\ at[c].pc = "sca_rq" /\ Free(rq[r].lock)
    /\ \/ /\ ~ task_rq_is(p, r)
          /\ task' = [task EXCEPT ![p].pi_lock = NONE]
          /\ Goto(c, "sca_pi")
          /\ UNCHANGED rq
       \/ /\ task_rq_is(p, r) /\ (mask = task[p].allowed \/ r \in mask)
          /\ task' = released
          /\ at' = [at EXCEPT ![c] = Run]
          /\ UNCHANGED rq
       \/ /\ task_rq_is(p, r) /\ changed /\ r \notin mask
          /\ task_running(p) \/ task[p].state = WAKING
          /\ task' = released
          /\ \E d \in mask : at' = [at EXCEPT ![c].pc = "sca_stop", ![c].dst = d]
          /\ UNCHANGED rq
       \/ /\ task_rq_is(p, r) /\ changed /\ r \notin mask
          /\ ~ task_running(p) /\ task[p].state # WAKING
          /\ task[p].on_rq = "queued"
          /\ \E d \in mask : LeaveQueue(c, p, r, d)
       \/ /\ task_rq_is(p, r) /\ changed /\ r \notin mask
          /\ ~ task_running(p) /\ task[p].state # WAKING
          /\ task[p].on_rq = "no"
          /\ AllowedBlocked(c, p, released, mask)

\* stop_one_cpu(): the work is queued and the stopper of r woken.
StopOneCpu(c) ==
    LET r == at[c].r IN
    /\ at[c].pc = "sca_stop"
    /\ rq' = resched_curr([rq EXCEPT ![r].stop = @ \cup {<<at[c].w, at[c].dst, rq[c].curr>>}],
                          r, c)
    /\ at' = [at EXCEPT ![c] = Run]
    /\ UNCHANGED task

\* move_queued_task(), on the new queue.
JoinQueue(c) ==
    LET p == at[c].w
        d == at[c].dst
    IN
    /\ at[c].pc = "move_dst" /\ Free(rq[d].lock)
    /\ rq' \in check_preempt_curr([rq EXCEPT ![d].queue = @ \cup {p}], d, p, c)
    /\ task' = [task EXCEPT ![p].on_rq = "queued", ![p].pi_lock = NONE]
    /\ at' = [at EXCEPT ![c] = Run]

\* Mutant of migration_cpu_stop(): without sched_ttwu_pending().
StopWithoutPending(c) ==
    /\ at[c].pc = "run" /\ rq[c].curr = STOP
    /\ \E work \in rq[c].stop :
        /\ rq' = [rq EXCEPT ![c].stop = @ \ {work}]
        /\ at' = [at EXCEPT ![c] = [Run EXCEPT !.pc = "mig_pi", !.w = work[1],
                                               !.dst = work[2]]]
    /\ UNCHANGED task

\* The stopper thread takes one work: migration_cpu_stop().
MigrationCpuStop(c) ==
    /\ at[c].pc = "run" /\ rq[c].curr = STOP
    /\ \E work \in rq[c].stop :
        TakeWakeList([rq EXCEPT ![c].stop = @ \ {work}], c, "mig_pi",
                     [Run EXCEPT !.w = work[1], !.dst = work[2]])

\* __migrate_task().
MigratePiLock(c) ==
    LET p == at[c].w IN
    /\ at[c].pc = "mig_pi" /\ Free(task[p].pi_lock)
    /\ task' = [task EXCEPT ![p].pi_lock = c]
    /\ Goto(c, "mig_rq")
    /\ UNCHANGED rq

MigrateTask(c) ==
    LET p == at[c].w
        d == at[c].dst
        movable == /\ task[p].cpu = c
                   /\ d \in task[p].allowed
                   /\ task[p].on_rq = "queued"
    IN
    /\ at[c].pc = "mig_rq" /\ Free(rq[c].lock)
    /\ \/ movable /\ LeaveQueue(c, p, c, d)
       \/ /\ ~ movable
          /\ task' = [task EXCEPT ![p].pi_lock = NONE]
          /\ at' = [at EXCEPT ![c] = Run]
          /\ UNCHANGED rq

\* The stopper has no more work and sleeps.
StopperSleeps(c) ==
    /\ at[c].pc = "run" /\ rq[c].curr = STOP /\ rq[c].stop = {}
    /\ Goto(c, "lock")
    /\ UNCHANGED <<task, rq>>

(***************************************************************************)
(* The specification                                                       *)
(***************************************************************************)
Waiter(c) == SetCurrentState(c) \/ TestCondition(c)

IdleLoop(c) == IdlePoll(c) \/ IdleExit(c)

Schedule(c) ==
    \/ ScheduleRunning(c) \/ ScheduleSignalled(c) \/ ScheduleBlocks(c)
    \/ LocalTrylock(c) \/ LocalPiLock(c) \/ LocalWake(c)
    \/ PickNextTask(c) \/ FinishSwitch(c) \/ FinishUnlock(c)
    \/ PostSchedule(c)

TryToWakeUp(c) ==
    \/ TtwuState(c) \/ TtwuOnRq(c) \/ TtwuRemote(c) \/ TtwuSpin(c)
    \/ TtwuSelect(c) \/ TtwuQueue(c) \/ TtwuList(c) \/ TtwuKick(c)

TtwuPending(c) ==
    \/ IdlePending(c) \/ PendingActivate(c)

Balance(c) ==
    \/ PushBegin(c) \/ PushEnd(c) \/ PullBegin(c)
    \/ BalTry(c) \/ BalLow(c) \/ BalHigh(c) \/ PushMove(c) \/ PullMove(c)

Affinity(c) ==
    \/ AllowedPiLock(c) \/ AllowedRqLock(c) \/ StopOneCpu(c) \/ JoinQueue(c)
    \/ MigratePiLock(c) \/ MigrateTask(c)

\* What a CPU does in its task, and what it does with interrupts off.
Background(c) == Waiter(c) \/ IdleLoop(c) \/ StopperSleeps(c)
                    \/ MigrationCpuStop(c)

Section(c) ==
    \/ Schedule(c) \/ TryToWakeUp(c) \/ TtwuPending(c) \/ Balance(c)
    \/ Affinity(c)

Next ==
    \E c \in CPU :
        \/ Background(c)
        \/ Preempt(c)
        \/ Section(c)
        \/ IdleHalt(c)
        \/ SchedulerIpi(c)
        \/ \E p \in Task : WakeUpProcess(c, p)
        \/ \E p \in Task, mask \in Masks : SetCpusAllowed(c, p, mask)

Spec == Init /\ [][Next]_vars

\* CPUs do not stop and interrupts leave time to the tasks.  A spinlock is
\* granted in the order of the requests, so a CPU that keeps finding it free
\* gets it; a pending interrupt is delivered to a CPU that keeps enabling
\* interrupts, and a flag it keeps seeing is acted upon.
Fairness ==
    \A c \in CPU :
        /\ SF_vars(Section(c))
        /\ SF_vars(Background(c))
        /\ SF_vars(SchedulerIpi(c))
        /\ SF_vars(Preempt(c))

FairSpec == Spec /\ Fairness

(***************************************************************************)
(* Properties                                                              *)
(***************************************************************************)

\* The tasks whose stacks CPU c is using: its current task and, until
\* finish_lock_switch(), the one it switches away from.
Stacks(c) == Task \cap
    ({rq[c].curr} \cup IF at[c].pc = "switch" THEN {at[c].prev} ELSE {})

\* No task is ever executed by two CPUs, not even while one of them is still
\* leaving it: the reason for p->on_cpu in try_to_wake_up() and rt.c.
OneStack == \A c, d \in CPU : c # d => Stacks(c) \cap Stacks(d) = {}

\* A task is on the run queue its ->cpu and ->on_rq say, and on no other one,
\* through every wakeup, sleep, push, pull and migration.
QueueExact ==
    \A p \in Task, c \in CPU :
        p \in rq[c].queue <=> task[p].on_rq = "queued" /\ task[p].cpu = c

\* The tasks on their way to a run queue through wake_list.
Listed(c) == rq[c].wake_list
                \cup IF at[c].pc \in {"pending", "activate", "push",
                                      "bal_try", "bal_low", "bal_high", "both"}
                     THEN at[c].wl ELSE {}

\* The full wakeup of p that some CPU is in the middle of.
Activating(p) == {c \in CPU : /\ at[c].w = p
                              /\ at[c].pc \in {"ttwu_queue", "ttwu_list"}}

\* A task in TASK_WAKING is in exactly one place: with the waker that will
\* queue it, or on the wake_list of the CPU it was sent to.  Two wakers never
\* queue it twice, and nobody marks a task runnable that has just left its queue.
WakingExact ==
    \A p \in Task :
        LET lists == {c \in CPU : p \in Listed(c)} IN
        /\ task[p].state = WAKING <=>
              Cardinality(lists) + Cardinality(Activating(p)) = 1
        /\ lists \subseteq {task[p].cpu}
        /\ task[p].state = WAKING => task[p].on_rq = "no"
        /\ task[p].state = RUNNING => task[p].on_rq # "no"

\* A wake_list that is not empty will be looked at: an interrupt is on its
\* way, the idle task has promised to, or the one who made it non-empty has
\* not rung yet.
WakeListServed ==
    \A c \in CPU :
        rq[c].wake_list # {} =>
            \/ rq[c].ipi
            \/ rq[c].idle = "polling" /\ rq[c].resched
            \/ at[c].pc = "idle_pending"
            \/ \E d \in CPU : at[d].pc = "ttwu_kick" /\ at[d].r = c

\* A task that sleeps although its CONDITION is true has a waker under way
\* (no lost wakeup between set_current_state() and schedule()).
NoLostWakeup ==
    \A p \in Task :
        task[p].cond /\ task[p].state = SLEEP /\ task[p].on_rq = "no" =>
            \E c \in CPU :
                at[c].w = p /\ at[c].pc \in {"ttwu", "ttwu_on_rq",
                    "remote_lock", "remote_spin", "ttwu_on_cpu"}

\* A runnable task in front of an idle CPU: the CPU has been told.
IdleIsTold ==
    \A c \in CPU :
        rq[c].queue # {} /\ rq[c].curr = IDLE /\ Free(rq[c].lock)
            /\ at[c].pc = "run"
        => rq[c].resched /\ (rq[c].ipi \/ rq[c].idle # "halted")

\* A task is never left on a CPU it may not run on, unless the call that
\* changed its mask is still moving it, or the migration thread of that CPU
\* has a request that will.
AffinityEnforced ==
    \A p \in Task :
        LET c == task[p].cpu IN
        \/ c \in task[p].allowed
        \/ task[p].on_rq = "no" /\ task[p].state # WAKING
        \/ \E d \in task[p].allowed :
              \/ \E q \in Task : <<p, d, q>> \in rq[c].stop
              \/ \E b \in CPU : /\ at[b].pc = "sca_stop" /\ at[b].w = p
                                /\ at[b].r = c /\ at[b].dst = d
              \/ rq[c].curr = STOP /\ at[c].w = p /\ at[c].dst = d

\* WARN_ON_ONCE() in set_task_cpu(): a blocked task is not moved.
BlockedStays ==
    [][\A p \in Task :
          task'[p].cpu # task[p].cpu =>
              task'[p].state # SLEEP \/ task[p].preempt_active]_vars

\* The CPUs that CPU c cannot go on without.
WaitsFor(c) ==
    LET Holder(lock) == IF lock = NONE THEN {} ELSE {lock}
        User(p) == {d \in CPU : p \in Stacks(d)}
        Mover(p) == {d \in CPU : at[d].pc = "move_dst" /\ at[d].w = p}
    IN
    CASE at[c].pc \in {"ttwu", "local_pi", "sca_pi", "mig_pi"} ->
            Holder(task[at[c].w].pi_lock)
      [] at[c].pc \in {"remote_lock", "ttwu_queue", "sca_rq"} ->
            Holder(rq[at[c].r].lock)
      [] at[c].pc \in {"lock", "pending", "post", "mig_rq"} -> Holder(rq[c].lock)
      [] at[c].pc = "local_rq" -> Holder(rq[c].lock) \ {c}
      [] at[c].pc = "bal_try" /\ ~ (at[c].o < at[c].r) ->
            Holder(rq[at[c].o].lock)
      [] at[c].pc = "bal_low" -> Holder(rq[LowerOf(c)].lock)
      [] at[c].pc = "move_dst" -> Holder(rq[at[c].dst].lock)
      [] at[c].pc = "bal_high" -> Holder(rq[HigherOf(c)].lock)
      [] at[c].pc = "ttwu_on_cpu" /\ task_running(at[c].w) -> User(at[c].w)
      [] at[c].pc = "remote_spin" -> Mover(at[c].w)
      [] OTHER -> {}

\* No set of CPUs in which each waits for another one: the order pi_lock,
\* then rq->lock from low to high, the trylocks and the two spins on p->on_cpu
\* and on TASK_ON_RQ_MIGRATING never close a circle.
NoDeadlock ==
    \A S \in (SUBSET CPU) \ {{}} : \E c \in S : WaitsFor(c) \cap S = {}

\* A wakeup is never forgotten: a task whose CONDITION is true, and that no
\* other task keeps from the CPU, gets to run and sees it.
WakeupDelivered == \A p \in Task : task[p].cond ~> ~ task[p].cond

=============================================================================
