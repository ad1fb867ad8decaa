# Verification of the round-robin scheduler

TLA+ models, TLC runs and TLAPS proofs for the scheduler in
`src/scheduler/round_robin/`: a Linux 3.18 `kernel/sched` in which the fair
class is replaced by a "circular" one, built on a new circular list. File names
below without a directory are in that directory.

## The system

### Components

**Circular list** (`circlist.c`, `circlist.h`). State: `head`, `count`, and
`next`/`prev` in a node of every task, which nothing initialises. Operations:
insert before a given node, remove a node after searching for it from the head,
walk. Called by the circular class under `rq->lock`. Hard: pointers that are
wrong for one position of a node only show some operations later, and both
loops end only if the callers never remove an absent node and never insert one
twice. Correct if the pointers are always one ring in insertion order, `count`
is its length and the loops end.

**Circular class** (`circular.c`). State: `circ_rq` (the ring, `curr`,
`nr_running`) and `se.on_rq` of every task. Operations: the methods of
`sched_class`, called by core. Hard: the running task is counted but kept out of
the ring, and every operation on a task (renice, change of class, boost, sleep,
exit) may meet it running, waiting, sleeping or on its way to sleep. Correct if
every runnable task of the class is in exactly one place, the contract of the
list is kept, the oldest waiting task runs next, and none waits for ever.

**Real-time class** (`rt.c`). State: a list per priority and a bitmap, counters,
time slices; with SMP also the lists of pushable tasks, overload masks and
`cpupri`. Operations: the same methods; push and pull of tasks between CPUs,
which drop `rq->lock`. Correct if every task is on the list of its *effective*
priority and the best one runs or is about to.

**Real-time bandwidth** (`rt.c`, sysctls in `core.c`). State: `rt_time`,
`rt_runtime`, `rt_throttled` per CPU, the shared `def_rt_bandwidth` and its
timer. Operations: charge the running task, throttle, borrow from other CPUs,
replenish from a timer, take back and give back at CPU hotplug, change the
limits. Hard: three levels of locks, one of which is dropped half-way through.
Correct if runtime is neither created nor lost, a queue beyond its share is
throttled, and a throttled queue comes back.

**Core** (`core.c`, `sched.h`). State: `rq->curr`, `nr_running`, the
need-resched flag, `p->state`, `p->on_rq`, `p->on_cpu`, priorities, affinity
masks, `wake_list`. Operations: `__schedule`, wakeups (local, remote, through an
interrupt, from inside `__schedule`), fork, exit, `sched_setscheduler` and its
relatives, `set_user_nice`, `rt_mutex_setprio`, yields, the tick, affinity and
migration, CPU hotplug, domains, sysctls. Hard: wakeups between
`set_current_state()` and `schedule()`; a task woken while another CPU is still
on its stack; unlocked reads that are checked again; lock order; interrupts that
are only sent once. Correct if no task is lost, run twice or left on the wrong
CPU, no preemption and no wakeup is missed, and nobody waits in a circle.

**Domains and root domains** (`core.c`, `sched.h`). State: per CPU a chain of
domains, each with a ring of groups that domains of other CPUs use too, cached
pointers into the chain, and a root domain shared by the CPUs of a partition; all
with reference counts. Operations: build, prune, attach, detach, partition, and the
hotplug notifiers. Hard: other CPUs read without a lock while the only writer
changes one CPU after the other; every allocation may fail. Correct if nothing is
freed in use or twice, nothing leaks, groups cover what they should, and the
partition asked for is the one in force.

**Bandwidth admission and sysctl handlers** (`core.c`). State: the limits, as the
sysctls show them, as `def_rt_bandwidth` has them, and as shared out to the CPUs.
Operations: write, check, share out, put back. Hard: one step of several fails while
the CPUs already use the new value. Correct if the limit in force is the one shared
out, and a throttled queue still has a timer.

**Kernel modules** (`src/module_dev/`). A character device with one shared buffer
and an open count, a `/proc` file, a kretprobe. Called by the VFS concurrently.
Correct if readers see what was written, the device is exclusive as it says, and
module references balance.

**The rest**: `src/bpf/` (a tracing script), `src/userspace/`, boot scripts,
kernel configurations, traces, and upstream patches to a fair class that is not
in this repository. No state of their own.

### How they interact

Core calls the classes through `sched_class` with `rq->lock` held; the circular
class calls the list. CPUs meet through `p->pi_lock`, `rq->lock` (lower address
first), `wake_list`, reschedule interrupts, the migration thread, and the lock of
the shared bandwidth. `circular.c` has no SMP methods (they are commented out, and
line 260 calls a static function of `rt.c` under `CONFIG_SMP`), so core with the
circular class is a uniprocessor system, and core with SMP is modelled with the
hooks of the real-time class or with none.

## Modules

| Module | Models |
|---|---|
| `CircQueue` | abstract specification: a FIFO queue as its users see it |
| `CircList` | `circlist.c`, pointer by pointer, loops one iteration per step |
| `CircListHistory` | `CircList` with a history variable, its properties, the refinement of `CircQueue` |
| `CircListProofs` | theorems about `CircListHistory` |
| `RoundRobin` | one CPU: core, real-time, circular and idle class |
| `RoundRobinProofs` | theorems about `RoundRobin` |
| `RoundRobinSysRq` | `RoundRobin` with `normalize_rt_tasks` (SysRq-n) |
| `MCRoundRobin` | arguments of system calls for the runs of the two above |
| `SmpSched` | several CPUs: sleep, wakeup, interrupts, affinity, migration thread, the locks of push and pull |
| `MCSmpSched` | instances of `SmpSched` |
| `SmpSchedProofs`, `SmpSchedDeepProofs` | theorems about `SmpSched` |
| `RtPushPull` | real-time tasks pushed and pulled by priority between CPUs that come and go |
| `MCRtPushPull` | an instance of `RtPushPull` |
| `RtPushPullProofs` | theorems about `RtPushPull` |
| `RtBandwidth` | real-time bandwidth on several CPUs, with limits that change |
| `RtBandwidthProofs` | theorems about `RtBandwidth` |
| `DomainTree` | what `build_sched_domains` builds, as a function of topology and CPUs |
| `SchedDomains` | the life of domains and root domains, composed with `DomainTree` |
| `MCSchedDomains` | topologies and partitions for `SchedDomains` |
| `CharDev` | the character device and its client |
| `CharDevProofs` | theorems about `CharDev` |
| `Lists` | sequences in which nothing occurs twice: deletion and insertion |
| `SetLemmas` | least and greatest elements, counting, products and lists, for the proofs |
| `MCCharDev` | messages for `CharDev` |

They compose upwards: `CircListProofs` shows that the pointers are a queue as
long as the callers keep the contract; `RoundRobin` uses that queue in place of
the pointers and shows that the callers do keep it (`NoListFault`). `SmpSched` has
every lock and unlocked access of wakeup and migration and leaves the choice of tasks
open; `RtPushPull` makes that choice by priority and takes what happens under a lock
as one step.

Definitions are named after the functions they model where one function is one
definition. `PROJECT.json` maps each to its lines.

### `CircList`

An insertion and an unlinking are one step (they run under `rq->lock`); each
iteration of a loop is one, because the loops have no bound of their own. `linked`
is what the callers know to be on the list. The initial pointers are arbitrary.

### `RoundRobin`

`rq` is the struct of that name, with the ring as a sequence and the real-time
lists as sequences. An action is one section under `rq->lock`: `__schedule` with
everything it calls, a wakeup, the three steps of a fork, a system call, a boost,
a tick. Going to sleep is two actions, `set_current_state()` and `schedule()`,
with anything in between. Boosts and deboosts come from outside (`rtmutex.c` is
not in the repository) and may hit any task; `pi` is the top waiter they stand
for. Misusing the list sets `rq.fault`.

Left out: clocks and statistics, load weights, throttling (`RtBandwidth`),
SCHED_DEADLINE (`deadline.c` is not in the repository), permission checks.

### `SmpSched`

Every CPU is a process with a frame `at[c]`; a step ends before each access to
memory that another CPU may see without the same lock, so locks, unlocked reads,
retries, lists and interrupts are all steps of their own. Memory is sequentially
consistent: the barriers are assumed to do what their comments say. Queues are
sets and preemption between tasks is a free choice, so the results hold for any
order a class uses. The waiter (a loop around a condition), the idle loop with its
polling and halted states, the stopper thread and `wq_worker_sleeping` are
external code, modelled from how `core.c` relies on them. The caller of
`stop_one_cpu` goes on without waiting, but changes no affinity until its work has
been taken, which allows more interleavings than the code. All CPUs are on line
(`RtPushPull` and `SchedDomains` have hotplug). `TTWU_QUEUE` is the set of settings of
that scheduler feature, which may change at any time, `IrqCPU` are the CPUs on which
wakeups come from devices. `PREEMPT` is the set of builds covered: with
`CONFIG_PREEMPT` `double_lock_balance` always drops the lock, otherwise only
against the lock order. A preemption always carries PREEMPT_ACTIVE: kernel
preemption does, and so does `cond_resched` of the voluntary build that the
repository's configurations select.

### `RtBandwidth`

Per CPU the accounting fields of `rt_rq`, the number of tasks, whether they count
in the run queue (`rt_queued`), whether one runs. `rq->lock` is `at[a].q`, the
shared lock `rt_b_lock`; the lock of an `rt_rq` is held for one step and dropped
where `balance_runtime` drops it. Scans over CPUs take one step per CPU. Time
passes when `update_curr_rt` charges it; the timer fires at any moment, up to
`MAX_OVERRUN` periods late.

A write to `sched_rt_runtime_us` is four steps: the value is stored, where everybody
reads it; every CPU gets it as its share, those off line too; the deadline class may
refuse, which puts back the stored value and nothing else; otherwise it becomes the
limit. Runtimes are unsigned with `MOD` values, so that the unlimited value
(`RUNTIME_INF`, all ones) and what arithmetic makes of it are as in the code.

Two history variables say which states the code makes no promise about. `settled` is
"yes" while the shares of the CPUs go with the limit: not between the sharing out and
the acceptance of a value, not after a refusal, and not when a CPU was off line or
went off line meanwhile. `unwatched` is set when a task is enqueued or the timer stops
in the window in which nobody will restart it (see Findings).

Simplified: no groups; RT_RUNTIME_SHARE on; the period does not change; a limit of 0
is not written; all CPUs are in one root domain; the tasks of a CPU that goes off line
are moved away in the step that disables it; the last CPU stays.

### `RtPushPull`

`rq[c]` has the queue of real-time tasks, the list of pushable tasks, `highest_prio`,
`rt_nr_migratory`, `overloaded`, the flags for rescheduling and `post_schedule`; `rd`
has `rto_mask`, `rto_count` and what `cpupri` was told. A step is a section under
`rq->lock` up to the place where `double_lock_balance` drops it; `at[c]` is the frame
of the operation a CPU is in, with the locks it holds. A push goes through `PushTask`,
`FindLowest`, `Locked`, `PushLocked` and back to its caller (`task_woken_rt`,
`post_schedule_rt`, `switched_to_rt`); a pull through `PullNext`, `Locked`,
`PullLocked` for each CPU of `rto_mask` in turn (`pick_next_task_rt`,
`prio_changed_rt`, `switched_from_rt`). With both values in `PREEMPT` the lock is
always dropped, or only when it must be.

A CPU leaves in the steps of the code: it is taken out of `cpu_active_mask`, its run
queue goes off line (`rq_offline_rt`), and in `stop_machine`, while nobody else does
anything (`Stopped`), the running task gives way to the stopper (`Dying`), the tasks are
picked and moved away one by one (`MigrateTask`, one iteration of `migrate_tasks`), with
`select_fallback_rq` widening the mask of those that have nowhere to go, and with none
left the CPU is off line (`Dead`). It may fail at each stage before that, and comes back.

`missed` is a history variable: the waiting tasks that could run elsewhere since
somebody's priority, class, affinity or CPU changed, where the code asks for no push
or pull. `BestRun` leaves out these tasks, until they are moved or run, and those
behind them; Findings has the list.

Simplified: all active CPUs are in one root domain; tasks of lower classes are one
anonymous class; throttling is in `RtBandwidth`; migration of a running task to a new
mask is in `SmpSched`, so a task on a CPU keeps that CPU in its mask.

### `DomainTree` and `SchedDomains`

`DomainTree` is a pure translation of the construction: spans, flags, groups with
their rings, reference counts, and which slots of the allocation are left over. The
loops over CPUs are sets and functions. Until the writer attaches them its objects
are its own, so `SchedDomains` takes a whole build as one step, or as a failure:
before the root domain (`AllocationFails`), in `init_rootdomain` at any of its six
allocations (`RootDomainFails`), or after any number of the group allocations
(`OverlapFails`). `work.lost` are the members of a root domain that the labels of
`init_rootdomain` forget in the partition at hand; `unbuilt` is a history variable,
the masks of the current partition whose build failed.

`mem` is the memory: a function from the objects that exist to their fields. An
object that is freed leaves its domain, so a pointer to it dangles and a second free
is seen (`fault`). The writer holds the hotplug lock and `sched_domains_mutex`; `work`
is its place: masks to detach, masks to build, CPUs to attach. Attaching a CPU is two
steps, `AttachDomain` up to the publication of `rq->sd` and the `call_rcu` of the old
domains, `UpdateTopCacheDomain` for the cached pointers. In between and before, others
read.

RCU is external. `call_rcu` records who is in a section of the right flavour
(`rcu_read_lock` for domains, `rcu_read_lock_sched` for root domains); the writer's
own section counts. When the last has left, the callback may run. Those that are
ready run together: they only drop references and free what has none, so neither
their order nor a partial batch shows a reader less memory than the whole batch does.

The CPU-set code and the CPU hotplug core are external: `PartitionSchedDomains` is
called with partitions of the active CPUs, `FallbackDomain` and the hotplug actions
ask for one domain of all active CPUs, as `cpuset_update_active_cpus` does before its
work item. The notifiers run in the order of their priorities: `cpuset_cpu_active`
before `migration_call`.

Left out: `sched_init_numa` (a topology is a constant; its masks are intersected with
the active CPUs, so keeping the masks of dead CPUs changes nothing), capacities, relax
levels and attributes, isolated CPUs, `sd_llc_size` and `sd_llc_id`.
`arch_update_cpu_topology` is the weak one and returns 0.

### `CharDev`

`Device_Open`, `Message`, `Message_Ptr` are the variables of `char-dev.c`, `refs` is
the use count of the module. The driver takes no lock: testing, incrementing and
decrementing `Device_Open` are steps of their own, with a register per process. A
text is a sequence of signed bytes of any length: `device_write` cuts it at `BUF_LEN` and
adds no zero, `IOCTL_SET_MSG` counts the zero as far as it fits (`set_msg_bytes`).
`TextLen` is where the zero is, or `BUF_LEN` if there is none (`Terminated` is false);
then what follows is memory of which nothing is known but that there is a zero somewhere
(`Foreign` for its bytes, after `MaxBehind` of them at most). `read` and `IOCTL_GET_MSG`
(which reads up to `GET_LEN` bytes, 99 in the code) advance `Message_Ptr`;
`IOCTL_GET_NTH_BYTE` does not, and tests no index: beyond the buffer it may answer
anything. A process in `Client` runs `main.c`: byte by byte until the zero (`AskNext`),
giving up by `exit` at a negative byte, then the whole message, then a new one; the
others make any call, with the numbers in `Indices`. `raced` is set when two processes are
past the test of `Device_Open` at once.

Simplified: a call that moves data is one step, also when a race has let two processes
in; user pointers are valid; loading and removing the module are left out.

## Runs

| Run | Instance | Distinct states | Shows |
|---|---|---|---|
| `circlist` | 4 nodes, garbage in {node, NULL} | 21 thousand | one ring in insertion order; both loops end; implements `CircQueue` |
| `classes` | 3 tasks, 2 of them workers, 4 real-time priorities, 5 system calls, renice, boosts of one task | 270 thousand | exact queues and counters, nobody lost, no missed preemption, round robin; class follows effective priority, a child has no boost, a holder never runs below its waiter |
| `cooperative` | 3 tasks, fair yields and sleeps | 240 | every task in the ring gets the CPU |
| `tick` | 3 tasks, fair ticks | violation | the tick does not share the CPU |
| `sysrq` | 3 tasks, SysRq-n | violation | the running task is put into the ring |
| `smp_wakeup` | 2 CPUs, 3 tasks, 2 of them workers, no shared cache | 928 thousand | no wakeup lost, none twice, one stack, no deadlock |
| `smp_affinity` | 2 CPUs, 2 tasks, one bound, masks {0} and {1}, push and pull, wake lists on and off, no CONFIG_PREEMPT | 2.8 million | exact queues, no deadlock, idle CPUs are told; a task never stays where it may not run; blocked tasks are not moved |
| `smp_live` | 2 CPUs, 1 task | 1070 | a wakeup is delivered |
| `rt_bandwidth` | 2 CPUs, period 3, runtime 2, limits 1 and none, 2 writes, hotplug of CPU 1 | 1.7 million | runtime conserved, no BUG_ON, throttling exact, whoever exceeds its share is throttled, a throttled queue has a timer |
| `domains` | 3 CPUs, 2 topologies, 2 partitions and the fallback, 1 reader, hotplug of CPU 2 | 490 thousand | nothing dangles or is freed twice; no domain, group or root domain leaks; root domains exact; groups cover, also for every way to connect four nodes; the partition is in force |
| `rt_push_pull` | 2 CPUs, 3 tasks, 2 real-time priorities and none, masks {0, 1} and {1}, both builds, hotplug of CPU 1 | 953 thousand | lists, counts, masks and `cpupri` exact; tasks only where they may run; nobody waits while worse runs |
| `char_dev` | 2 processes, one of them `main.c`, a buffer of 3 bytes, texts of 0 to 4 | 114 thousand | use count exact; one process at a time; every reader gets the whole message, and goes behind it only if no zero fitted |

### Why these bounds

*Tasks.* Three are the fewest with a running task, one at the head of the ring and
one behind it, so that the head, the tail and the only node are all removed, and a
third task can come between a call and the task it is about. In `circlist` four
nodes give inner nodes on both sides of the cursor.

*Priorities and calls.* `ClassAttr` has one call for each way of crossing a class,
changing policy in a class, changing only the priority, and setting the
reset-on-fork flag, to priorities better and worse than the boost to 1; 6 stands for no
waiter, so that setting it is the deboost. One task is boosted (`Holder`), so that another can tell. In
`rt_push_pull` two priorities and three tasks give one that waits behind each kind.

*CPUs.* Two, with their two lock orders. Every CPU has a cache of its own, so wakeups
go through `wake_list`, and with `TTWU_QUEUE` off they queue directly, as they do with
a shared cache. In `rt_push_pull` system calls and wakeups come from CPU 0 (`Caller`),
which always stays on line; `RT_MAX_TRIES` is 2, one try and one retry. The build with
CONFIG_PREEMPT, in which balancing always drops its lock, is in `rt_push_pull` only: for
`smp_affinity` both builds together are 3.3 million states, beyond what a run should
take (`PREEMPT = {TRUE, FALSE}` in its cfg checks them).

*Bandwidth.* With runtime 2 of 3 a loan can hit the cap at the period (the other
branch of `do_balance_runtime`), spare time is halved with a rest, a step of 3 exceeds
every share but the whole period. Two writes are the fewest that lift the limit and
set it again, or that follow a refused one. `MAX_TIME` bounds `rt_time` at one period.
`MOD` is large enough for the sums of both CPUs and small enough to see wrapping.

*Device.* Texts are empty, shorter than the buffer, with a zero inside, with a negative
byte, as long as the buffer, and longer. Reads of 1, 2 and `GET_LEN` = 4 bytes end
inside, at and beyond the end of the message, and of the buffer of 3. `Indices` has the
first byte, the last and one behind. `MaxBehind` = 2 is enough for a reader to go on behind
the buffer in a second call.

*Domains.* Three CPUs are the fewest with two groups of different size. `Package` has a
level that is pruned from the middle of the chain and shared groups; `Line` has
overlapping groups, domains of unequal depth, and a level pruned at the bottom. The
partitions split the CPUs, leave one out, and share no mask. Two names for builds
(`Builds`) let old and new objects exist together; a build that finds none free fails,
as for lack of memory. The reader looks at CPU 1 (`Watched`), whose groups belong to
CPU 0 in one topology and which is in the middle of the other. Four nodes are the fewest
in which domains overlap without one of them being near to all, or have three distances;
the life of four CPUs is beyond a run, so for the connected graphs of four nodes
(`Samples`, with hops as distances) the domains are built and pruned as by
`cpu_attach_domain`, and `DomainsWellFormed` looks at the result. A partition starts
after the callbacks that are ready have run, which bounds what piles up.

Deadlock checking is on in every run.

Some properties have an exception, by a history variable that is set where the code gives
the promise up: `settled` and `unwatched` in `RtBandwidth`, `missed` in `RtPushPull`,
`raced` in `CharDev`, `unbuilt` in `SchedDomains`; and by what is plain in the state:
stale readers and the two lost members in `SchedDomains`, a message without a zero in
`CharDev`. Findings says what happens there.

`BudgetKept` is about steps. A queue is `Overdrawn` if it has used more than its share, is
not throttled, and no `update_curr_rt` is between charging it and the end of
`sched_rt_runtime_exceeded`. Only two steps make a queue overdrawn: a CPU that leaves
reclaims what it lent, or a new limit is shared out. So whoever charges too much throttles
or has borrowed enough when it is through, though it dropped the lock on the way; and it
throttles only a queue that is over its share. `NotLeftWanting` and `RuntimeConserved`
are promised while the shares are settled only.

### Fairness

* `circlist`: a loop goes on until it ends.
* `cooperative`: tasks that run go on to yield or sleep, and the CPU acts on
  need-resched. The first is an assumption about programs, not about the kernel;
  that it is necessary is what `tick` shows.
* `tick`: what the kernel guarantees: ticks arrive and need-resched is acted upon.
* `smp_live`: CPUs do not stop; spinlocks are tickets, so a CPU that keeps finding
  a lock free gets it; a pending interrupt is delivered to a CPU that keeps
  enabling interrupts. Hence strong fairness on the sections of each CPU. Wakers
  and preemption of tasks by interrupts are not fair: nothing obliges them.

## Proved

In `CircListProofs`, `RoundRobinProofs`, `RtBandwidthProofs`, `SmpSchedProofs`,
`SmpSchedDeepProofs`, `RtPushPullProofs`, `CharDevProofs`; every result holds for every
value of the constants that the module's ASSUMEs allow. Those say that sizes are positive,
names differ and inputs are of their types; beyond that, `RtBandwidth` assumes that
runtimes of all CPUs fit into `MOD`, and `CharDev` has the bound `MaxBehind` on what lies
behind its buffer. In each module an invariant `IInv` is shown to hold initially and to be kept by
every action, one lemma per action, and the theorems follow from it.

**`CircListProofs`**, for any set of nodes and any initial pointers.

* `TypeCorrect`, `RingCorrect`, `CursorCorrect`: the types, the ring (`RingIsQueue`,
  which `circlist` also checks), and that the loops never leave it.
* `FifoRefinement`: `circlist.c` implements `CircQueue`.

The inductive invariant is `TypeOK`, `q \in Seq(Node)`, `RingIsQueue` and
`CursorOnRing` together. None of them is inductive alone: the ring is preserved by
an unlinking only because the cursor is on the node that is removed, and the cursor
stays on the ring only because the pointers it follows are the ring. The two lemmas
for actions that change pointers split on the position of the node, and each shows what
the successor and predecessor of every position become. `AppendFacts` and
`WithoutFacts` state what the two operations do to a sequence. The refinement follows
from the invariant before and after a step, with `q`, `head` and `count` for `q`,
`first` and `len`.

**`RoundRobinProofs`**, for any set of tasks, which may be infinite (that the
run queue is finite is part of the invariant), any priorities, any calls and boosts.

* `NoListFaultCorrect`, `RingExactCorrect`, `RtQueuesExactCorrect`,
  `RunnableIsQueuedCorrect`, `ReschedPendingCorrect`, `ClassFollowsPrioCorrect`,
  `NoInversionCorrect`: every invariant that `classes` checks, and `TypeCorrect`.
* `OldestFirstCorrect`: its action property, the order of the ring.

`BooksExact(r, t, Q, c)` says that ring, lists, bitmap and counters of `r` are those of
the tasks `Q` with attributes `t`, of which `c` is kept out of the ring because it runs.
`Q` is a parameter because the classes are called in states in which their books do not
go with `on_rq`: in the middle of `activate_task`, between the `dequeue_task` and the
`enqueue_task` of a change of class, between `put_prev_task` and `set_curr_task`. The
lemmas follow the code from the inside out: each method of the two classes takes books
of `Q` to books of `Q` with or without the task; `Activate`, `Deactivate`, `Switch`
and `ChangeClass` compose them; then the actions. `AttrExact` (effective and normal
priority, policy and class agree) is about every `task_struct`, free ones too, since
fork fills them by copying. `BoostsExact` is needed for `ClassFollowsPrio`: when
`sched_setscheduler` leaves a boosted task at its priority, its class stays right only
because the boost is a real one; it also says that a child that has not run yet has none,
which `sched_fork` has to see to, since it copies the attributes of its parent.

What an operation does to the order of the ring goes along with the books: it leaves the
ring alone, appends a task or takes one out. A switch appends the previous task and takes
out the head; a change of attributes takes out and appends one task at most, the one whose
attributes change; the current task is not in the ring, so blocking and exiting do not
touch it. `OrderAppend`, `OrderDelete` and `OrderTrans` put these together to
`KeepsOrder`, which is stated by positions (`Ahead`) because nothing can be proved about a
filtered sequence of every length. Two things about the model came out of the proof: the
cases of `check_preempt_curr` overlapped, and `NoInversion` is about real-time waiters
only (see Findings).

**`RtBandwidthProofs`**, for any number of CPUs, any period, limits and number of
writes.

* `RuntimeConservedCorrect`, `NotLeftWantingCorrect`, both while the shares are settled,
  `ThrottleEffectiveCorrect`, `ThrottledIsServedCorrect`, and `TypeCorrect`.

`SharesExact` is the heart: outside an operation the runtimes add up to the shares;
while a CPU leaves, those of the others add up to their shares and what it still
`want`s, and the CPUs it has already visited have nothing left to give. With no CPU
left to visit the sum is 0 and so is `want`, which is the `BUG_ON`. A sum over a set has
no recursion here: `Total` counts units of runtime, as pairs of a CPU and a number, and
`TotalSplit` takes one CPU out of it. `ActorsExact` says who holds which lock,
`QueuesExact` is `ThrottleEffective` strengthened to the middle of an operation,
`Watched` names the CPUs the timer's handler has not passed yet. The assumption on `MOD`
says that 64 bits hold the runtimes of all CPUs, twice.

**`SmpSchedProofs`**, for any number of CPUs, tasks and workers,
any masks and caches, with and without CONFIG_PREEMPT and with wake lists on or off.

* `OneStackHolds`, `QueueExactHolds`, `WakingExactHolds`, and `SmpTypesHold`.

The invariant has two layers. `Core` is about a CPU and its locks: `FrameOK` says what
the frame of a CPU holds at each place, `RqLocks` and `HoldsPi` which locks it has
there, and since a lock has one holder this is what excludes the others. `Places` is
about the tasks: who is `on_cpu` is on exactly one stack (`StacksExact`), who is waking
is borne by somebody (`WakingOK`) and lists hold only such tasks (`ListsExact`), and
`Relies` is what a CPU in the middle of an operation has seen and must still find: a
waker past `ttwu_on_rq` that the task is not waking already, one past the wait for
`on_cpu` that it is off every queue, a mover that the task is between two queues, a
pusher that its task is still queued and not running. Each of these is protected by a
lock the CPU holds, which `Core` knows; that is why the two have to be proved together.
`MayBlock` is the one exception to "the current task is queued": between its dequeue in
`__schedule` and the pick it is not, although the lock may have been dropped in between
by a push or by `try_to_wake_up_local`. `WorkersStay` is needed because the latter wakes
a task on this CPU without asking for its mask. A step that moves no task keeps `Places`
if the new frame is `Calm`; a step that moves one has to be looked at for that task and
for the CPUs that have it in their frames (`Others`, `Suits`, `OneTaskInv`).

**`SmpSchedDeepProofs`**, on top of `SmpSchedProofs`, for the same constants.

* `NoLostWakeupHolds`, `WakeListServedHolds`, `IdleIsToldHolds`,
  `AffinityEnforcedHolds`, the action property `BlockedStaysHolds`, and
  `NoDeadlockHolds`: with the four above, every safety property that the runs of
  `SmpSched` check.

The inductive invariant `Deep` is `IInv` and four parts. `Sleepers`: a task that is
going to sleep, or has yet to test its CONDITION, is still on its CPU unless it was
preempted, and once it has tested a true CONDITION has a waker; `NoLostWakeup` is the
last clause for tasks that are off the queue, and is lost without the first two, which
say that between `set_current_state` and the test nobody else can take it off.
`Idlers`: the idle loop polls or halts outside `__schedule` only, a halted CPU whose flag
is set has an interrupt coming, and an idle CPU with a task on its queue has the flag
from the time it has picked the idle task on; until then, after a push or a pull that
dropped the lock, it need not, since it is still to look at the queue. `Owners` is the
converse of what `Core` says of locks: a lock that is held is held by a CPU that is in a
place where it holds it. `Placed`: what `AffinityEnforced` says, with the stopper's hands
made precise, and that a push, a pull or a wakeup on its way aims at a CPU of the mask.
`DeepStep(c)` says what a step of CPU `c` may do to each part; `SleepKept`, `IdleKept`,
`OwnKept` and `PlaceKept` show that such a step keeps it, and then there is one lemma per
action that says it is such a step. `BlockedStays` is one of the clauses of `SleepStep`.

`NoDeadlock` needs no more than that with a rank. A CPU that waits for a `pi_lock` has
rank 0, one that spins on `p->on_cpu` 1, one in `try_to_wake_up_local` that waits for a
`pi_lock` with a queue unlocked 2, one that spins on TASK_ON_RQ_MIGRATING 3, one that
waits for its first queue 4, one that waits for a second one 5 and the number of that
queue. `Owners` tells in which places the CPU it waits for can be, and each of them has a
higher rank or waits for nobody. In a set of CPUs in which each waits for another one there
would be none of the greatest rank, but the ranks are bounded by the greatest CPU
(`GreatestNat`).

**`RtPushPullProofs`**, for any finite number of CPUs and tasks, any priorities, masks and
number of tries, with and without CONFIG_PREEMPT.

* `BooksExactHolds`, `AllowedHolds`, and `TypeCorrect`.

The invariant has two halves. `Books(s)` is about the state of the scheduler alone: the
queue of each CPU lists its real-time tasks, the pushable list those of them that may go
elsewhere, best first and without the running one, and the counts, `highest_prio`, `cpupri`,
`rto_mask` and `rto_count` go with them. It is a predicate on the record `s` and not on the variables because the
operators are composed: `Exact(s, c, Q, x)`, with the tasks `Q` and the one kept out of
the pushable list as parameters, is what holds inside `enqueue_task`, between the two halves
of a move, and between the dequeue and the enqueue of a change of priority. There is a lemma for
each operator, then for each composition, and each also says what it `Leaves` alone.

The other half is about CPUs in the middle of something. `Frames` gives for each place the
locks held and what has been seen: the task to be pushed is queued and not running, and its
mask has the peer, as long as the lock has not been dropped; after that only the tests
of `still_pushable` count, and `PushLocked` needs no more than these. A wakeup that has
chosen a CPU holds the `pi_lock`, so the mask and the choice stay, and no CPU can go while
it is on its way, since `stop_machine` waits for all. `Exclusive` and `Leaves` make a step
harmless to the others: it changes only queues it has locked and tasks of them. `AwakeAt`
is the exception that the dropped lock of `pick_next_task_rt` makes: a CPU may have a current
task that is off the queue, but only while it pulls, and then nobody may take that task for
queued. `Placed` also says of the CPUs that are off line that they run nothing. None of the parts is inductive without the others:
`Allowed` needs the frames, the frames need the books to know that what is on the pushable
list is queued here, and the books of a dying CPU need `Exclusive`.

The proof changed the model in two ways, without changing what it does: the lists
were filtered and folded with library operators about which nothing can be proved for every
length, and are now edited at a position (`Lists`); and `migrate_tasks` was one step that
folded over the tasks, and is now a step per task, as its loop is.

**`CharDevProofs`**, for any number of processes, any size of the buffer and any texts,
those that fill the buffer or are longer included.

* `ExclusiveCorrect`: the use count of the module, races or not, and for processes that
  have not raced, that one at most has the device and `Device_Open` is right.
* `ReadsWholeCorrect`, about processes that have not raced.
* `UseCountCorrect`: also, that there are finitely many users, of any set of processes.
* `TypeCorrect`: types, and `Bounded`: a reader is behind the message only while there is
  no zero in the buffer. That there always is one is not so (see Findings).

`OneUser` gives for each place in `open` and `close` the value of `Device_Open` and of
the register, and is broken by a race for good, so the exception cannot be narrower.
`ReadsExact` adds to `ReadsWhole` the loop of `main.c` on its way: it has asked for all
numbers below `i`, and has not met the zero.

**Only model-checked.**

* `BestRun` of `RtPushPull`: it holds for the masks of the runs and not for every
  instance. With three CPUs and masks of two a push gives up when the first pushable task
  has nowhere to go, even if the second has (see Findings), so there is no theorem for
  all constants.
* The invariants of `SchedDomains`: the rings of groups are followed with recursive
  functions over memory, so they are about what a recursion computes.
* `BudgetKept` of `RtBandwidth`: that a queue has borrowed enough is what a whole walk over
  the CPUs comes to; and while the shares are not settled, and while "no limit"
  comes and goes, runtimes wrap, and an invariant that bounds them again afterwards would
  have to follow each share through the wrapping.
* Liveness (`LoopsEnd`, `NoStarvation`, `WakeupDelivered`), which is out of the prover's
  reach.

## Findings

* **The tick does nothing** (`tick`). The body of `task_tick_circular` is commented
  out. `core.c:2756` says the scheduler sets the flag in `scheduler_tick()` to drive
  preemption between tasks. A task that neither yields nor sleeps keeps the CPU.
* **SysRq-n corrupts the ring** (`sysrq`). `normalize_task` enqueues the running task
  without `put_prev_task` and `set_curr_task`; `circular.c:272` says the running task
  is not kept in the list. The next switch inserts it again.

Seen while modelling, with no run of their own:

* `yield_to` of the circular class ignores its target and yields to the head.
* The period timer of the real-time bandwidth can be lost: a task enqueued on a CPU
  the handler has passed sees an active timer (`rt.c:54`), and the handler returns
  without restarting it. A CPU throttled after that stays so until another real-time
  task is enqueued somewhere. Likewise nobody starts the timer when a limit is set
  while there was none and real-time tasks are already queued. `ThrottledIsServed`
  shows that there is no third way.
* `sched_rt_handler` gives every CPU its new share before the deadline constraints may
  refuse, and the undo leaves the shares changed; a CPU that then goes off line may
  find its loan gone, which is what `BUG_ON(want)` is about. A CPU that is off line when
  a limit is written gets a share too, from which others borrow and which
  `__enable_runtime` makes anew. While the value is "no limit", `do_balance_runtime` can
  add to an unlimited share, which wraps.
* `sched_dl_global_constraints` compares the bandwidth of one CPU with `total_bw` of a
  whole root domain. `dl_overflow` (`core.c:2091`) returns early when the new bandwidth
  equals `p->dl.dl_bw`, also for a task that has left SCHED_DEADLINE and comes back with
  the same parameters: `total_bw` is not increased, and is decreased when it leaves.
* Real-time tasks that wait although a CPU is free for them (`missed`): when a waiting
  task gets a better priority or a larger mask nobody pushes it; a CPU that comes on line
  pulls nothing, as the idle task counts as better than any queue in
  `need_pull_rt_task`; `switched_from_rt` and tasks moved off a dying CPU push nobody;
  when `prio_changed_rt` pulls, drops the lock, and its task goes to sleep meanwhile,
  the pulled task sits on an idle CPU that is not told. With three CPUs and
  masks of two, which the instance has not, there is one more: a push gives up when the
  first pushable task has nowhere to go, even if the second has.
* A task with a better priority than its top waiter that is given a worse one than the
  waiter by `sched_setscheduler` keeps the better one until the waiter leaves:
  `rt_mutex_check_prio` (`core.c:3653`) compares the new priority with the waiter, not
  with the priority the task has. `NoInversion` allows this; it is the other direction
  that would hurt.
* The boost by a waiter that is not real-time does not outlive a `set_user_nice` of the
  holder: `effective_prio` (`core.c:987`) keeps the priority only of a task that is in
  the real-time range, and otherwise takes the new normal priority. `NoInversion` is therefore about real-time waiters; the proof needs
  the restriction.
* A reader whose section begins between the attachments of two CPUs of one mask can
  walk the ring of groups into one that is freed before its section ends: a group is
  counted by the domains whose own it is, and the domain that owns the next group may
  have been given to `call_rcu` before the section began. `NoUseAfterFree` therefore
  promises the whole ring only to sections that began outside such a loop.
* Between `destroy_sched_domains` and `update_top_cache_domain` the cached pointers lead
  to domains that RCU is already waiting to free; a section that begins there is not
  waited for. The model marks such readers stale.
* `partition_sched_domains` remembers a partition of which a build failed, so asking for
  it again does nothing. If the failed build is that of CPU_DOWN_FAILED, the run queue of
  an active CPU stays off line.
* `init_rootdomain` (`core.c:5632`) leaks when its last allocations fail: after a failing
  `cpudl_init` it jumps to `free_dlo_mask` and leaves `rto_mask` (5646), after a failing
  `cpupri_init` it frees the masks and leaves what `cpudl_init` allocated (5649).
  `NoLeak` shows that nothing else is lost, whichever allocation of a build fails.
* In a ring or a line of four nodes, the first group of an overlapping domain need not hold
  the span of the domain below. In the ring, CPU 1 has {0, 1, 2} below and {1, 2, 3} as its first
  group: `build_overlap_sched_groups` (`core.c:5951`) takes the first group that has the CPU
  of the domain in it, or a later one whose balance CPU it is, and does not ask for the child.
  In a line of four, where there are three distances, the groups of an overlapping domain
  reach beyond its span, which `sched_domain_debug` would report ("groups don't span
  domain->span"). These are the only two of the tests in `DomainsWellFormed` that a
  connected graph of four nodes fails; it makes the first for domains that do not overlap,
  the second unless there are more than two distances.
* `device_write` of the character device fills the buffer to the last byte
  (`char-dev.c:122`), and so does `IOCTL_SET_MSG` (168). Then no zero ends the message and
  `device_read` and the loop of `main.c` go on in whatever lies behind it;
  `IOCTL_GET_NTH_BYTE` (190) takes any index. `main.c` takes a negative byte for an error
  and gives up. `ReadsWhole` shows that a reader goes behind the message in no other case.
* Two overlapping calls of `open` on the character device both succeed, although
  `char-dev.c` wants one process at a time; the count they leave may be 1 with nobody
  holding the device, which is then busy for good. `IOCTL_SET_MSG` with an empty text
  leaves the old message, and `write` does not terminate what it stores, so the tail of
  a longer message shows behind a shorter one.
* `main.c` of the device has a Unicode minus sign and does not compile as it is. The
  `/proc` file (`procfs1.c`) never advances the offset, so a reader that asks again gets
  the text again.

## Not modelled

* SCHED_DEADLINE, the stop, idle and fair classes, `cpupri`, `rtmutex.c`: their
  code is not in the repository. What `core.c` needs of them is part of the models.
* Task groups (`CONFIG_*_GROUP_SCHED`), statistics, clocks, `/proc` output,
  tracing: no state of the properties above.
* Weak memory.
* Admission of deadline tasks: `dl_overflow` and `__dl_clear_params` are here, but who
  calls the counterpart when a task leaves the class is in `deadline.c`.
* The `/proc` module (a constant text, and a buffer that is written and never read), the
  kretprobe (a time stamp per instance, instances are handed out by the kernel), tracing
  scripts and user-space samples: no state of their own that two steps could disagree on.

## Plan

In this order; the first items carry the most important behaviour left.

1. **Proofs.** Every safety property of `SmpSched` and two of the three of `RtPushPull`
   are proved; left are the root domains of `SchedDomains` (their memory is freed by
   folds and recursive walks of rings in the RCU callbacks, which would have to be one
   step per element first), and `RoundRobin` using its ring as `CircQueue`.
2. **More of SMP.** `migrate_swap` (lock order of two queues and two tasks), the choice of
   a CPU at fork and exec, hotplug with the wake lists of `SmpSched`.
3. **More of domains.** An abstract specification (each CPU has the domains of one of
   the last two partitions) and its refinement by `SchedDomains`; isolated CPUs; the
   readers that the remarks above exclude, as a question of its own.
4. **Push and pull, eventually.** Abstract specification: the n best tasks run on n CPUs,
   once nothing changes any more.
5. **Clocks and unlocked reads.** `skip_clock_update`; the reset-on-fork flag that
   `sched_setparam` reads before the lock.
