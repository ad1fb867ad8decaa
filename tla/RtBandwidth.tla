---------------------------- MODULE RtBandwidth ----------------------------
(***************************************************************************)
(* Real-time bandwidth (rt.c, CONFIG_SMP, without task groups): each CPU   *)
(* may run real-time tasks for rt_runtime of every period; a CPU that has  *)
(* used up its share borrows from the others, and is throttled until the   *)
(* period timer gives it time again when it cannot.  A CPU that goes off   *)
(* line takes back what it lent and returns what it borrowed.  Writing     *)
(* sched_rt_runtime_us gives all of them a new share (core.c).             *)
(*                                                                         *)
(* Three locks: rq->lock of a CPU, held through an operation on its queue; *)
(* the lock of the shared bandwidth, held while runtime moves between      *)
(* CPUs; the lock of each rt_rq, held for one step here, and dropped by    *)
(* balance_runtime() half-way.  Time is counted in units.                  *)
(***************************************************************************)
EXTENDS Integers, FiniteSets, FiniteSetsExt

CONSTANTS
    CPU,            \* the CPUs, numbered; all of them in rd->span
    Pluggable,      \* those that may go off line: not the boot CPU
    PERIOD,         \* def_rt_bandwidth.rt_period
    RUNTIME,        \* def_rt_bandwidth.rt_runtime at boot
    Limits,         \* the values written to sched_rt_runtime_us
    Deltas,         \* the times between two updates
    MAX_TIME,       \* bound on rt_time
    MAX_TASKS,      \* bound on the real-time tasks of a CPU
    MAX_OVERRUN,    \* bound on the periods the timer is late
    MAX_WRITES,     \* bound on the number of changes of the limit
    MOD,            \* runtimes are unsigned, 0 .. MOD - 1
    TIMER,          \* the handler of the period timer
    NONE            \* lock not held

ASSUME BandwidthAssumption ==
    /\ CPU \subseteq Nat /\ IsFiniteSet(CPU)
    /\ Pluggable \subseteq CPU /\ Pluggable # CPU
    /\ PERIOD \in Nat /\ RUNTIME \in 1 .. PERIOD
    /\ Deltas \cup {MAX_TIME, MAX_TASKS, MAX_OVERRUN, MAX_WRITES} \subseteq Nat \ {0}
    /\ Limits \subseteq 1 .. PERIOD \cup {MOD - 1}
    /\ MOD \in Nat /\ MOD > 2 * Cardinality(CPU) * (PERIOD + MAX_TIME)
    /\ {TIMER, NONE} \cap Int = {} /\ TIMER # NONE

INF == MOD - 1      \* RUNTIME_INF

VARIABLES
    rt_rq,      \* struct rt_rq of each CPU, and what its struct rq is doing
    rt_b_lock,  \* who holds def_rt_bandwidth.rt_runtime_lock
    timer,      \* rt_period_timer: off, on, or its handler is running
    at,         \* what each CPU, and the handler, is in the middle of
    limit,      \* def_rt_bandwidth.rt_runtime
    sysctl,     \* sysctl_sched_rt_runtime, and the progress of its handler
    settled,    \* history: do the shares of the CPUs go with limit?
    unwatched   \* history: did tasks come, or stay, while the timer was stopping
                \* or was not wanted?

vars == <<rt_rq, rt_b_lock, timer, at, limit, sysctl, settled, unwatched>>
others == <<limit, sysctl, settled, unwatched>>

Actor == CPU \cup {TIMER}

\* An actor outside of all operations.  In one, q is the queue whose rq->lock
\* it holds and scan the CPUs its loop has still to visit; todo are the CPUs
\* of the outer loop of the timer.
Idle == [pc |-> "idle", q |-> NONE, scan |-> {}, todo |-> {}, want |-> 0,
         overrun |-> 0, idle |-> TRUE, throttled |-> FALSE]

TypeOK ==
    /\ rt_rq \in [CPU -> [time : Nat, runtime : 0 .. MOD - 1,
                          throttled : BOOLEAN, nr : 0 .. MAX_TASKS,
                          queued : BOOLEAN, curr : BOOLEAN,
                          resched : BOOLEAN, online : BOOLEAN]]
    /\ rt_b_lock \in Actor \cup {NONE}
    /\ timer \in {"off", "on", "run"}
    /\ at \in [Actor -> [pc : {"idle", "bal_lock", "bal", "exceeded", "timer",
                               "replenish", "reclaim", "disable"},
                         q : CPU \cup {NONE}, scan : SUBSET CPU, todo : SUBSET CPU,
                         want : Int, overrun : Nat, idle : BOOLEAN,
                         throttled : BOOLEAN]]
    /\ limit \in 0 .. MOD - 1 /\ unwatched \in BOOLEAN
    /\ sysctl \in [pc : {"idle", "stored", "shared"}, value : 0 .. MOD - 1,
                   old : 0 .. MOD - 1, writes : 0 .. MAX_WRITES]
    /\ settled \in {"yes", "no", "pending"}

Init ==
    /\ rt_rq = [c \in CPU |->
                 [time |-> 0, runtime |-> RUNTIME, throttled |-> FALSE,
                  nr |-> 0, queued |-> FALSE, curr |-> FALSE,
                  resched |-> FALSE, online |-> TRUE]]
    /\ rt_b_lock = NONE
    /\ timer = "off"
    /\ at = [a \in Actor |-> Idle]
    /\ limit = RUNTIME
    /\ sysctl = [pc |-> "idle", value |-> RUNTIME, old |-> RUNTIME,
                 writes |-> 0]
    /\ settled = "yes" /\ unwatched = FALSE

RqFree(c) == \A a \in Actor : at[a].q # c

Finite(r) == r.runtime # INF

\* Arithmetic of u64, and the value of an s64.
Wrap(n) == n % MOD
Signed(n) == IF n >= MOD \div 2 THEN n - MOD ELSE n

rt_bandwidth_enabled == sysctl.value # INF

\* enqueue_top_rt_rq() after dequeue_top_rt_rq(): do the tasks count?
requeue_top_rt_rq(r) == [r EXCEPT !.queued = r.nr > 0 /\ ~ r.throttled]

\* sched_rt_rq_enqueue().
sched_rt_rq_enqueue(r) ==
    IF r.nr = 0 THEN r
    ELSE [r EXCEPT !.queued = @ \/ ~ r.throttled, !.resched = TRUE]

(***************************************************************************)
(* Tasks come and go                                                       *)
(***************************************************************************)

\* The timer is started unless it is active, which it is while its handler runs.
start_rt_bandwidth ==
    LET wanted == rt_bandwidth_enabled /\ limit # INF IN
    \/ /\ wanted /\ timer = "off" /\ rt_b_lock = NONE
       /\ timer' = "on" /\ unwatched' = FALSE
    \/ /\ ~ wanted \/ timer # "off"
       /\ unwatched' = (unwatched \/ timer = "run" \/ timer = "off")
       /\ UNCHANGED timer

\* enqueue_task_rt(), and the preemption of what is not a real-time task.
Enqueue(c) ==
    LET r == requeue_top_rt_rq([rt_rq[c] EXCEPT !.nr = @ + 1]) IN
    /\ RqFree(c) /\ rt_rq[c].online /\ rt_rq[c].nr < MAX_TASKS
    /\ rt_rq' = [rt_rq EXCEPT ![c] = [r EXCEPT !.resched = @ \/ (r.queued /\ ~ r.curr)]]
    /\ start_rt_bandwidth
    /\ UNCHANGED <<rt_b_lock, at, limit, sysctl, settled>>

\* dequeue_task_rt(): the running task sleeps and the CPU switches, or a
\* waiting one is taken away.
Dequeue(c) ==
    LET r == requeue_top_rt_rq([rt_rq[c] EXCEPT !.nr = @ - 1]) IN
    /\ RqFree(c) /\ rt_rq[c].nr > 0
    /\ \/ /\ r.curr
          /\ rt_rq' = [rt_rq EXCEPT ![c] = [r EXCEPT !.curr = r.queued, !.resched = FALSE]]
       \/ /\ r.curr => r.nr > 0
          /\ rt_rq' = [rt_rq EXCEPT ![c] = r]
    /\ UNCHANGED <<rt_b_lock, timer, at, others>>

\* __schedule(): real-time tasks go first, unless they do not count.
Schedule(c) ==
    /\ RqFree(c) /\ rt_rq[c].resched
    /\ rt_rq' = [rt_rq EXCEPT ![c].curr = rt_rq[c].queued, ![c].resched = FALSE]
    /\ UNCHANGED <<rt_b_lock, timer, at, others>>

(***************************************************************************)
(* update_curr_rt()                                                        *)
(***************************************************************************)

\* Mutant of sched_rt_runtime_exceeded(): the task is preempted, but rt_throttled
\* is not set.
NeverThrottles(r) == [r EXCEPT !.queued = FALSE, !.resched = TRUE]

\* The end of sched_rt_runtime_exceeded(), for limits other than 0.
exceeded(r) == [r EXCEPT !.throttled = TRUE, !.queued = FALSE, !.resched = TRUE]

\* The running task is charged; if that is too much, runtime is sought
\* elsewhere.
UpdateCurr(c, delta) ==
    LET r == [rt_rq[c] EXCEPT !.time = @ + delta]
        over == ~ r.throttled /\ r.runtime < PERIOD /\ r.time > r.runtime
    IN
    /\ RqFree(c) /\ r.curr /\ r.time <= MAX_TIME
    /\ rt_bandwidth_enabled /\ Finite(r)
    /\ rt_rq' = [rt_rq EXCEPT ![c] = [r EXCEPT !.resched = @ \/ r.throttled]]
    /\ \/ over /\ at' = [at EXCEPT ![c].pc = "bal_lock", ![c].q = c]
       \/ ~ over /\ UNCHANGED at
    /\ UNCHANGED <<rt_b_lock, timer, others>>

\* With rt_rq locked again: was it enough?
Exceeded(c) ==
    LET r == rt_rq[c] IN
    /\ at[c].pc = "exceeded"
    /\ rt_rq' = [rt_rq EXCEPT ![c] = IF Finite(r) /\ r.time > r.runtime
                                     THEN exceeded(r) ELSE r]
    /\ at' = [at EXCEPT ![c] = Idle]
    /\ UNCHANGED <<rt_b_lock, timer, others>>

(***************************************************************************)
(* do_balance_runtime(), for a CPU or for the timer                        *)
(***************************************************************************)
BalanceLock(a) ==
    /\ at[a].pc = "bal_lock" /\ rt_b_lock = NONE
    /\ rt_b_lock' = a
    /\ at' = [at EXCEPT ![a].pc = "bal", ![a].scan = CPU]
    /\ UNCHANGED <<rt_rq, timer, others>>

\* What mine and iter have after mine took 1/n of the spare time of iter.
take_spare(mine, iter) ==
    LET part == Wrap(iter.runtime - iter.time) \div Cardinality(CPU)
        diff == IF Wrap(mine.runtime + part) > PERIOD THEN PERIOD - mine.runtime ELSE part
    IN  <<[mine EXCEPT !.runtime = Wrap(@ + diff)], [iter EXCEPT !.runtime = Wrap(@ - diff)]>>

\* Where the caller of balance_runtime() goes on.
AfterBalance(a) == IF a = TIMER THEN "replenish" ELSE "exceeded"

BalanceStep(a) ==
    LET c == at[a].q
        i == Min(at[a].scan)
        lends == i # c /\ Finite(rt_rq[i]) /\ Signed(Wrap(rt_rq[i].runtime - rt_rq[i].time)) > 0
        after == take_spare(rt_rq[c], rt_rq[i])
        full == lends /\ after[1].runtime = PERIOD
        rest == IF full THEN {} ELSE at[a].scan \ {i}
    IN
    /\ at[a].pc = "bal"
    /\ rt_rq' = IF lends THEN [rt_rq EXCEPT ![c] = after[1], ![i] = after[2]]
                ELSE rt_rq
    /\ at' = [at EXCEPT ![a].scan = rest,
                        ![a].pc = IF rest = {} THEN AfterBalance(a) ELSE @]
    /\ rt_b_lock' = IF rest = {} THEN NONE ELSE a
    /\ UNCHANGED <<timer, others>>

(***************************************************************************)
(* sched_rt_period_timer()                                                 *)
(***************************************************************************)

\* The timer expires, or has expired again when the handler looks.
TimerFires(overrun) ==
    /\ timer = "on" \/ (timer = "run" /\ at[TIMER].pc = "timer" /\ at[TIMER].todo = {})
    /\ timer' = "run"
    /\ at' = [at EXCEPT ![TIMER] = [Idle EXCEPT !.pc = "timer", !.todo = CPU,
                                                !.overrun = overrun]]
    /\ UNCHANGED <<rt_rq, rt_b_lock, others>>

\* Mutant of do_sched_rt_period_timer(): rt_time wraps around.
RefillWraps(r, overrun) ==
    Wrap(overrun * r.runtime)

\* overrun * runtime, or all of it.
Refill(r, overrun) ==
    Min({r.time, Wrap(overrun * r.runtime)})

\* Mutant of do_sched_rt_period_timer(): forgets to enqueue the queue again.
ReplenishOnly(r, overrun) ==
    LET time == r.time - Refill(r, overrun)
        freed == r.throttled /\ time < r.runtime
    IN  [r EXCEPT !.time = time, !.throttled = @ /\ ~ freed]

\* The queue after its replenishment.
replenish(r, overrun) ==
    LET time == r.time - Refill(r, overrun)
        freed == r.throttled /\ time < r.runtime
        after == [r EXCEPT !.time = time, !.throttled = @ /\ ~ freed]
    IN  IF freed THEN sched_rt_rq_enqueue(after) ELSE after

\* Mutant of do_sched_rt_period_timer(): the last CPU decides.
LastDecides(c, r, busy) ==
    /\ rt_rq' = [rt_rq EXCEPT ![c] = r]
    /\ at' = [at EXCEPT ![TIMER].pc = "timer", ![TIMER].q = NONE,
                        ![TIMER].todo = @ \ {c}, ![TIMER].idle = ~ busy,
                        ![TIMER].throttled = @ \/ r.throttled]
    /\ UNCHANGED <<rt_b_lock, timer, others>>

\* The handler has finished with queue c, which is r now.
TimerVisited(c, r, busy) ==
    /\ rt_rq' = [rt_rq EXCEPT ![c] = r]
    /\ at' = [at EXCEPT ![TIMER].pc = "timer", ![TIMER].q = NONE,
                        ![TIMER].todo = @ \ {c}, ![TIMER].idle = @ /\ ~ busy,
                        ![TIMER].throttled = @ \/ r.throttled]
    /\ UNCHANGED <<rt_b_lock, timer, others>>

\* do_sched_rt_period_timer() for the next CPU.
TimerVisit ==
    LET c == Min(at[TIMER].todo)
        r == rt_rq[c]
        after == replenish(r, at[TIMER].overrun)
    IN
    /\ at[TIMER].pc = "timer" /\ at[TIMER].todo # {} /\ RqFree(c)
    /\ \/ /\ r.time > 0 /\ r.throttled /\ r.time > r.runtime
          /\ at' = [at EXCEPT ![TIMER].pc = "bal_lock", ![TIMER].q = c]
          /\ UNCHANGED <<rt_rq, rt_b_lock, timer, others>>
       \/ /\ r.time > 0 /\ ~ (r.throttled /\ r.time > r.runtime)
          /\ TimerVisited(c, after, after.time > 0 \/ r.nr > 0)
       \/ /\ r.time = 0
          /\ TimerVisited(c, IF r.throttled THEN r ELSE sched_rt_rq_enqueue(r), r.nr > 0)

TimerReplenish ==
    LET c == at[TIMER].q
        after == replenish(rt_rq[c], at[TIMER].overrun)
    IN
    /\ at[TIMER].pc = "replenish"
    /\ TimerVisited(c, after, after.time > 0 \/ after.nr > 0)

\* HRTIMER_NORESTART if there was nothing to do, or no limit any more.
TimerReturns ==
    LET f == at[TIMER]
        unwanted == ~ f.throttled /\ (~ rt_bandwidth_enabled \/ limit = INF)
    IN
    /\ f.pc = "timer" /\ f.todo = {}
    /\ timer' = IF f.idle \/ unwanted THEN "off" ELSE "on"
    /\ unwatched' = (timer' = "off" /\ (unwatched \/ unwanted))
    /\ at' = [at EXCEPT ![TIMER] = Idle]
    /\ UNCHANGED <<rt_rq, rt_b_lock, limit, sysctl, settled>>

(***************************************************************************)
(* CPUs come and go                                                        *)
(***************************************************************************)

\* Mutant of __disable_runtime(): whoever borrowed keeps it.
ReclaimOnlyLent(c) == Finite(rt_rq[c]) /\ limit > rt_rq[c].runtime

\* A CPU comes or goes while new shares wait to be accepted.
Unsettle == settled' = IF settled = "pending" THEN "no" ELSE settled

\* __disable_runtime(): is the share of c not what it started with?
unbalanced(c) == Finite(rt_rq[c]) /\ rt_rq[c].runtime # limit

\* set_rq_offline() on c.
GoOffline(c) ==
    /\ c \in Pluggable /\ rt_rq[c].online
    /\ RqFree(c) /\ rt_b_lock = NONE
    /\ rt_b_lock' = c
    /\ at' = [at EXCEPT ![c].q = c, ![c].scan = CPU,
                        ![c].want = IF unbalanced(c)
                                    THEN Signed(Wrap(limit - rt_rq[c].runtime)) ELSE 0,
                        ![c].pc = IF unbalanced(c) THEN "reclaim" ELSE "disable"]
    /\ Unsettle
    /\ UNCHANGED <<rt_rq, timer, limit, sysctl, unwatched>>

\* Mutant of __disable_runtime(): only what r has not used yet is taken.
ReclaimSpare(r, want) ==
    IF want > 0 THEN Min({Max({r.runtime - r.time, 0}), want}) ELSE want

\* How much is taken from r: all that is there, or a gift of what is too much.
reclaimed(r, want) == IF want > 0 THEN Min({r.runtime, want}) ELSE want

\* Greedy reclaim from one more CPU.
Reclaim(c) ==
    LET i == Min(at[c].scan)
        skip == i = c \/ ~ Finite(rt_rq[i])
        diff == IF skip THEN 0 ELSE reclaimed(rt_rq[i], at[c].want)
        want == at[c].want - diff
        rest == IF want = 0 THEN {} ELSE at[c].scan \ {i}
    IN
    /\ at[c].pc = "reclaim"
    /\ rt_rq' = IF skip THEN rt_rq ELSE [rt_rq EXCEPT ![i].runtime = Wrap(@ - diff)]
    /\ at' = [at EXCEPT ![c].want = want, ![c].scan = rest,
                        ![c].pc = IF rest = {} THEN "disable" ELSE @]
    /\ UNCHANGED <<rt_b_lock, timer, others>>

\* The rest of __disable_runtime(); then migrate_tasks() moves the tasks away.
Disable(c) ==
    /\ at[c].pc = "disable"
    /\ rt_rq' = [rt_rq EXCEPT ![c].runtime = INF, ![c].throttled = FALSE,
                              ![c].nr = 0, ![c].queued = FALSE,
                              ![c].curr = FALSE, ![c].resched = FALSE,
                              ![c].online = FALSE]
    /\ at' = [at EXCEPT ![c] = Idle]
    /\ rt_b_lock' = NONE
    /\ UNCHANGED <<timer, others>>

\* set_rq_online(): __enable_runtime().
GoOnline(c) ==
    /\ RqFree(c) /\ rt_b_lock = NONE /\ ~ rt_rq[c].online
    /\ rt_rq' = [rt_rq EXCEPT ![c].runtime = limit, ![c].time = 0,
                              ![c].throttled = FALSE, ![c].online = TRUE]
    /\ Unsettle
    /\ UNCHANGED <<rt_b_lock, timer, at, limit, sysctl, unwatched>>

(***************************************************************************)
(* sched_rt_handler(): a write to sched_rt_runtime_us                      *)
(***************************************************************************)

\* proc_dointvec() stores it, for all to see.  A value that is not valid is put
\* back before it has been given to anyone.
SysctlStores(value) ==
    /\ sysctl.pc = "idle" /\ sysctl.writes < MAX_WRITES
    /\ sysctl' = [pc |-> "stored", value |-> value, old |-> sysctl.value,
                  writes |-> sysctl.writes + 1]
    /\ UNCHANGED <<rt_rq, rt_b_lock, timer, at, limit, settled, unwatched>>

\* sched_rt_global_constraints(): every possible CPU, on line or not.
GlobalConstraints ==
    /\ sysctl.pc = "stored" /\ rt_b_lock = NONE
    /\ rt_rq' = [c \in CPU |-> [rt_rq[c] EXCEPT !.runtime = sysctl.value]]
    /\ sysctl' = [sysctl EXCEPT !.pc = "shared"]
    /\ settled' = IF \E c \in CPU : ~ rt_rq[c].online THEN "no"
                  ELSE IF sysctl.value = limit THEN "yes" ELSE "pending"
    /\ UNCHANGED <<rt_b_lock, timer, at, limit, unwatched>>

\* sched_dl_global_constraints() may find that deadline tasks have more, and
\* the two values are put back, but not the shares.
DlRefuses ==
    /\ sysctl.pc = "shared"
    /\ sysctl' = [sysctl EXCEPT !.pc = "idle", !.value = sysctl.old]
    /\ Unsettle
    /\ UNCHANGED <<rt_rq, rt_b_lock, timer, at, limit, unwatched>>

\* sched_rt_do_global().
DoGlobal ==
    /\ sysctl.pc = "shared"
    /\ limit' = sysctl.value
    /\ sysctl' = [sysctl EXCEPT !.pc = "idle", !.old = sysctl.value]
    /\ settled' = IF settled = "pending" THEN "yes" ELSE settled
    /\ UNCHANGED <<rt_rq, rt_b_lock, timer, at, unwatched>>

(***************************************************************************)
(* The specification                                                       *)
(***************************************************************************)
Next ==
    \/ \E c \in CPU :
        \/ Enqueue(c) \/ Dequeue(c) \/ Schedule(c)
        \/ \E delta \in Deltas : UpdateCurr(c, delta)
        \/ Exceeded(c)
        \/ GoOffline(c) \/ Reclaim(c) \/ Disable(c) \/ GoOnline(c)
    \/ \E a \in Actor : BalanceLock(a) \/ BalanceStep(a)
    \/ \E overrun \in 1 .. MAX_OVERRUN : TimerFires(overrun)
    \/ TimerVisit \/ TimerReplenish \/ TimerReturns
    \/ \E value \in Limits : SysctlStores(value)
    \/ GlobalConstraints \/ DlRefuses \/ DoGlobal

Spec == Init /\ [][Next]_vars

(***************************************************************************)
(* Properties                                                              *)
(***************************************************************************)
Sharing == {c \in CPU : Finite(rt_rq[c])}

\* The runtime that the CPUs of S have together, counted unit by unit.
Total(rqs, S) == Cardinality(UNION {{c} \X (1 .. rqs[c].runtime) : c \in S})

\* Runtime is lent, taken back and returned, but none is made and none gets
\* lost: the CPUs that are on line have the limit each on average, whatever
\* loans were open when others left or came or the limit was changed, provided
\* that the limit in force was given to all CPUs on line, and accepted before
\* one of them left.
RuntimeConserved ==
    settled = "yes" /\ (\A c \in CPU : at[c].pc \notin {"reclaim", "disable"}) =>
        Total(rt_rq, Sharing) = limit * Cardinality(Sharing)

\* BUG_ON(want): "We cannot be left wanting - that would mean some runtime
\* leaked out of the system."  As for RuntimeConserved, the limit in force was
\* given to all CPUs and accepted: after a write that was refused, or that a CPU
\* missed, the shares do not fit the limit and BUG_ON can be reached.
NotLeftWanting ==
    settled = "yes" => \A c \in CPU : at[c].pc = "disable" => at[c].want = 0

\* The queue of a CPU is part of its run queue exactly when it has tasks and
\* is not throttled, so that no throttled task runs on and none is forgotten
\* when the throttling ends; and a CPU that runs the wrong class was told.
ThrottleEffective ==
    \A c \in CPU : LET r == rt_rq[c] IN
        RqFree(c) =>
            /\ r.queued <=> r.nr > 0 /\ ~ r.throttled
            /\ r.curr # r.queued => r.resched

\* A queue beyond its share that nobody looks at: it is not throttled, and no
\* update_curr_rt() is on its way through sched_rt_runtime_exceeded() for it.
Overdrawn(c) ==
    LET r == rt_rq[c] IN
    /\ Finite(r) /\ r.runtime < PERIOD /\ r.time > r.runtime /\ ~ r.throttled
    /\ at[c].pc \notin {"bal_lock", "bal", "exceeded"}

\* Whoever charges a queue more than its share leaves it throttled, or with enough
\* runtime borrowed, whatever other CPUs did while its lock was not held: a queue
\* is overdrawn only after another CPU that left, or a new limit, cut its share.
\* And a queue that still has its share is not throttled.
BudgetKept ==
    [][\A c \in CPU :
          /\ Overdrawn(c)' => \/ Overdrawn(c)
                             \/ GlobalConstraints
                             \/ \E d \in CPU : Reclaim(d)
          /\ rt_rq'[c].throttled /\ ~ rt_rq[c].throttled =>
                Finite(rt_rq'[c]) /\ rt_rq'[c].time > rt_rq'[c].runtime]_vars

\* A throttled queue waits for a timer that is on its way, unless the last task
\* came, or the timer stopped, while there was no limit, or the last task came
\* when the handler was about to stop the timer.
ThrottledIsServed ==
    (\E c \in CPU : rt_rq[c].throttled) => timer # "off" \/ unwatched
=============================================================================
