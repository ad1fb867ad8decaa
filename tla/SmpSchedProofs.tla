--------------------------- MODULE SmpSchedProofs ---------------------------
(***************************************************************************)
(* For any number of CPUs and tasks: which frames a CPU can be in, which   *)
(* locks it holds in them, what it relies on because of them, and that     *)
(* every step keeps all that.  What follows is that no task is executed by *)
(* two CPUs, that every task is on the queue its fields say, and that a    *)
(* task that is being woken up is in one place.                            *)
(*                                                                         *)
(* The first part has the steps that move no task, the second part those   *)
(* that move one.                                                          *)
(***************************************************************************)
EXTENDS SmpSched, SetLemmas

-----------------------------------------------------------------------------
(* The inductive invariant *)

BalPcs == {"push", "bal_try", "bal_low", "bal_high", "both"}
LocalPcs == {"local", "local_pi", "local_rq"}
MaskPcs == {"sca_pi", "sca_rq", "sca_stop"}
MigratePcs == {"mig_pi", "mig_rq"}
ListPcs == {"pending", "activate"}
SeenPcs == {"ttwu_on_rq", "remote_lock", "remote_spin", "ttwu_on_cpu"}
QueuePcs == {"ttwu_queue", "ttwu_list"}
WakePcs == {"ttwu", "ttwu_on_rq", "remote_lock", "remote_spin", "ttwu_on_cpu",
            "ttwu_queue", "ttwu_list", "ttwu_kick"}

\* Frames of sched_ttwu_pending(), and those of migration_cpu_stop().
InPending(f) == f.pc \in ListPcs \/ f.k = "pend"

Stopping(f) == f.pc \in MigratePcs \/ (InPending(f) /\ f.ret = "mig_pi")

\* The task may be off its queue already: __schedule() has dealt with it.
MayBlock(f) == f.pc \in LocalPcs \cup {"pick"} \/ (f.pc \in BalPcs /\ f.k \in {"none", "local"})

\* What the frame f of CPU c, whose current task is curr, has in its fields.
FrameOK(f, c, curr) ==
    /\ f.pc \in WakePcs \/ f.k = "ttwu" => f.w \in Task
    /\ f.pc \in LocalPcs \/ f.k = "local" => f.w \in Worker
    /\ f.pc \in MaskPcs \/ f.pc = "move_dst" \/ Stopping(f) => f.w \in Task \ Worker
    /\ f.pc \in {"remote_lock", "remote_spin", "ttwu_kick", "sca_rq", "sca_stop"} => f.r \in CPU
    /\ f.pc \in QueuePcs \/ f.pc \in BalPcs => f.r \in CPU
    /\ f.pc \in BalPcs /\ f.k # "ttwu" => f.r = c
    /\ f.pc \in BalPcs /\ f.pc # "push" => f.o \in CPU /\ f.o # f.r /\ (f.t = NONE <=> f.k = "none")
    /\ f.pc = "push" => f.k # "none" /\ f.t = NONE
    /\ f.pc \notin BalPcs => f.k = "none" /\ f.t = NONE
    /\ f.t \notin Worker
    /\ f.pc \in {"sca_stop", "move_dst"} \/ Stopping(f) => f.dst \in CPU
    /\ f.pc = "pick" \/ (f.pc \in BalPcs /\ f.k = "none") => c \notin f.scan
    /\ f.pc \in {"sca_pi", "sca_rq"} => f.scan \in Masks
    /\ f.wl # {} => InPending(f)
    /\ f.pc \in MaskPcs => curr \in Task
    /\ Stopping(f) => curr = STOP
    /\ f.pc = "switch" => f.prev # curr

\* The run queues whose locks CPU c holds in frame f, unless it has to ask; in
\* local_rq it may hold its own.
Lower(f) == IF f.o < f.r THEN f.o ELSE f.r

RqLocks(f, c) ==
    {d \in CPU : \/ f.pc \in {"local", "pick", "switch", "unlock", "activate"} /\ d = c
                 \/ f.pc \in {"push", "bal_try", "both"} /\ d = f.r
                 \/ f.pc = "both" /\ d = f.o
                 \/ f.pc = "bal_high" /\ d = Lower(f)}

\* Does it hold the pi_lock of the task f.w?
HoldsPi(f) ==
    \/ f.pc \in SeenPcs \/ f.pc \in QueuePcs
    \/ f.pc \in {"ttwu_kick", "local_rq", "sca_rq", "move_dst", "mig_rq"}
    \/ f.k \in {"ttwu", "local"}

Core ==
    /\ TypeOK
    /\ \A c \in CPU : FrameOK(at[c], c, rq[c].curr)
    /\ \A c \in CPU : \A d \in RqLocks(at[c], c) : rq[d].lock = c
    /\ \A c \in CPU : HoldsPi(at[c]) => task[at[c].w].pi_lock = c
    /\ \A p \in Worker : task[p].allowed = {FirstCPU}
    /\ \A c \in CPU : \A work \in rq[c].stop : work[1] \notin Worker

\* Who uses a stack is marked on_cpu and bound to his CPU, and is queued there
\* as long as __schedule() has not dequeued him.
StacksExact ==
    /\ \A c \in CPU, p \in Task : p \in Stacks(c) <=> task[p].on_cpu /\ task[p].cpu = c
    /\ \A c \in CPU : rq[c].curr \in Task /\ ~ MayBlock(at[c]) => task[rq[c].curr].on_rq = "queued"

InList(c) == rq[c].wake_list \cup at[c].wl

\* Who is going to queue the waking task p.
Bears(c, p) == p \in InList(c) \/ (at[c].pc \in QueuePcs /\ at[c].w = p)

WakingOK(p) ==
    /\ task[p].state = WAKING => /\ task[p].on_rq = "no" /\ ~ task[p].on_cpu
                                 /\ \E c \in CPU : Bears(c, p)
    /\ task[p].state = RUNNING => task[p].on_rq # "no"

ListsExact ==
    \A c \in CPU : /\ \A p \in InList(c) : task[p].state = WAKING /\ task[p].cpu = c
                   /\ rq[c].wake_list \cap at[c].wl = {}

\* What CPU c in frame f relies on, because of the locks it holds.
Relies(f, c) ==
    /\ f.pc \in SeenPcs => task[f.w].state # WAKING
    /\ f.pc = "ttwu_on_cpu" => task[f.w].on_rq = "no"
    /\ f.pc \in QueuePcs => /\ task[f.w].state = WAKING /\ task[f.w].cpu = f.r
                            /\ \A d \in CPU : f.w \notin InList(d)
    /\ f.pc = "move_dst" => task[f.w].on_rq = "migrating" /\ task[f.w].cpu = f.dst
    /\ f.pc \in {"bal_try", "both"} /\ f.t # NONE =>
          f.t \in rq[f.r].queue /\ ~ task[f.t].on_cpu
    /\ f.pc \in LocalPcs \/ f.k = "local" => c = FirstCPU

WorkersStay == \A p \in Worker : task[p].cpu = FirstCPU /\ task[p].on_rq # "migrating"

Places ==
    /\ QueueExact /\ StacksExact /\ ListsExact /\ WorkersStay
    /\ \A p \in Task : WakingOK(p)
    /\ \A c \in CPU : Relies(at[c], c)

IInv == Core /\ Places

-----------------------------------------------------------------------------
(* Types and frames *)

TaskType == [state : {RUNNING, SLEEP, WAKING}, on_rq : {"no", "queued", "migrating"},
             cpu : CPU, on_cpu : BOOLEAN, pi_lock : CPU \cup {NONE},
             allowed : (SUBSET CPU) \ {{}}, cond : BOOLEAN, step : {"work", "test"},
             preempt_active : BOOLEAN]

RqType == [lock : CPU \cup {NONE}, queue : SUBSET Task, curr : Task \cup {IDLE, STOP},
           resched : BOOLEAN, idle : {"off", "polling", "halted"},
           wake_list : SUBSET Task, ipi : BOOLEAN, stop : SUBSET (Task \X CPU \X Task)]

FrameType == [pc : Pcs, w : Task \cup {NONE}, r : CPU \cup {NONE}, o : CPU \cup {NONE},
              t : Task \cup {NONE}, prev : Task \cup {IDLE, STOP, NONE},
              dst : CPU \cup {NONE}, wl : SUBSET Task, scan : SUBSET CPU,
              k : {"none", "ttwu", "pend", "post", "local"},
              ret : {"run", "lock", "mig_pi"}]

Typed == task \in [Task -> TaskType] /\ rq \in [CPU -> RqType] /\ at \in [CPU -> FrameType]

LEMMA Types == TypeOK <=> Typed
  BY DEF TypeOK, Typed, TaskType, RqType, FrameType

LEMMA TypesNext == TypeOK' <=> Typed'
  BY DEF TypeOK, Typed, TaskType, RqType, FrameType

LEMMA Names ==
    /\ NONE \notin Task /\ NONE \notin CPU /\ NONE \notin Worker
    /\ IDLE \notin Task /\ STOP \notin Task /\ IDLE # STOP /\ IDLE # NONE /\ STOP # NONE
    /\ Worker \subseteq Task /\ CPU \subseteq Nat
    /\ FirstCPU \in CPU
  <1>1. \E c \in CPU : \A d \in CPU : c <= d
    BY SmpAssumption, LeastNat
  <1>2. FirstCPU \in CPU
    BY <1>1 DEF FirstCPU
  <1> QED
    BY <1>2, SmpAssumption

LEMMA PcNames ==
    /\ "run" \in Pcs /\ "ttwu" \in Pcs /\ "ttwu_on_rq" \in Pcs /\ "remote_lock" \in Pcs
    /\ "remote_spin" \in Pcs /\ "ttwu_on_cpu" \in Pcs /\ "ttwu_queue" \in Pcs
    /\ "ttwu_list" \in Pcs /\ "ttwu_kick" \in Pcs /\ "idle_pending" \in Pcs
    /\ "pending" \in Pcs /\ "activate" \in Pcs /\ "push" \in Pcs /\ "bal_try" \in Pcs
    /\ "bal_low" \in Pcs /\ "bal_high" \in Pcs /\ "both" \in Pcs /\ "lock" \in Pcs
    /\ "local" \in Pcs /\ "local_pi" \in Pcs /\ "local_rq" \in Pcs /\ "pick" \in Pcs
    /\ "switch" \in Pcs /\ "unlock" \in Pcs /\ "post" \in Pcs /\ "sca_pi" \in Pcs
    /\ "sca_rq" \in Pcs /\ "sca_stop" \in Pcs /\ "move_dst" \in Pcs /\ "mig_pi" \in Pcs
    /\ "mig_rq" \in Pcs
  BY DEF Pcs

\* The names of the places are small sets; they are expanded everywhere.
USE DEF BalPcs, LocalPcs, MaskPcs, MigratePcs, ListPcs, SeenPcs, QueuePcs, WakePcs,
        InPending, Stopping

LEMMA RunFrame ==
    /\ Run \in FrameType
    /\ \A c \in CPU : \A curr : FrameOK(Run, c, curr)
    /\ \A c \in CPU : RqLocks(Run, c) = {}
    /\ ~ HoldsPi(Run)
  <1>1. Run \in FrameType
    BY PcNames DEF Run, FrameType
  <1>2. \A c \in CPU : \A curr : FrameOK(Run, c, curr)
    BY Names DEF FrameOK, Run
  <1>3. \A c \in CPU : RqLocks(Run, c) = {}
    BY DEF RqLocks, Run
  <1>4. ~ HoldsPi(Run)
    BY DEF HoldsPi, Run
  <1> QED
    BY <1>1, <1>2, <1>3, <1>4

\* A step of CPU c that leaves it in frame f: the frame goes with the current task
\* and the locks, only its own or free locks change hands, no worker is unbound.
Locks(c, f) ==
    /\ \A d \in CPU : rq[d].lock \in {c, NONE} \/ rq'[d].lock = rq[d].lock
    /\ \A p \in Task : task[p].pi_lock \in {c, NONE} \/ task'[p].pi_lock = task[p].pi_lock
    /\ \A d \in RqLocks(f, c) : rq'[d].lock = c
    /\ HoldsPi(f) => task'[f.w].pi_lock = c

Keeps(c, f) ==
    /\ f \in FrameType /\ task' \in [Task -> TaskType] /\ rq' \in [CPU -> RqType]
    /\ at' = [at EXCEPT ![c] = f]
    /\ \A p \in Worker : task'[p].allowed = task[p].allowed
    /\ \A d \in CPU \ {c} : rq'[d].curr = rq[d].curr
    /\ \A d \in CPU : \A work \in rq'[d].stop : work \in rq[d].stop \/ work[1] \notin Worker
    /\ FrameOK(f, c, rq'[c].curr)
    /\ Locks(c, f)

LEMMA CoreStep ==
    ASSUME Core, NEW c \in CPU, NEW f, Keeps(c, f)
    PROVE  Core' /\ at'[c] = f /\ \A d \in CPU \ {c} : at'[d] = at[d]
  <1>1. at \in [CPU -> FrameType] /\ Typed
    BY Types DEF Core, Typed
  <1>2. at' \in [CPU -> FrameType] /\ at'[c] = f /\ \A d \in CPU \ {c} : at'[d] = at[d]
    BY <1>1 DEF Keeps
  <1>3. TypeOK'
    BY <1>2 DEF Keeps, TypeOK, TaskType, RqType, FrameType
  <1>4. ASSUME NEW d \in CPU PROVE FrameOK(at'[d], d, rq'[d].curr)
    BY <1>2 DEF Core, Keeps
  <1>5. ASSUME NEW d \in CPU, NEW e \in RqLocks(at'[d], d) PROVE rq'[e].lock = d
    <2>1. e \in CPU
      BY DEF RqLocks
    <2>2. CASE d # c
      <3>1. rq[e].lock = d
        BY <1>2, <2>2 DEF Core
      <3> QED
        BY <2>1, <2>2, <3>1, Names DEF Keeps, Locks
    <2> QED
      BY <1>2, <2>2 DEF Keeps, Locks
  <1>6. ASSUME NEW d \in CPU, HoldsPi(at'[d]) PROVE task'[at'[d].w].pi_lock = d
    <2>1. CASE d # c
      <3>1. task[at[d].w].pi_lock = d /\ at[d].w \in Task
        BY <1>2, <1>6, <2>1, Names DEF Core, HoldsPi, FrameOK
      <3> QED
        BY <1>2, <2>1, <3>1, Names DEF Keeps, Locks
    <2> QED
      BY <1>2, <1>6, <2>1 DEF Keeps, Locks
  <1>7. /\ \A p \in Worker : task'[p].allowed = {FirstCPU}
        /\ \A d \in CPU : \A work \in rq'[d].stop : work[1] \notin Worker
    BY DEF Core, Keeps
  <1> QED
    BY <1>2, <1>3, <1>4, <1>5, <1>6, <1>7 DEF Core

-----------------------------------------------------------------------------
(* Steps that move no task *)

SameTasks(u, v) ==
    \A p \in Task : /\ u[p].state = v[p].state /\ u[p].on_rq = v[p].on_rq
                    /\ u[p].cpu = v[p].cpu /\ u[p].on_cpu = v[p].on_cpu
                    /\ u[p].allowed = v[p].allowed

SameQueues(u, v) ==
    \A d \in CPU : /\ u[d].queue = v[d].queue /\ u[d].curr = v[d].curr
                   /\ u[d].wake_list = v[d].wake_list

SameStops(u, v) == \A d \in CPU : u[d].stop = v[d].stop

SameFlags(u, v) ==
    \A d \in CPU : u[d].resched = v[d].resched /\ u[d].ipi = v[d].ipi /\ u[d].idle = v[d].idle

SameLocks(u, v) == \A d \in CPU : u[d].lock = v[d].lock

Quiet(c) ==
    /\ SameTasks(task', task) /\ SameQueues(rq', rq)
    /\ \A d \in CPU \ {c} : at'[d] = at[d]

\* A quiet step: what changes is the frame f, locks and flags.
LEMMA QuietStep ==
    ASSUME Core, NEW c \in CPU, NEW f \in FrameType, at' = [at EXCEPT ![c] = f],
           task' \in [Task -> TaskType], rq' \in [CPU -> RqType],
           SameTasks(task', task), SameQueues(rq', rq), SameStops(rq', rq),
           FrameOK(f, c, rq[c].curr), Locks(c, f)
    PROVE  Core' /\ Quiet(c) /\ at'[c] = f
  <1>1. Keeps(c, f)
    BY Names DEF Keeps, SameTasks, SameQueues, SameStops
  <1> QED
    BY <1>1, CoreStep DEF Quiet

LEMMA PiLockEdit ==
    ASSUME NEW tk \in [Task -> TaskType], NEW p \in Task, NEW v \in CPU \cup {NONE}
    PROVE  LET e == [tk EXCEPT ![p].pi_lock = v]
           IN  /\ e \in [Task -> TaskType] /\ SameTasks(e, tk)
               /\ e[p].pi_lock = v /\ \A q \in Task \ {p} : e[q] = tk[q]
               /\ \A q \in Task : /\ e[q].cond = tk[q].cond /\ e[q].step = tk[q].step
                                  /\ e[q].preempt_active = tk[q].preempt_active
  <1> DEFINE y == [tk[p] EXCEPT !.pi_lock = v]
  <1>1. /\ y \in TaskType /\ y.pi_lock = v /\ y.state = tk[p].state /\ y.on_rq = tk[p].on_rq
        /\ y.cpu = tk[p].cpu /\ y.on_cpu = tk[p].on_cpu /\ y.allowed = tk[p].allowed
        /\ y.cond = tk[p].cond /\ y.step = tk[p].step /\ y.preempt_active = tk[p].preempt_active
    BY DEF TaskType
  <1>2. [tk EXCEPT ![p].pi_lock = v] = [tk EXCEPT ![p] = y]
    OBVIOUS
  <1> QED
    BY <1>1, <1>2 DEF SameTasks

LEMMA LockEdit ==
    ASSUME NEW q \in [CPU -> RqType], NEW c \in CPU, NEW v \in CPU \cup {NONE}
    PROVE  LET e == [q EXCEPT ![c].lock = v]
           IN  /\ e \in [CPU -> RqType] /\ SameQueues(e, q) /\ SameStops(e, q) /\ SameFlags(e, q)
               /\ e[c].lock = v /\ \A d \in CPU \ {c} : e[d] = q[d]
  <1> DEFINE y == [q[c] EXCEPT !.lock = v]
  <1>1. /\ y \in RqType /\ y.lock = v /\ y.queue = q[c].queue /\ y.curr = q[c].curr
        /\ y.wake_list = q[c].wake_list /\ y.stop = q[c].stop /\ y.resched = q[c].resched
        /\ y.ipi = q[c].ipi /\ y.idle = q[c].idle
    BY DEF RqType
  <1>2. [q EXCEPT ![c].lock = v] = [q EXCEPT ![c] = y]
    OBVIOUS
  <1> QED
    BY <1>1, <1>2 DEF SameQueues, SameStops, SameFlags

\* resched_curr() sets the flag, and tells the CPU unless it polls or is this one.
LEMMA ReschedFacts ==
    ASSUME NEW q \in [CPU -> RqType], NEW c \in CPU, NEW by \in CPU
    PROVE  LET e == resched_curr(q, c, by)
           IN  /\ e \in [CPU -> RqType] /\ SameQueues(e, q) /\ SameStops(e, q) /\ SameLocks(e, q)
               /\ \A d \in CPU \ {c} : e[d] = q[d]
               /\ e[c].idle = q[c].idle /\ e[c].resched /\ (q[c].ipi => e[c].ipi)
               /\ q[c].resched \/ e[c].ipi \/ c = by \/ q[c].idle = "polling"
  <1> DEFINE y == [q[c] EXCEPT !.resched = TRUE, !.ipi = @ \/ (c # by /\ q[c].idle # "polling")]
  <1>1. /\ y \in RqType /\ y.lock = q[c].lock /\ y.queue = q[c].queue /\ y.curr = q[c].curr
        /\ y.wake_list = q[c].wake_list /\ y.stop = q[c].stop /\ y.resched
        /\ y.ipi = (q[c].ipi \/ (c # by /\ q[c].idle # "polling")) /\ y.idle = q[c].idle
    BY DEF RqType
  <1>2. resched_curr(q, c, by) = IF q[c].resched THEN q ELSE [q EXCEPT ![c] = y]
    BY DEF resched_curr
  <1> HIDE DEF y
  <1>3. CASE q[c].resched
    BY <1>2, <1>3 DEF SameQueues, SameStops, SameLocks
  <1>4. CASE ~ q[c].resched
    BY <1>1, <1>2, <1>4 DEF SameQueues, SameStops, SameLocks
  <1> QED
    BY <1>3, <1>4

\* check_preempt_curr() may do that, and does if the CPU is idle.
LEMMA PreemptFacts ==
    ASSUME NEW q \in [CPU -> RqType], NEW c \in CPU, NEW p \in Task, NEW by \in CPU,
           NEW e \in check_preempt_curr(q, c, p, by)
    PROVE  /\ e \in [CPU -> RqType] /\ SameQueues(e, q) /\ SameStops(e, q) /\ SameLocks(e, q)
           /\ \A d \in CPU \ {c} : e[d] = q[d]
           /\ e[c].idle = q[c].idle /\ (q[c].ipi => e[c].ipi) /\ (q[c].resched => e[c].resched)
           /\ q[c].curr = IDLE => e[c].resched
           /\ e[c].resched => q[c].resched \/ e[c].ipi \/ c = by \/ q[c].idle = "polling"
  <1>1. e = q \/ e = resched_curr(q, c, by)
    BY Names DEF check_preempt_curr
  <1>2. q[c].curr = IDLE => e = resched_curr(q, c, by)
    BY Names DEF check_preempt_curr
  <1>3. CASE e = resched_curr(q, c, by)
    BY <1>3, ReschedFacts
  <1>4. CASE e = q /\ q[c].curr # IDLE
    BY <1>4 DEF SameQueues, SameStops, SameLocks
  <1> QED
    BY <1>1, <1>2, <1>3, <1>4

LEMMA GotoFrame ==
    ASSUME NEW g \in FrameType, NEW x \in Pcs
    PROVE  LET f == [g EXCEPT !.pc = x]
           IN  /\ f \in FrameType
               /\ f.pc = x /\ f.w = g.w /\ f.r = g.r /\ f.o = g.o /\ f.t = g.t /\ f.prev = g.prev
               /\ f.dst = g.dst /\ f.wl = g.wl /\ f.scan = g.scan /\ f.k = g.k /\ f.ret = g.ret
  BY DEF FrameType

LEMMA PickFrame ==
    ASSUME NEW c \in CPU
    PROVE  LET f == SchedulePick(c)
           IN  /\ f \in FrameType
               /\ f.pc = "pick" /\ f.w = NONE /\ f.r = NONE /\ f.o = NONE /\ f.t = NONE
               /\ f.prev = NONE /\ f.dst = NONE /\ f.wl = {} /\ c \notin f.scan /\ f.k = "none"
               /\ f.ret = "run"
               /\ \A curr : FrameOK(f, c, curr)
               /\ RqLocks(f, c) = {c} /\ ~ HoldsPi(f)
  <1> DEFINE f == SchedulePick(c)
  <1>1. /\ f \in FrameType
        /\ f.pc = "pick" /\ f.w = NONE /\ f.r = NONE /\ f.o = NONE /\ f.t = NONE
        /\ f.prev = NONE /\ f.dst = NONE /\ f.wl = {} /\ c \notin f.scan /\ f.k = "none"
        /\ f.ret = "run"
    BY PcNames DEF SchedulePick, Run, FrameType
  <1> HIDE DEF f
  <1>2. \A curr : FrameOK(f, c, curr)
    BY <1>1, Names DEF FrameOK
  <1>3. RqLocks(f, c) = {c} /\ ~ HoldsPi(f)
    BY <1>1 DEF RqLocks, HoldsPi
  <1> QED
    BY <1>1, <1>2, <1>3 DEF f

\* What the invariant says of the frame of one CPU.
LEMMA CoreFacts ==
    ASSUME Core, NEW c \in CPU
    PROVE  /\ Typed /\ at[c] \in FrameType /\ FrameOK(at[c], c, rq[c].curr)
           /\ \A d \in RqLocks(at[c], c) : rq[d].lock = c
           /\ HoldsPi(at[c]) => task[at[c].w].pi_lock = c
  BY Types DEF Core, Typed


SamePi(u, v) == \A p \in Task : u[p].pi_lock = v[p].pi_lock

\* A note in p's task_struct that says nothing of its place.
LEMMA TaskEdit ==
    ASSUME NEW tk \in [Task -> TaskType], NEW p \in Task, NEW y \in TaskType,
           y.state = tk[p].state, y.on_rq = tk[p].on_rq, y.cpu = tk[p].cpu,
           y.on_cpu = tk[p].on_cpu, y.allowed = tk[p].allowed, y.pi_lock = tk[p].pi_lock
    PROVE  LET e == [tk EXCEPT ![p] = y]
           IN  e \in [Task -> TaskType] /\ SameTasks(e, tk) /\ SamePi(e, tk)
  BY DEF SameTasks, SamePi

\* The same for a flag of a run queue.
LEMMA RqEdit ==
    ASSUME NEW q \in [CPU -> RqType], NEW c \in CPU, NEW y \in RqType,
           y.queue = q[c].queue, y.curr = q[c].curr, y.wake_list = q[c].wake_list,
           y.stop = q[c].stop, y.lock = q[c].lock
    PROVE  LET e == [q EXCEPT ![c] = y]
           IN  /\ e \in [CPU -> RqType] /\ SameQueues(e, q) /\ SameStops(e, q) /\ SameLocks(e, q)
  BY DEF SameQueues, SameStops, SameLocks

LEMMA NothingEdited ==
    /\ \A tk : SameTasks(tk, tk) /\ SamePi(tk, tk)
    /\ \A q : SameQueues(q, q) /\ SameStops(q, q) /\ SameLocks(q, q) /\ SameFlags(q, q)
  BY DEF SameTasks, SamePi, SameQueues, SameStops, SameLocks, SameFlags

\* A frame without locks.
LEMMA NoLocks ==
    ASSUME NEW c \in CPU, NEW f, RqLocks(f, c) = {}, ~ HoldsPi(f), SameLocks(rq', rq),
           SamePi(task', task)
    PROVE  Locks(c, f)
  BY DEF Locks, SameLocks, SamePi

LEMMA ScheduleRunningCore ==
    ASSUME Core, NEW c \in CPU, ScheduleRunning(c)
    PROVE  Core' /\ Quiet(c) /\ at'[c] = SchedulePick(c)
  <1>1. Typed
    BY CoreFacts
  <1>2. /\ at' = [at EXCEPT ![c] = SchedulePick(c)] /\ task' = task /\ Free(rq[c].lock)
        /\ rq' = [rq EXCEPT ![c].lock = c]
    BY DEF ScheduleRunning
  <1>3. /\ rq' \in [CPU -> RqType] /\ SameQueues(rq', rq) /\ SameStops(rq', rq)
        /\ rq'[c].lock = c /\ \A d \in CPU \ {c} : rq'[d] = rq[d]
    BY <1>1, <1>2, LockEdit, c \in CPU \cup {NONE} DEF Typed
  <1>4. Locks(c, SchedulePick(c))
    BY <1>2, <1>3, PickFrame DEF Locks, Free
  <1> QED
    BY <1>1, <1>2, <1>3, <1>4, PickFrame, NothingEdited, QuietStep DEF Typed

LEMMA IdleCore ==
    ASSUME Core, NEW c \in CPU, IdlePoll(c) \/ IdleHalt(c)
    PROVE  Core' /\ Quiet(c) /\ at' = at /\ at[c].pc = "run"
  <1>1. /\ Typed /\ at[c] \in FrameType /\ FrameOK(at[c], c, rq[c].curr) /\ at[c].pc = "run"
    BY CoreFacts DEF IdlePoll, IdleHalt
  <1>2. RqLocks(at[c], c) = {} /\ ~ HoldsPi(at[c])
    BY <1>1 DEF RqLocks, HoldsPi, FrameOK
  <1>3. PICK v \in {"polling", "halted"} : rq' = [rq EXCEPT ![c] = [rq[c] EXCEPT !.idle = v]]
    BY DEF IdlePoll, IdleHalt
  <1> DEFINE y == [rq[c] EXCEPT !.idle = v]
  <1>4. /\ y \in RqType /\ y.queue = rq[c].queue /\ y.curr = rq[c].curr
        /\ y.wake_list = rq[c].wake_list /\ y.stop = rq[c].stop /\ y.lock = rq[c].lock
    BY <1>1 DEF Typed, RqType
  <1>5. /\ rq' \in [CPU -> RqType] /\ SameQueues(rq', rq) /\ SameStops(rq', rq)
        /\ SameLocks(rq', rq)
    BY <1>1, <1>3, <1>4, RqEdit DEF Typed
  <1>6. /\ at' = [at EXCEPT ![c] = at[c]] /\ at' = at /\ task' = task
        /\ SameTasks(task', task) /\ SamePi(task', task)
    BY <1>1, NothingEdited DEF IdlePoll, IdleHalt, Typed
  <1>7. Locks(c, at[c])
    BY <1>2, <1>5, <1>6, NoLocks
  <1> QED
    BY <1>1, <1>5, <1>6, <1>7, QuietStep DEF Typed

LEMMA GotoLockCore ==
    ASSUME Core, NEW c \in CPU, Preempt(c) \/ StopperSleeps(c)
    PROVE  Core' /\ Quiet(c) /\ at'[c] = [at[c] EXCEPT !.pc = "lock"]
  <1> DEFINE f == [at[c] EXCEPT !.pc = "lock"]
  <1>1. /\ Typed /\ at[c] \in FrameType /\ FrameOK(at[c], c, rq[c].curr) /\ at[c].pc = "run"
    BY CoreFacts DEF Preempt, StopperSleeps
  <1>2. task' \in [Task -> TaskType] /\ SameTasks(task', task) /\ SamePi(task', task)
    <2>1. CASE StopperSleeps(c)
      BY <1>1, <2>1, NothingEdited DEF StopperSleeps, Typed
    <2>2. CASE Preempt(c)
      <3> DEFINE p == rq[c].curr
                 y == [task[p] EXCEPT !.preempt_active = TRUE]
      <3>1. p \in Task /\ task' = [task EXCEPT ![p] = y]
        BY <2>2 DEF Preempt
      <3>2. task[p] \in TaskType
        BY <1>1, <3>1 DEF Typed
      <3>3. /\ y \in TaskType /\ y.state = task[p].state /\ y.on_rq = task[p].on_rq
            /\ y.cpu = task[p].cpu /\ y.on_cpu = task[p].on_cpu
            /\ y.allowed = task[p].allowed /\ y.pi_lock = task[p].pi_lock
        BY <3>2 DEF TaskType
      <3> HIDE DEF y
      <3> QED
        BY <1>1, <3>1, <3>3, TaskEdit DEF Typed
    <2> QED
      BY <2>1, <2>2
  <1>3. at' = [at EXCEPT ![c] = f] /\ rq' = rq
    BY DEF Preempt, StopperSleeps, Goto
  <1>4. f \in FrameType /\ FrameOK(f, c, rq[c].curr) /\ RqLocks(f, c) = {} /\ ~ HoldsPi(f)
    BY <1>1, GotoFrame, PcNames, Names DEF FrameOK, RqLocks, HoldsPi
  <1>5. Locks(c, f)
    BY <1>2, <1>3, <1>4, NothingEdited, NoLocks
  <1> QED
    BY <1>1, <1>2, <1>3, <1>4, <1>5, NothingEdited, QuietStep DEF Typed

LEMMA IdleExitCore ==
    ASSUME Core, NEW c \in CPU, IdleExit(c)
    PROVE  Core' /\ Quiet(c) /\ at'[c] = [at[c] EXCEPT !.pc = "idle_pending"]
  <1> DEFINE f == [at[c] EXCEPT !.pc = "idle_pending"]
             y == [rq[c] EXCEPT !.idle = "off"]
  <1>1. /\ Typed /\ at[c] \in FrameType /\ FrameOK(at[c], c, rq[c].curr) /\ at[c].pc = "run"
    BY CoreFacts DEF IdleExit
  <1>2. at' = [at EXCEPT ![c] = f] /\ task' = task /\ rq' = [rq EXCEPT ![c] = y]
    BY DEF IdleExit, Goto
  <1>3. /\ y \in RqType /\ y.queue = rq[c].queue /\ y.curr = rq[c].curr
        /\ y.wake_list = rq[c].wake_list /\ y.stop = rq[c].stop /\ y.lock = rq[c].lock
    BY <1>1 DEF Typed, RqType
  <1>4. /\ rq' \in [CPU -> RqType] /\ SameQueues(rq', rq) /\ SameStops(rq', rq)
        /\ SameLocks(rq', rq)
    BY <1>1, <1>2, <1>3, RqEdit DEF Typed
  <1>5. f \in FrameType /\ FrameOK(f, c, rq[c].curr) /\ RqLocks(f, c) = {} /\ ~ HoldsPi(f)
    BY <1>1, GotoFrame, PcNames, Names DEF FrameOK, RqLocks, HoldsPi
  <1>6. Locks(c, f)
    BY <1>2, <1>4, <1>5, NothingEdited, NoLocks
  <1> QED
    BY <1>1, <1>2, <1>4, <1>5, <1>6, NothingEdited, QuietStep DEF Typed

\* Only the frame changes.
LEMMA FrameStep ==
    ASSUME Core, NEW c \in CPU, NEW f \in FrameType, at' = [at EXCEPT ![c] = f],
           task' = task, rq' = rq, FrameOK(f, c, rq[c].curr),
           \A d \in RqLocks(f, c) : rq[d].lock = c, HoldsPi(f) => task[f.w].pi_lock = c
    PROVE  Core' /\ Quiet(c) /\ at'[c] = f
  <1>1. Typed
    BY CoreFacts
  <1>2. Locks(c, f)
    BY DEF Locks
  <1> QED
    BY <1>1, <1>2, NothingEdited, QuietStep DEF Typed

\* A free pi_lock is taken.
LEMMA TakePiStep ==
    ASSUME Core, NEW c \in CPU, NEW f \in FrameType, at' = [at EXCEPT ![c] = f],
           f.w \in Task, Free(task[f.w].pi_lock), task' = [task EXCEPT ![f.w].pi_lock = c],
           rq' = rq, FrameOK(f, c, rq[c].curr), \A d \in RqLocks(f, c) : rq[d].lock = c
    PROVE  Core' /\ Quiet(c) /\ at'[c] = f
  <1>1. Typed
    BY CoreFacts
  <1>2. /\ task' \in [Task -> TaskType] /\ SameTasks(task', task)
        /\ task'[f.w].pi_lock = c /\ \A q \in Task \ {f.w} : task'[q] = task[q]
    BY <1>1, PiLockEdit, c \in CPU \cup {NONE}, ZenonT(60) DEF Typed
  <1>3. Locks(c, f)
    BY <1>2 DEF Locks, Free
  <1> QED
    BY <1>1, <1>2, <1>3, NothingEdited, QuietStep DEF Typed

\* The pi_lock that CPU c holds is released.
LEMMA DropPiStep ==
    ASSUME Core, NEW c \in CPU, NEW f \in FrameType, at' = [at EXCEPT ![c] = f],
           HoldsPi(at[c]), at[c].w \in Task, task' = [task EXCEPT ![at[c].w].pi_lock = NONE],
           rq' = rq, FrameOK(f, c, rq[c].curr), \A d \in RqLocks(f, c) : rq[d].lock = c,
           ~ HoldsPi(f)
    PROVE  Core' /\ Quiet(c) /\ at'[c] = f
  <1> DEFINE w == at[c].w
  <1>1. Typed /\ task[w].pi_lock = c
    BY CoreFacts
  <1>2. /\ task' \in [Task -> TaskType] /\ SameTasks(task', task)
        /\ \A q \in Task \ {w} : task'[q] = task[q]
    BY <1>1, PiLockEdit, NONE \in CPU \cup {NONE} DEF Typed
  <1>3. Locks(c, f)
    BY <1>1, <1>2 DEF Locks
  <1> QED
    BY <1>1, <1>2, <1>3, NothingEdited, QuietStep DEF Typed

LEMMA WakeUpProcessCore ==
    ASSUME Core, NEW c \in CPU, NEW p \in Task, WakeUpProcess(c, p)
    PROVE  Core' /\ Quiet(c) /\ at'[c] = [at[c] EXCEPT !.pc = "ttwu", !.w = p]
  <1> DEFINE f == [at[c] EXCEPT !.pc = "ttwu", !.w = p]
             y == [task[p] EXCEPT !.cond = TRUE]
             x == [rq[c] EXCEPT !.idle = IF @ = "halted" THEN "off" ELSE @]
  <1>1. /\ Typed /\ at[c] \in FrameType /\ FrameOK(at[c], c, rq[c].curr) /\ at[c].pc = "run"
        /\ task[p] \in TaskType /\ rq[c] \in RqType
    BY CoreFacts DEF WakeUpProcess, Typed
  <1>2. /\ at' = [at EXCEPT ![c] = f] /\ task' = [task EXCEPT ![p] = y]
        /\ rq' = [rq EXCEPT ![c] = x]
    BY DEF WakeUpProcess, Unhalted
  <1>3. /\ x \in RqType /\ x.queue = rq[c].queue /\ x.curr = rq[c].curr
        /\ x.wake_list = rq[c].wake_list /\ x.stop = rq[c].stop /\ x.lock = rq[c].lock
    BY <1>1 DEF RqType
  <1>4. /\ y \in TaskType /\ y.state = task[p].state /\ y.on_rq = task[p].on_rq
        /\ y.cpu = task[p].cpu /\ y.on_cpu = task[p].on_cpu
        /\ y.allowed = task[p].allowed /\ y.pi_lock = task[p].pi_lock
    BY <1>1 DEF TaskType
  <1>5. f \in FrameType /\ FrameOK(f, c, rq[c].curr) /\ RqLocks(f, c) = {} /\ ~ HoldsPi(f)
    <2>1. /\ f \in FrameType /\ f.pc = "ttwu" /\ f.w = p /\ f.t = at[c].t /\ f.k = at[c].k
          /\ f.wl = at[c].wl
      BY <1>1, PcNames DEF FrameType
    <2> HIDE DEF f
    <2> QED
      BY <1>1, <2>1, Names DEF FrameOK, RqLocks, HoldsPi
  <1> HIDE DEF f, x, y
  <1>6. /\ rq' \in [CPU -> RqType] /\ SameQueues(rq', rq) /\ SameStops(rq', rq)
        /\ SameLocks(rq', rq)
    BY <1>1, <1>2, <1>3, RqEdit DEF Typed
  <1>7. task' \in [Task -> TaskType] /\ SameTasks(task', task) /\ SamePi(task', task)
    BY <1>1, <1>2, <1>4, TaskEdit DEF Typed
  <1>8. Locks(c, f)
    BY <1>5, <1>6, <1>7, NoLocks
  <1> QED
    BY <1>2, <1>5, <1>6, <1>7, <1>8, QuietStep DEF f

LEMMA TtwuStateCore ==
    ASSUME Core, NEW c \in CPU, TtwuState(c)
    PROVE  /\ Core' /\ Quiet(c) /\ at[c].w \in Task
           /\ \/ task[at[c].w].state # SLEEP /\ at'[c] = Run
              \/ task[at[c].w].state = SLEEP /\ at'[c] = [at[c] EXCEPT !.pc = "ttwu_on_rq"]
  <1> DEFINE p == at[c].w
             f == [at[c] EXCEPT !.pc = "ttwu_on_rq"]
  <1>1. /\ Typed /\ at[c] \in FrameType /\ FrameOK(at[c], c, rq[c].curr) /\ at[c].pc = "ttwu"
        /\ p \in Task /\ Free(task[p].pi_lock) /\ rq' = rq
    BY CoreFacts DEF TtwuState, FrameOK
  <1>2. CASE task[p].state # SLEEP
    <2>1. at' = [at EXCEPT ![c] = Run] /\ task' = task
      BY <1>2 DEF TtwuState
    <2> QED
      BY <1>1, <1>2, <2>1, RunFrame, FrameStep
  <1>3. CASE task[p].state = SLEEP
    <2>1. at' = [at EXCEPT ![c] = f] /\ task' = [task EXCEPT ![p].pi_lock = c]
      BY <1>3 DEF TtwuState, Goto
    <2>2. f \in FrameType /\ f.w = p /\ FrameOK(f, c, rq[c].curr) /\ RqLocks(f, c) = {}
      BY <1>1, GotoFrame, PcNames, Names DEF FrameOK, RqLocks
    <2> HIDE DEF f
    <2>3. Core' /\ Quiet(c) /\ at'[c] = f
      BY <1>1, <2>1, <2>2, TakePiStep
    <2> QED
      BY <1>1, <1>3, <2>3 DEF f
  <1> QED
    BY <1>2, <1>3

LEMMA TtwuOnRqCore ==
    ASSUME Core, NEW c \in CPU, TtwuOnRq(c)
    PROVE  /\ Core' /\ Quiet(c) /\ at[c].w \in Task
           /\ at'[c].w = at[c].w /\ at'[c].wl = at[c].wl /\ at'[c].k = "none"
           /\ at'[c].pc = IF task[at[c].w].on_rq = "no" THEN "ttwu_on_cpu" ELSE "remote_lock"
  <1> DEFINE p == at[c].w
             x == IF task[p].on_rq = "no" THEN "ttwu_on_cpu" ELSE "remote_lock"
             f == [at[c] EXCEPT !.pc = x, !.r = task[p].cpu]
  <1>1. /\ Typed /\ at[c] \in FrameType /\ FrameOK(at[c], c, rq[c].curr)
        /\ at[c].pc = "ttwu_on_rq" /\ p \in Task /\ rq' = rq /\ task' = task
        /\ task[p].pi_lock = c
    BY CoreFacts DEF TtwuOnRq, FrameOK, HoldsPi
  <1>2. at' = [at EXCEPT ![c] = f]
    BY DEF TtwuOnRq
  <1>3. x \in {"ttwu_on_cpu", "remote_lock"} /\ x \in Pcs /\ task[p].cpu \in CPU
    BY <1>1, PcNames DEF Typed, TaskType
  <1> HIDE DEF x
  <1>4. /\ f \in FrameType /\ f.pc = x /\ f.w = p /\ f.t = at[c].t /\ f.k = at[c].k
        /\ f.wl = at[c].wl /\ f.r = task[p].cpu
    BY <1>1, <1>3 DEF FrameType
  <1> HIDE DEF f
  <1>5. FrameOK(f, c, rq[c].curr) /\ RqLocks(f, c) = {} /\ f.k = "none"
    BY <1>1, <1>3, <1>4, Names DEF FrameOK, RqLocks
  <1>6. (\A d \in RqLocks(f, c) : rq[d].lock = c) /\ (HoldsPi(f) => task[f.w].pi_lock = c)
    BY <1>1, <1>4, <1>5
  <1>7. Core' /\ Quiet(c) /\ at'[c] = f
    BY <1>1, <1>2, <1>4, <1>5, <1>6, FrameStep
  <1> QED
    BY <1>1, <1>4, <1>5, <1>7 DEF x

-----------------------------------------------------------------------------
(* Quiet steps keep the places *)

\* What the new frame f of CPU c must be like.
Calm(c, f) ==
    /\ f.wl = at[c].wl
    /\ at[c].pc \notin QueuePcs \cup {"switch"} /\ f.pc \notin QueuePcs \cup {"switch"}
    /\ MayBlock(at[c]) => MayBlock(f) \/ (rq[c].curr \in Task => task[rq[c].curr].on_rq = "queued")
    /\ Relies(f, c)

SamePlaces(u, v) ==
    \A p \in Task : /\ u[p].state = v[p].state /\ u[p].on_rq = v[p].on_rq
                    /\ u[p].cpu = v[p].cpu /\ u[p].on_cpu = v[p].on_cpu

LEMMA QuietPlaces ==
    ASSUME IInv, Core', NEW c \in CPU, SamePlaces(task', task), SameQueues(rq', rq),
           \A d \in CPU \ {c} : at'[d] = at[d], Calm(c, at'[c])
    PROVE  IInv'
  <1>0. /\ Typed /\ Typed' /\ at[c] \in FrameType /\ at'[c] \in FrameType
    BY Types, TypesNext DEF IInv, Core, Typed
  <1>1. QueueExact'
    BY DEF IInv, Places, QueueExact, SamePlaces, SameQueues
  <1>2. StacksExact'
    <2>1. \A d \in CPU : Stacks(d)' = Stacks(d)
      BY DEF Stacks, SameQueues, Calm
    <2>2. ASSUME NEW d \in CPU, rq'[d].curr \in Task, ~ MayBlock(at'[d])
          PROVE  task'[rq'[d].curr].on_rq = "queued"
      BY <2>2 DEF IInv, Places, StacksExact, SamePlaces, SameQueues, Calm
    <2> QED
      BY <2>1, <2>2 DEF IInv, Places, StacksExact, SamePlaces, SameQueues
  <1>3. \A d \in CPU : /\ InList(d)' = InList(d) /\ rq'[d].wake_list = rq[d].wake_list
                       /\ at'[d].wl = at[d].wl
    BY DEF InList, SameQueues, Calm
  <1>3a. \A d \in CPU : InList(d) \subseteq Task
    BY <1>0 DEF InList, Typed, RqType, FrameType
  <1>4. ListsExact'
    BY <1>3, <1>3a DEF IInv, Places, ListsExact, SamePlaces
  <1>5. WorkersStay'
    BY Names DEF IInv, Places, WorkersStay, SamePlaces
  <1>6. ASSUME NEW p \in Task PROVE WakingOK(p)'
    <2>1. \A d \in CPU : Bears(d, p)' <=> Bears(d, p)
      BY <1>3 DEF Bears, Calm
    <2> QED
      BY <2>1 DEF IInv, Places, WakingOK, SamePlaces
  <1>7. ASSUME NEW d \in CPU PROVE Relies(at[d], d)'
    <2>1. Relies(at'[d], d)
      BY DEF IInv, Places, Calm
    <2>2. FrameOK(at'[d], d, rq'[d].curr)
      BY DEF Core
    <2>3. at'[d].t \in Task \cup {NONE}
      BY <1>0 DEF Typed, FrameType
    <2> QED
      BY <1>3, <2>1, <2>2, <2>3 DEF Relies, FrameOK, SamePlaces, SameQueues
  <1> QED
    BY <1>1, <1>2, <1>4, <1>5, <1>6, <1>7 DEF IInv, Places

LEMMA QuietInv ==
    ASSUME IInv, Core', NEW c \in CPU, Quiet(c), Calm(c, at'[c])
    PROVE  IInv'
  <1>1. SamePlaces(task', task) /\ SameQueues(rq', rq) /\ \A d \in CPU \ {c} : at'[d] = at[d]
    BY DEF Quiet, SameTasks, SamePlaces
  <1> QED
    BY <1>1, QuietPlaces

\* A frame that relies on nothing.
LEMMA Carefree ==
    ASSUME NEW c \in CPU, NEW f, f.k # "local",
           f.pc \notin SeenPcs \cup QueuePcs \cup LocalPcs \cup {"move_dst", "bal_try", "both"}
    PROVE  Relies(f, c)
  BY DEF Relies

LEMMA BackgroundInv ==
    ASSUME IInv, NEW c \in CPU,
           IdlePoll(c) \/ IdleHalt(c) \/ IdleExit(c) \/ Preempt(c) \/ StopperSleeps(c)
    PROVE  IInv'
  <1>0. /\ Core /\ at[c] \in FrameType /\ at[c].pc = "run" /\ at[c].k = "none" /\ ~ MayBlock(at[c])
    <2>1. Core /\ at[c] \in FrameType /\ at[c].pc = "run" /\ FrameOK(at[c], c, rq[c].curr)
      BY CoreFacts DEF IInv, IdlePoll, IdleHalt, IdleExit, Preempt, StopperSleeps
    <2> QED
      BY <2>1 DEF FrameOK, MayBlock
  <1>1. ASSUME NEW x \in {"run", "lock", "idle_pending"}
        PROVE  Calm(c, [at[c] EXCEPT !.pc = x])
    <2> DEFINE f == [at[c] EXCEPT !.pc = x]
    <2>1. f.pc = x /\ f.wl = at[c].wl /\ f.k = "none"
      BY <1>0 DEF FrameType
    <2>2. Relies(f, c)
      BY <2>1, Carefree
    <2> QED
      BY <1>0, <2>1, <2>2 DEF Calm
  <1>2. CASE IdlePoll(c) \/ IdleHalt(c)
    <2>1. Core' /\ Quiet(c) /\ at'[c] = [at[c] EXCEPT !.pc = "run"]
      BY <1>0, <1>2, IdleCore DEF FrameType
    <2> QED
      BY <1>1, <2>1, QuietInv
  <1>3. CASE IdleExit(c)
    BY <1>0, <1>1, <1>3, IdleExitCore, QuietInv
  <1>4. CASE Preempt(c) \/ StopperSleeps(c)
    BY <1>0, <1>1, <1>4, GotoLockCore, QuietInv
  <1> QED
    BY <1>2, <1>3, <1>4

LEMMA ScheduleRunningInv ==
    ASSUME IInv, NEW c \in CPU, ScheduleRunning(c)
    PROVE  IInv'
  <1>1. /\ Core' /\ Quiet(c) /\ at'[c] = SchedulePick(c) /\ at[c].pc = "lock"
        /\ FrameOK(at[c], c, rq[c].curr)
    BY ScheduleRunningCore, CoreFacts DEF IInv, ScheduleRunning
  <1>2. Calm(c, SchedulePick(c))
    BY <1>1, PickFrame, Carefree DEF Calm, MayBlock, FrameOK
  <1> QED
    BY <1>1, <1>2, QuietInv

LEMMA WakeUpProcessInv ==
    ASSUME IInv, NEW c \in CPU, NEW p \in Task, WakeUpProcess(c, p)
    PROVE  IInv'
  <1> DEFINE f == [at[c] EXCEPT !.pc = "ttwu", !.w = p]
  <1>1. /\ Core' /\ Quiet(c) /\ at'[c] = f /\ at[c].pc = "run"
        /\ FrameOK(at[c], c, rq[c].curr) /\ at[c] \in FrameType
    BY WakeUpProcessCore, CoreFacts DEF IInv, WakeUpProcess
  <1>2. f.pc = "ttwu" /\ f.wl = at[c].wl /\ f.k = "none"
    BY <1>1 DEF FrameType, FrameOK
  <1>3. Relies(f, c)
    BY <1>2, Carefree
  <1>4. Calm(c, f)
    BY <1>1, <1>2, <1>3 DEF Calm, MayBlock, FrameOK
  <1> QED
    BY <1>1, <1>4, QuietInv

LEMMA TtwuStateInv ==
    ASSUME IInv, NEW c \in CPU, TtwuState(c)
    PROVE  IInv'
  <1>1. /\ Core' /\ Quiet(c) /\ at[c].w \in Task
        /\ \/ at'[c] = Run
           \/ task[at[c].w].state = SLEEP /\ at'[c] = [at[c] EXCEPT !.pc = "ttwu_on_rq"]
        /\ at[c].pc = "ttwu" /\ FrameOK(at[c], c, rq[c].curr) /\ at[c] \in FrameType
    BY TtwuStateCore, CoreFacts DEF IInv, TtwuState
  <1>2. ~ MayBlock(at[c]) /\ at[c].wl = {} /\ at[c].k = "none"
    BY <1>1 DEF MayBlock, FrameOK
  <1>3. CASE at'[c] = Run
    <2>1. Calm(c, Run)
      BY <1>1, <1>2, Carefree DEF Calm, Run
    <2> QED
      BY <1>1, <1>3, <2>1, QuietInv
  <1>4. CASE task[at[c].w].state = SLEEP /\ at'[c] = [at[c] EXCEPT !.pc = "ttwu_on_rq"]
    <2> DEFINE f == [at[c] EXCEPT !.pc = "ttwu_on_rq"]
    <2>1. f.pc = "ttwu_on_rq" /\ f.wl = at[c].wl /\ f.k = "none" /\ f.w = at[c].w
      BY <1>1, <1>2 DEF FrameType
    <2> HIDE DEF f
    <2>2. Calm(c, f)
      BY <1>1, <1>2, <1>4, <2>1 DEF Calm, Relies, SLEEP, WAKING
    <2> QED
      BY <1>1, <1>4, <2>2, QuietInv DEF f
  <1> QED
    BY <1>1, <1>3, <1>4

LEMMA TtwuOnRqInv ==
    ASSUME IInv, NEW c \in CPU, TtwuOnRq(c)
    PROVE  IInv'
  <1>1. /\ Core' /\ Quiet(c) /\ at[c].pc = "ttwu_on_rq" /\ at'[c].w = at[c].w
        /\ at'[c].wl = at[c].wl /\ at'[c].k = "none"
        /\ at'[c].pc = IF task[at[c].w].on_rq = "no" THEN "ttwu_on_cpu" ELSE "remote_lock"
        /\ Relies(at[c], c) /\ FrameOK(at[c], c, rq[c].curr)
    BY TtwuOnRqCore, CoreFacts DEF IInv, Places, TtwuOnRq
  <1>2. Calm(c, at'[c])
    BY <1>1 DEF Calm, Relies, MayBlock, FrameOK
  <1> QED
    BY <1>1, <1>2, QuietInv

LEMMA FrameInv ==
    ASSUME IInv, NEW c \in CPU, NEW f \in FrameType, at' = [at EXCEPT ![c] = f],
           task' = task, rq' = rq, FrameOK(f, c, rq[c].curr), Calm(c, f),
           \A d \in RqLocks(f, c) : rq[d].lock = c, HoldsPi(f) => task[f.w].pi_lock = c
    PROVE  IInv'
  BY FrameStep, QuietInv DEF IInv

LEMMA TakePiInv ==
    ASSUME IInv, NEW c \in CPU, NEW f \in FrameType, at' = [at EXCEPT ![c] = f],
           f.w \in Task, Free(task[f.w].pi_lock), task' = [task EXCEPT ![f.w].pi_lock = c],
           rq' = rq, FrameOK(f, c, rq[c].curr), Calm(c, f), \A d \in RqLocks(f, c) : rq[d].lock = c
    PROVE  IInv'
  BY TakePiStep, QuietInv DEF IInv

LEMMA DropPiInv ==
    ASSUME IInv, NEW c \in CPU, NEW f \in FrameType, at' = [at EXCEPT ![c] = f],
           HoldsPi(at[c]), at[c].w \in Task, task' = [task EXCEPT ![at[c].w].pi_lock = NONE],
           rq' = rq, FrameOK(f, c, rq[c].curr), Calm(c, f), \A d \in RqLocks(f, c) : rq[d].lock = c,
           ~ HoldsPi(f)
    PROVE  IInv'
  BY DropPiStep, QuietInv DEF IInv

\* Locks or flags of run queues change.
LEMMA RqInv ==
    ASSUME IInv, NEW c \in CPU, NEW f \in FrameType, at' = [at EXCEPT ![c] = f],
           task' = task, rq' \in [CPU -> RqType], SameQueues(rq', rq), SameStops(rq', rq),
           FrameOK(f, c, rq[c].curr), Calm(c, f),
           \A d \in CPU : rq[d].lock \in {c, NONE} \/ rq'[d].lock = rq[d].lock,
           \A d \in RqLocks(f, c) : rq'[d].lock = c,
           HoldsPi(f) => task[f.w].pi_lock = c
    PROVE  IInv'
  <1>1. Core /\ Typed
    BY CoreFacts DEF IInv
  <1>2. Locks(c, f)
    BY DEF Locks
  <1>3. Core' /\ Quiet(c) /\ at'[c] = f
    BY <1>1, <1>2, NothingEdited, QuietStep DEF Typed
  <1> QED
    BY <1>3, QuietInv

\* One lock of a run queue is taken or released.
LEMMA RqLockInv ==
    ASSUME IInv, NEW c \in CPU, NEW f \in FrameType, at' = [at EXCEPT ![c] = f],
           task' = task, NEW d \in CPU, NEW v \in {c, NONE}, rq' = [rq EXCEPT ![d].lock = v],
           rq[d].lock \in {c, NONE},
           FrameOK(f, c, rq[c].curr), Calm(c, f),
           \A e \in RqLocks(f, c) : IF e = d THEN v = c ELSE rq[e].lock = c,
           HoldsPi(f) => task[f.w].pi_lock = c
    PROVE  IInv'
  <1>1. Typed
    BY CoreFacts DEF IInv
  <1>2. /\ rq' \in [CPU -> RqType] /\ SameQueues(rq', rq) /\ SameStops(rq', rq)
        /\ rq'[d].lock = v /\ \A e \in CPU \ {d} : rq'[e] = rq[e]
    BY <1>1, LockEdit, v \in CPU \cup {NONE}, ZenonT(60) DEF Typed
  <1>3. \A e \in RqLocks(f, c) : rq'[e].lock = c
    BY <1>2 DEF RqLocks
  <1> QED
    BY <1>2, <1>3, RqInv

LEMMA InvFacts ==
    ASSUME IInv, NEW c \in CPU
    PROVE  /\ Core /\ Typed /\ at[c] \in FrameType /\ rq[c] \in RqType
           /\ FrameOK(at[c], c, rq[c].curr) /\ Relies(at[c], c)
           /\ \A d \in RqLocks(at[c], c) : rq[d].lock = c
           /\ HoldsPi(at[c]) => task[at[c].w].pi_lock = c
  BY CoreFacts DEF IInv, Places, Typed

LEMMA TtwuSpinInv ==
    ASSUME IInv, NEW c \in CPU, TtwuSpin(c)
    PROVE  IInv'
  <1> DEFINE p == at[c].w
             f == [at[c] EXCEPT !.pc = "remote_lock", !.r = task[p].cpu]
  <1>1. /\ Typed /\ at[c] \in FrameType /\ FrameOK(at[c], c, rq[c].curr) /\ Relies(at[c], c)
        /\ at[c].pc = "remote_spin" /\ p \in Task /\ rq' = rq /\ task' = task
        /\ task[p].pi_lock = c
    BY InvFacts DEF TtwuSpin, FrameOK, HoldsPi
  <1>1a. task[p].cpu \in CPU /\ at' = [at EXCEPT ![c] = f]
    <2>1. task[p] \in TaskType
      BY <1>1 DEF Typed
    <2>2. at' = [at EXCEPT ![c] = f]
      BY DEF TtwuSpin
    <2> QED
      BY <2>1, <2>2 DEF TaskType
  <1>2. /\ f \in FrameType /\ f.pc = "remote_lock" /\ f.w = p /\ f.t = at[c].t /\ f.k = at[c].k
        /\ f.wl = at[c].wl /\ f.r = task[p].cpu
    BY <1>1, <1>1a, PcNames DEF FrameType
  <1> HIDE DEF f
  <1>3. FrameOK(f, c, rq[c].curr) /\ RqLocks(f, c) = {} /\ Calm(c, f)
    BY <1>1, <1>1a, <1>2, Names DEF FrameOK, RqLocks, Calm, Relies, MayBlock
  <1>4. (\A d \in RqLocks(f, c) : rq[d].lock = c) /\ (HoldsPi(f) => task[f.w].pi_lock = c)
    BY <1>1, <1>2, <1>3
  <1> QED
    BY <1>1, <1>1a, <1>2, <1>3, <1>4, FrameInv

\* ttwu_remote() finds the task elsewhere, or asleep.
LEMMA TtwuRemoteMisses ==
    ASSUME IInv, NEW c \in CPU, at[c].pc = "remote_lock", task' = task, rq' = rq,
           NEW x \in {"remote_spin", "ttwu_on_cpu"},
           x = "ttwu_on_cpu" => task[at[c].w].on_rq = "no", Goto(c, x)
    PROVE  IInv'
  <1> DEFINE f == [at[c] EXCEPT !.pc = x]
  <1>1. /\ at[c] \in FrameType /\ FrameOK(at[c], c, rq[c].curr) /\ Relies(at[c], c)
        /\ task[at[c].w].pi_lock = c /\ at' = [at EXCEPT ![c] = f]
    BY InvFacts DEF Goto, HoldsPi
  <1>2. /\ f \in FrameType /\ f.pc = x /\ f.w = at[c].w /\ f.t = at[c].t /\ f.k = at[c].k
        /\ f.wl = at[c].wl /\ f.r = at[c].r
    BY <1>1, PcNames, GotoFrame
  <1> HIDE DEF f
  <1>3. FrameOK(f, c, rq[c].curr) /\ RqLocks(f, c) = {} /\ Calm(c, f)
    BY <1>1, <1>2, Names DEF FrameOK, RqLocks, Calm, Relies, MayBlock
  <1>4. (\A d \in RqLocks(f, c) : rq[d].lock = c) /\ (HoldsPi(f) => task[f.w].pi_lock = c)
    BY <1>1, <1>2, <1>3
  <1> QED
    BY <1>1, <1>2, <1>3, <1>4, FrameInv

LEMMA TtwuKickInv ==
    ASSUME IInv, NEW c \in CPU, TtwuKick(c)
    PROVE  IInv'
  <1> DEFINE p == at[c].w
             r == at[c].r
             y == IF rq[r].idle = "polling" THEN [rq[r] EXCEPT !.resched = TRUE]
                  ELSE [rq[r] EXCEPT !.ipi = TRUE]
  <1>1. /\ Core /\ Typed /\ FrameOK(at[c], c, rq[c].curr)
        /\ at[c].pc = "ttwu_kick" /\ p \in Task /\ r \in CPU
        /\ task[p].pi_lock = c /\ at' = [at EXCEPT ![c] = Run]
        /\ task' = [task EXCEPT ![p].pi_lock = NONE] /\ rq' = [rq EXCEPT ![r] = y]
    BY InvFacts DEF TtwuKick, FrameOK, HoldsPi
  <1>2. rq[r] \in RqType
    BY <1>1 DEF Typed
  <1>3. /\ y \in RqType /\ y.queue = rq[r].queue /\ y.curr = rq[r].curr
        /\ y.wake_list = rq[r].wake_list /\ y.stop = rq[r].stop /\ y.lock = rq[r].lock
    BY <1>2 DEF RqType
  <1> HIDE DEF y
  <1>4. /\ rq' \in [CPU -> RqType] /\ SameQueues(rq', rq) /\ SameStops(rq', rq)
        /\ SameLocks(rq', rq)
    BY <1>1, <1>3, RqEdit DEF Typed
  <1>5. /\ task' \in [Task -> TaskType] /\ SameTasks(task', task)
        /\ \A q \in Task \ {p} : task'[q] = task[q]
    BY <1>1, PiLockEdit, NONE \in CPU \cup {NONE} DEF Typed
  <1>6. Locks(c, Run)
    BY <1>1, <1>4, <1>5, RunFrame DEF Locks, SameLocks
  <1>7. Core' /\ Quiet(c) /\ at'[c] = Run
    BY <1>1, <1>4, <1>5, <1>6, RunFrame, QuietStep
  <1>8. Calm(c, Run)
    BY <1>1, Carefree DEF Calm, Run, FrameOK, MayBlock
  <1> QED
    BY <1>7, <1>8, QuietInv

LEMMA LocalTrylockInv ==
    ASSUME IInv, NEW c \in CPU, LocalTrylock(c)
    PROVE  IInv'
  <1> DEFINE q == at[c].w
             f(x) == [at[c] EXCEPT !.pc = x]
  <1>1. /\ Typed /\ at[c] \in FrameType /\ FrameOK(at[c], c, rq[c].curr) /\ Relies(at[c], c)
        /\ at[c].pc = "local" /\ q \in Task /\ rq[c].lock = c
    BY InvFacts, Names DEF LocalTrylock, FrameOK, RqLocks
  <1>2. ASSUME NEW x \in {"local_rq", "local_pi"}
        PROVE  /\ f(x) \in FrameType /\ f(x).w = q
               /\ FrameOK(f(x), c, rq[c].curr) /\ RqLocks(f(x), c) = {} /\ Calm(c, f(x))
               /\ (x = "local_pi" => ~ HoldsPi(f(x)))
    <2>1. /\ f(x) \in FrameType /\ f(x).pc = x /\ f(x).w = q /\ f(x).t = at[c].t
          /\ f(x).k = at[c].k /\ f(x).wl = at[c].wl
      BY <1>1, PcNames DEF FrameType
    <2> HIDE DEF f
    <2> QED
      BY <1>1, <2>1, Names DEF FrameOK, RqLocks, Calm, Relies, MayBlock, HoldsPi
  <1>3. CASE Free(task[q].pi_lock)
    <2>1. /\ at' = [at EXCEPT ![c] = f("local_rq")] /\ rq' = rq
          /\ task' = [task EXCEPT ![q].pi_lock = c]
      BY <1>3 DEF LocalTrylock, Goto
    <2> HIDE DEF f
    <2> QED
      BY <1>1, <1>2, <1>3, <2>1, TakePiInv
  <1>4. CASE ~ Free(task[q].pi_lock)
    <2>1. /\ at' = [at EXCEPT ![c] = f("local_pi")] /\ task' = task
          /\ rq' = [rq EXCEPT ![c].lock = NONE]
      BY <1>4 DEF LocalTrylock, Goto
    <2> HIDE DEF f
    <2> QED
      BY <1>1, <1>2, <1>4, <2>1, RqLockInv
  <1> QED
    BY <1>3, <1>4

LEMMA LocalPiLockInv ==
    ASSUME IInv, NEW c \in CPU, LocalPiLock(c)
    PROVE  IInv'
  <1> DEFINE q == at[c].w
             f == [at[c] EXCEPT !.pc = "local_rq"]
  <1>1. /\ at[c] \in FrameType /\ FrameOK(at[c], c, rq[c].curr) /\ Relies(at[c], c)
        /\ at[c].pc = "local_pi" /\ q \in Task /\ Free(task[q].pi_lock)
        /\ at' = [at EXCEPT ![c] = f] /\ rq' = rq /\ task' = [task EXCEPT ![q].pi_lock = c]
    BY InvFacts, Names DEF LocalPiLock, FrameOK, Goto
  <1>2. /\ f \in FrameType /\ f.pc = "local_rq" /\ f.w = q /\ f.t = at[c].t
        /\ f.k = at[c].k /\ f.wl = at[c].wl
    BY <1>1, PcNames DEF FrameType
  <1> HIDE DEF f
  <1>3. FrameOK(f, c, rq[c].curr) /\ RqLocks(f, c) = {} /\ Calm(c, f)
    BY <1>1, <1>2, Names DEF FrameOK, RqLocks, Calm, Relies, MayBlock
  <1> QED
    BY <1>1, <1>2, <1>3, TakePiInv

-----------------------------------------------------------------------------
(* Pushing and pulling: the locks *)

LEMMA PushBeginInv ==
    ASSUME IInv, NEW c \in CPU, PushBegin(c)
    PROVE  IInv'
  <1> DEFINE r == at[c].r
  <1>1. /\ Typed /\ at[c] \in FrameType /\ FrameOK(at[c], c, rq[c].curr) /\ Relies(at[c], c)
        /\ at[c].pc = "push" /\ r \in CPU /\ task' = task /\ rq' = rq
        /\ rq[r].lock = c /\ (HoldsPi(at[c]) => task[at[c].w].pi_lock = c)
    <2>1. at[c].pc = "push" /\ task' = task /\ rq' = rq
      BY DEF PushBegin
    <2>2. r \in CPU
      BY <2>1, InvFacts DEF FrameOK
    <2>3. r \in RqLocks(at[c], c)
      BY <2>1, <2>2 DEF RqLocks
    <2> QED
      BY <2>1, <2>2, <2>3, InvFacts
  <1>2. PICK t \in pushable_tasks(r) : \E o \in task[t].allowed \ {r} :
            at' = [at EXCEPT ![c].pc = "bal_try", ![c].t = t, ![c].o = o]
    BY DEF PushBegin
  <1>2a. PICK o \in task[t].allowed \ {r} :
            at' = [at EXCEPT ![c].pc = "bal_try", ![c].t = t, ![c].o = o]
    BY <1>2
  <1>3. at' = [at EXCEPT ![c] = [at[c] EXCEPT !.pc = "bal_try", !.t = t, !.o = o]]
    BY <1>2a
  <1> DEFINE f == [at[c] EXCEPT !.pc = "bal_try", !.t = t, !.o = o]
  <1>4. t \in Task /\ t \in rq[r].queue /\ t # rq[r].curr /\ Cardinality(task[t].allowed) > 1
    <2>1. rq[r] \in RqType
      BY <1>1 DEF Typed
    <2> QED
      BY <2>1 DEF pushable_tasks, RqType
  <1>5. o \in CPU /\ o # r
    <2>1. task[t] \in TaskType
      BY <1>1, <1>4 DEF Typed
    <2> QED
      BY <2>1 DEF TaskType
  <1>6. /\ f \in FrameType /\ f.pc = "bal_try" /\ f.w = at[c].w /\ f.t = t /\ f.o = o /\ f.r = r
        /\ f.k = at[c].k /\ f.wl = at[c].wl /\ f.scan = at[c].scan /\ f.dst = at[c].dst
        /\ f.ret = at[c].ret
    BY <1>1, <1>4, <1>5, PcNames DEF FrameType
  <1> HIDE DEF f
  <1>7. t \notin Worker
    <2>1. ASSUME t \in Worker PROVE FALSE
      <3>1. task[t].allowed = {FirstCPU} /\ Cardinality({FirstCPU}) = 1
        BY <2>1, InvFacts, FS_Singleton DEF Core
      <3> QED
        BY <1>4, <3>1
    <2> QED
      BY <2>1
  <1>8. ~ task[t].on_cpu
    <2>1. QueueExact /\ StacksExact
      BY DEF IInv, Places
    <2>2. task[t].cpu = r
      BY <1>1, <1>4, <2>1 DEF QueueExact
    <2>3. ASSUME t \in Stacks(r) PROVE FALSE
      <3>1. at[r].pc = "switch" /\ at[r].prev = t
        BY <1>4, <2>3 DEF Stacks
      <3>2. r \in RqLocks(at[r], r)
        BY <1>1, <3>1 DEF RqLocks
      <3>3. rq[r].lock = r
        BY <1>1, <3>2, InvFacts
      <3> QED
        BY <1>1, <3>1, <3>3
    <2> QED
      BY <1>1, <1>4, <2>1, <2>2, <2>3 DEF StacksExact
  <1>9. FrameOK(f, c, rq[c].curr)
    BY <1>1, <1>4, <1>5, <1>6, <1>7, Names DEF FrameOK
  <1>10. Calm(c, f)
    BY <1>1, <1>4, <1>6, <1>8, Names DEF FrameOK, Calm, Relies, MayBlock
  <1>11. (\A d \in RqLocks(f, c) : rq[d].lock = c) /\ (HoldsPi(f) => task[f.w].pi_lock = c)
    BY <1>1, <1>6 DEF RqLocks, HoldsPi
  <1> QED
    BY <1>1, <1>3, <1>6, <1>9, <1>10, <1>11, FrameInv DEF f

LEMMA PullBeginInv ==
    ASSUME IInv, NEW c \in CPU, PullBegin(c)
    PROVE  IInv'
  <1>1. /\ at[c] \in FrameType /\ FrameOK(at[c], c, rq[c].curr) /\ Relies(at[c], c)
        /\ at[c].pc = "pick" /\ task' = task /\ rq' = rq /\ rq[c].lock = c
    BY InvFacts DEF PullBegin, RqLocks
  <1>2. PICK o \in at[c].scan :
            at' = [at EXCEPT ![c] = [at[c] EXCEPT !.pc = "bal_try", !.r = c, !.o = o,
                                                  !.scan = at[c].scan \ {o}]]
    BY DEF PullBegin
  <1> DEFINE f == [at[c] EXCEPT !.pc = "bal_try", !.r = c, !.o = o, !.scan = at[c].scan \ {o}]
  <1>3. o \in CPU /\ o # c
    BY <1>1 DEF FrameType, FrameOK
  <1>4. /\ f \in FrameType /\ f.pc = "bal_try" /\ f.w = at[c].w /\ f.t = at[c].t /\ f.o = o
        /\ f.r = c /\ f.k = at[c].k /\ f.wl = at[c].wl /\ f.scan \subseteq at[c].scan
        /\ f.ret = at[c].ret
    BY <1>1, <1>3, PcNames DEF FrameType
  <1> HIDE DEF f
  <1>5. FrameOK(f, c, rq[c].curr) /\ Calm(c, f)
    BY <1>1, <1>3, <1>4, Names DEF FrameOK, Calm, Relies, MayBlock
  <1>6. (\A d \in RqLocks(f, c) : rq[d].lock = c) /\ ~ HoldsPi(f)
    BY <1>1, <1>4 DEF RqLocks, HoldsPi, FrameOK
  <1> QED
    BY <1>1, <1>2, <1>4, <1>5, <1>6, FrameInv DEF f

\* CPU c goes on at x.
SameFrame(f, g) ==
    /\ f.w = g.w /\ f.r = g.r /\ f.o = g.o /\ f.t = g.t /\ f.prev = g.prev /\ f.dst = g.dst
    /\ f.wl = g.wl /\ f.scan = g.scan /\ f.k = g.k /\ f.ret = g.ret

LEMMA GotoFacts ==
    ASSUME NEW c \in CPU, at[c] \in FrameType, NEW x \in Pcs, Goto(c, x)
    PROVE  \E f \in FrameType : f.pc = x /\ SameFrame(f, at[c]) /\ at' = [at EXCEPT ![c] = f]
  <1> DEFINE f == [at[c] EXCEPT !.pc = x]
  <1>1. f \in FrameType /\ f.pc = x /\ SameFrame(f, at[c])
    BY GotoFrame DEF SameFrame
  <1>2. at' = [at EXCEPT ![c] = f]
    BY DEF Goto
  <1> HIDE DEF f
  <1> QED
    BY <1>1, <1>2

\* The frames of double_lock_balance() differ in their pc.
LEMMA BalFrame ==
    ASSUME IInv, NEW c \in CPU, at[c].pc \in {"bal_try", "bal_low", "bal_high"},
           NEW f \in FrameType, f.pc \in {"bal_low", "bal_high", "both"}, SameFrame(f, at[c]),
           f.pc # "both" \/ Relies(f, c)
    PROVE  /\ f.r \in CPU /\ f.o \in CPU /\ f.r # f.o
           /\ FrameOK(f, c, rq[c].curr) /\ Calm(c, f)
           /\ HoldsPi(f) => task[f.w].pi_lock = c
  <1>1. /\ at[c] \in FrameType /\ FrameOK(at[c], c, rq[c].curr) /\ Relies(at[c], c)
        /\ (HoldsPi(at[c]) => task[at[c].w].pi_lock = c)
    BY InvFacts
  <1>2. /\ f.w = at[c].w /\ f.t = at[c].t /\ f.o = at[c].o
        /\ f.r = at[c].r /\ f.k = at[c].k /\ f.wl = at[c].wl /\ f.scan = at[c].scan
        /\ f.dst = at[c].dst /\ f.ret = at[c].ret
    BY DEF SameFrame
  <1>3. f.r \in CPU /\ f.o \in CPU /\ f.r # f.o /\ FrameOK(f, c, rq[c].curr)
    BY <1>1, <1>2 DEF FrameOK
  <1>5. Relies(f, c)
    BY <1>1, <1>2 DEF Relies
  <1>6. Calm(c, f)
    BY <1>1, <1>2, <1>5 DEF FrameOK, Calm, MayBlock
  <1>7. HoldsPi(f) => task[f.w].pi_lock = c
    BY <1>1, <1>2 DEF HoldsPi
  <1> QED
    BY <1>3, <1>6, <1>7

LEMMA BalTryInv ==
    ASSUME IInv, NEW c \in CPU, BalTry(c)
    PROVE  IInv'
  <1> DEFINE r == at[c].r
             o == at[c].o
  <1>1. /\ at[c] \in FrameType /\ FrameOK(at[c], c, rq[c].curr) /\ Relies(at[c], c)
        /\ at[c].pc = "bal_try" /\ task' = task /\ r \in CPU
    BY InvFacts DEF BalTry, FrameOK
  <1>2. rq[r].lock = c
    BY <1>1, InvFacts DEF RqLocks
  <1>3. CASE Free(rq[o].lock) /\ rq' = [rq EXCEPT ![o].lock = c] /\ Goto(c, "both")
    <2>1. PICK f \in FrameType :
              f.pc = "both" /\ SameFrame(f, at[c]) /\ at' = [at EXCEPT ![c] = f]
      BY <1>1, <1>3, PcNames, GotoFacts
    <2>2. f.w = at[c].w /\ f.t = at[c].t /\ f.r = r /\ f.k = at[c].k /\ f.o = o
      BY <2>1 DEF SameFrame
    <2>3. Relies(f, c)
      BY <1>1, <2>1, <2>2 DEF Relies
    <2>4. /\ f.o \in CPU /\ f.r # f.o
          /\ FrameOK(f, c, rq[c].curr) /\ Calm(c, f)
          /\ HoldsPi(f) => task[f.w].pi_lock = c
      BY <1>1, <2>1, <2>3, BalFrame
    <2>5. \A e \in RqLocks(f, c) : IF e = o THEN c = c ELSE rq[e].lock = c
      BY <1>2, <2>1, <2>2, <2>4 DEF RqLocks
    <2> QED
      BY <1>1, <1>3, <2>1, <2>2, <2>4, <2>5, RqLockInv DEF Free
  <1>4. CASE rq' = [rq EXCEPT ![r].lock = NONE] /\ Goto(c, "bal_low")
    <2>1. PICK f \in FrameType :
              f.pc = "bal_low" /\ SameFrame(f, at[c]) /\ at' = [at EXCEPT ![c] = f]
      BY <1>1, <1>4, PcNames, GotoFacts
    <2>2. /\ FrameOK(f, c, rq[c].curr) /\ Calm(c, f)
          /\ HoldsPi(f) => task[f.w].pi_lock = c
      BY <1>1, <2>1, BalFrame
    <2>3. \A e \in RqLocks(f, c) : IF e = r THEN NONE = c ELSE rq[e].lock = c
      BY <2>1 DEF RqLocks
    <2> QED
      BY <1>1, <1>2, <1>4, <2>1, <2>2, <2>3, RqLockInv
  <1> QED
    BY <1>3, <1>4 DEF BalTry

LEMMA BalLowInv ==
    ASSUME IInv, NEW c \in CPU, BalLow(c)
    PROVE  IInv'
  <1> DEFINE d == LowerOf(c)
  <1>1. /\ at[c].pc = "bal_low" /\ task' = task /\ Free(rq[d].lock)
        /\ rq' = [rq EXCEPT ![d].lock = c]
    BY DEF BalLow
  <1>2. PICK f \in FrameType :
            f.pc = "bal_high" /\ SameFrame(f, at[c]) /\ at' = [at EXCEPT ![c] = f]
    BY InvFacts, PcNames, GotoFacts DEF BalLow
  <1>3. /\ f.r = at[c].r /\ f.o = at[c].o
        /\ f.r \in CPU /\ f.o \in CPU /\ FrameOK(f, c, rq[c].curr) /\ Calm(c, f)
        /\ (HoldsPi(f) => task[f.w].pi_lock = c)
    BY <1>1, <1>2, BalFrame DEF SameFrame
  <1>4. d \in CPU /\ d = Lower(f)
    BY <1>3 DEF LowerOf, Lower
  <1> HIDE DEF d
  <1>5. \A e \in RqLocks(f, c) : IF e = d THEN c = c ELSE rq[e].lock = c
    BY <1>2, <1>3, <1>4 DEF RqLocks
  <1> QED
    BY <1>1, <1>2, <1>3, <1>4, <1>5, RqLockInv DEF Free

\* push_rt_task() is done with one task.
LEMMA PushFrame ==
    ASSUME IInv, NEW c \in CPU, at[c].pc \in {"bal_high", "both"}, at[c].t # NONE,
           at' = [at EXCEPT ![c].pc = "push", ![c].t = NONE, ![c].o = NONE]
    PROVE  \E f \in FrameType :
             /\ at' = [at EXCEPT ![c] = f] /\ f.pc = "push" /\ f.r = at[c].r /\ f.r \in CPU
             /\ f.w = at[c].w /\ f.k = at[c].k /\ f.wl = at[c].wl /\ f.ret = at[c].ret
             /\ f.dst = at[c].dst
             /\ FrameOK(f, c, rq[c].curr) /\ Calm(c, f) /\ RqLocks(f, c) = {at[c].r}
             /\ HoldsPi(f) => task[f.w].pi_lock = c
  <1> DEFINE f == [at[c] EXCEPT !.pc = "push", !.t = NONE, !.o = NONE]
  <1>1. /\ at[c] \in FrameType /\ FrameOK(at[c], c, rq[c].curr) /\ Relies(at[c], c)
        /\ (HoldsPi(at[c]) => task[at[c].w].pi_lock = c)
    BY InvFacts
  <1>2. at' = [at EXCEPT ![c] = f]
    OBVIOUS
  <1>3. /\ f \in FrameType /\ f.pc = "push" /\ f.w = at[c].w /\ f.t = NONE /\ f.r = at[c].r
        /\ f.k = at[c].k /\ f.wl = at[c].wl /\ f.dst = at[c].dst /\ f.ret = at[c].ret
    BY <1>1, PcNames DEF FrameType
  <1> HIDE DEF f
  <1>4. f.r \in CPU /\ f.k # "none" /\ FrameOK(f, c, rq[c].curr)
    BY <1>1, <1>3, Names DEF FrameOK
  <1>5. Relies(f, c)
    BY <1>1, <1>3 DEF Relies
  <1>6. Calm(c, f)
    BY <1>1, <1>3, <1>5 DEF FrameOK, Calm, MayBlock
  <1>7. (HoldsPi(f) => task[f.w].pi_lock = c) /\ RqLocks(f, c) = {at[c].r}
    BY <1>1, <1>3, <1>4 DEF HoldsPi, RqLocks
  <1> QED
    BY <1>2, <1>3, <1>4, <1>6, <1>7

\* pull_rt_task() is done with one queue.
LEMMA PullFrame ==
    ASSUME IInv, NEW c \in CPU, at[c].pc = "both", at[c].t = NONE,
           at' = [at EXCEPT ![c].pc = "pick", ![c].r = NONE, ![c].o = NONE]
    PROVE  \E f \in FrameType :
             /\ at' = [at EXCEPT ![c] = f] /\ f.pc = "pick" /\ f.k = "none" /\ at[c].r = c
             /\ f.wl = at[c].wl /\ FrameOK(f, c, rq[c].curr) /\ Calm(c, f) /\ RqLocks(f, c) = {c}
             /\ ~ HoldsPi(f)
  <1> DEFINE f == [at[c] EXCEPT !.pc = "pick", !.r = NONE, !.o = NONE]
  <1>1. /\ at[c] \in FrameType /\ FrameOK(at[c], c, rq[c].curr) /\ Relies(at[c], c)
    BY InvFacts
  <1>2. at' = [at EXCEPT ![c] = f]
    OBVIOUS
  <1>3. /\ f \in FrameType /\ f.pc = "pick" /\ f.w = at[c].w /\ f.t = NONE
        /\ f.k = at[c].k /\ f.wl = at[c].wl /\ f.scan = at[c].scan
    BY <1>1, PcNames DEF FrameType
  <1> HIDE DEF f
  <1>4. f.k = "none" /\ at[c].r = c /\ FrameOK(f, c, rq[c].curr)
    BY <1>1, <1>3, Names DEF FrameOK
  <1>5. Relies(f, c)
    BY <1>3, <1>4 DEF Relies
  <1>6. Calm(c, f)
    BY <1>1, <1>3, <1>4, <1>5 DEF FrameOK, Calm, MayBlock
  <1>7. ~ HoldsPi(f) /\ RqLocks(f, c) = {c}
    BY <1>3, <1>4 DEF HoldsPi, RqLocks
  <1> QED
    BY <1>2, <1>3, <1>4, <1>6, <1>7

LEMMA BalHighInv ==
    ASSUME IInv, NEW c \in CPU, BalHigh(c)
    PROVE  IInv'
  <1> DEFINE r == at[c].r
             o == at[c].o
             t == at[c].t
             h == HigherOf(c)
             both == [rq EXCEPT ![h].lock = c]
  <1>1. /\ Typed /\ at[c] \in FrameType /\ FrameOK(at[c], c, rq[c].curr) /\ Relies(at[c], c)
        /\ at[c].pc = "bal_high" /\ task' = task /\ r \in CPU /\ o \in CPU /\ r # o
        /\ Free(rq[h].lock)
    BY InvFacts DEF BalHigh, FrameOK
  <1>2. rq[Lower(at[c])].lock = c
    BY <1>1, InvFacts DEF RqLocks, Lower
  <1>3. \/ h = r /\ Lower(at[c]) = o
        \/ h = o /\ Lower(at[c]) = r
    BY DEF HigherOf, Lower
  <1> HIDE DEF h
  <1>4. h \in CPU
    BY <1>1, <1>3
  <1>5. CASE (t # NONE => still_pushable(t, r, o)) /\ rq' = both /\ Goto(c, "both")
    <2>1. PICK f \in FrameType :
              f.pc = "both" /\ SameFrame(f, at[c]) /\ at' = [at EXCEPT ![c] = f]
      BY <1>1, <1>5, PcNames, GotoFacts
    <2>2. f.w = at[c].w /\ f.t = t /\ f.r = r /\ f.k = at[c].k /\ f.o = o
      BY <2>1 DEF SameFrame
    <2>3. t # NONE => t \in rq[r].queue /\ ~ task[t].on_cpu
      <3>1. t \in Task \cup {NONE}
        BY <1>1 DEF FrameType
      <3> QED
        BY <1>1, <1>5, <3>1 DEF still_pushable, task_running, IInv, Places, QueueExact
    <2>4. Relies(f, c)
      BY <1>1, <2>1, <2>2, <2>3 DEF Relies
    <2>5. /\ FrameOK(f, c, rq[c].curr) /\ Calm(c, f)
          /\ HoldsPi(f) => task[f.w].pi_lock = c
      BY <1>1, <2>1, <2>4, BalFrame
    <2>6. \A e \in RqLocks(f, c) : IF e = h THEN c = c ELSE rq[e].lock = c
      BY <1>2, <1>3, <2>1, <2>2 DEF RqLocks
    <2> QED
      BY <1>1, <1>4, <1>5, <2>1, <2>5, <2>6, RqLockInv DEF Free
  <1>6. CASE /\ t # NONE /\ rq' = [both EXCEPT ![o].lock = NONE]
             /\ at' = [at EXCEPT ![c].pc = "push", ![c].t = NONE, ![c].o = NONE]
    <2>1. PICK f \in FrameType :
             /\ at' = [at EXCEPT ![c] = f]
             /\ FrameOK(f, c, rq[c].curr) /\ Calm(c, f) /\ RqLocks(f, c) = {r}
             /\ HoldsPi(f) => task[f.w].pi_lock = c
      BY <1>1, <1>6, PushFrame
    <2>2. /\ both \in [CPU -> RqType] /\ SameQueues(both, rq) /\ SameStops(both, rq)
          /\ both[h].lock = c /\ \A e \in CPU \ {h} : both[e] = rq[e]
      BY <1>1, <1>4, LockEdit, c \in CPU \cup {NONE} DEF Typed
    <2>3. PICK q \in [CPU -> RqType] :
             /\ SameQueues(q, rq) /\ SameStops(q, rq)
             /\ q[h].lock = c /\ (\A e \in CPU \ {h} : q[e] = rq[e])
             /\ rq' = [q EXCEPT ![o].lock = NONE]
      BY <1>6, <2>2
    <2>4. /\ rq' \in [CPU -> RqType] /\ SameQueues(rq', q) /\ SameStops(rq', q)
          /\ rq'[o].lock = NONE /\ \A e \in CPU \ {o} : rq'[e] = q[e]
      <3>1. o \in CPU /\ NONE \in CPU \cup {NONE}
        BY <1>1
      <3> HIDE DEF o
      <3>2. /\ [q EXCEPT ![o].lock = NONE] \in [CPU -> RqType]
            /\ SameQueues([q EXCEPT ![o].lock = NONE], q) /\ SameStops([q EXCEPT ![o].lock = NONE], q)
            /\ [q EXCEPT ![o].lock = NONE][o].lock = NONE
            /\ \A e \in CPU \ {o} : [q EXCEPT ![o].lock = NONE][e] = q[e]
        BY <3>1, LockEdit
      <3> QED
        BY <2>3, <3>2
    <2>5. SameQueues(rq', rq) /\ SameStops(rq', rq) /\ rq'[r].lock = c
      BY <1>1, <1>2, <1>3, <2>3, <2>4 DEF SameQueues, SameStops
    <2>6. \A d \in CPU : rq[d].lock \in {c, NONE} \/ rq'[d].lock = rq[d].lock
      BY <1>1, <1>2, <1>3, <2>3, <2>4 DEF Free
    <2>7. \A d \in RqLocks(f, c) : rq'[d].lock = c
      BY <2>1, <2>5
    <2> QED
      BY <1>1, <2>1, <2>4, <2>5, <2>6, <2>7, RqInv
  <1> QED
    BY <1>5, <1>6 DEF BalHigh, h

\* The other lock is released and nothing moved.
LEMMA NothingMoved ==
    ASSUME IInv, NEW c \in CPU, at[c].pc = "both", task' = task,
           rq' = [rq EXCEPT ![at[c].o].lock = NONE],
           \/ /\ at[c].t # NONE
              /\ at' = [at EXCEPT ![c].pc = "push", ![c].t = NONE, ![c].o = NONE]
           \/ /\ at[c].t = NONE
              /\ at' = [at EXCEPT ![c].pc = "pick", ![c].r = NONE, ![c].o = NONE]
    PROVE  IInv'
  <1> DEFINE r == at[c].r
             o == at[c].o
  <1>1. /\ r \in CPU /\ o \in CPU /\ r # o
    BY InvFacts DEF FrameOK
  <1>2. rq[r].lock = c /\ rq[o].lock = c
    BY <1>1, InvFacts DEF RqLocks
  <1>3. PICK f \in FrameType :
             /\ at' = [at EXCEPT ![c] = f] /\ RqLocks(f, c) = {r}
             /\ FrameOK(f, c, rq[c].curr) /\ Calm(c, f)
             /\ HoldsPi(f) => task[f.w].pi_lock = c
    <2>1. CASE at[c].t # NONE
      BY <2>1, PushFrame
    <2>2. CASE at[c].t = NONE
      BY <2>2, PullFrame
    <2> QED
      BY <2>1, <2>2
  <1>4. \A e \in RqLocks(f, c) : IF e = o THEN NONE = c ELSE rq[e].lock = c
    BY <1>1, <1>2, <1>3
  <1> QED
    BY <1>1, <1>2, <1>3, <1>4, RqLockInv

LEMMA PostScheduleInv ==
    ASSUME IInv, NEW c \in CPU, PostSchedule(c)
    PROVE  IInv'
  <1> DEFINE f == [at[c] EXCEPT !.pc = "push", !.r = c, !.k = "post"]
  <1>1. /\ at[c] \in FrameType /\ FrameOK(at[c], c, rq[c].curr)
        /\ at[c].pc = "post" /\ Free(rq[c].lock) /\ at' = [at EXCEPT ![c] = f] /\ task' = task
        /\ rq' = [rq EXCEPT ![c].lock = c]
    BY InvFacts DEF PostSchedule
  <1>2. /\ f \in FrameType /\ f.pc = "push" /\ f.w = at[c].w /\ f.t = at[c].t /\ f.r = c
        /\ f.k = "post" /\ f.wl = at[c].wl /\ f.ret = at[c].ret
    BY <1>1, PcNames DEF FrameType
  <1> HIDE DEF f
  <1>3. FrameOK(f, c, rq[c].curr) /\ RqLocks(f, c) = {c} /\ ~ HoldsPi(f)
    BY <1>1, <1>2, Names DEF FrameOK, RqLocks, HoldsPi
  <1>4. Calm(c, f)
    BY <1>1, <1>2, Carefree DEF FrameOK, Calm, MayBlock
  <1>5. \A e \in RqLocks(f, c) : IF e = c THEN c = c ELSE rq[e].lock = c
    BY <1>3
  <1> QED
    BY <1>1, <1>2, <1>3, <1>4, <1>5, RqLockInv DEF Free

-----------------------------------------------------------------------------
(* The end of __schedule() *)

\* Queues q: at most locks that CPU c holds or free ones are changed, and flags.
Relocked(q, c) ==
    /\ q \in [CPU -> RqType] /\ SameQueues(q, rq) /\ SameStops(q, rq)
    /\ \A d \in CPU : rq[d].lock \in {c, NONE} \/ q[d].lock = rq[d].lock

\* CPU c may drop its frame.
Droppable(c) ==
    /\ at[c].wl = {} /\ at[c].pc \notin QueuePcs \cup {"switch"}
    /\ MayBlock(at[c]) /\ rq[c].curr \in Task => task[rq[c].curr].on_rq = "queued"

LEMMA BareFrame ==
    ASSUME NEW c \in CPU, NEW x \in {"run", "lock", "post"}
    PROVE  LET f == [Run EXCEPT !.pc = x]
           IN  /\ f \in FrameType /\ f.pc = x /\ f.wl = {} /\ f.k = "none"
               /\ \A curr : FrameOK(f, c, curr)
               /\ RqLocks(f, c) = {} /\ ~ HoldsPi(f) /\ Relies(f, c)
  <1> DEFINE f == [Run EXCEPT !.pc = x]
  <1>1. /\ f \in FrameType /\ f.pc = x /\ f.wl = {} /\ f.k = "none" /\ f.t = NONE
    BY PcNames DEF Run, FrameType
  <1> HIDE DEF f
  <1>2. \A curr : FrameOK(f, c, curr)
    BY <1>1, Names DEF FrameOK
  <1>3. RqLocks(f, c) = {} /\ ~ HoldsPi(f)
    BY <1>1 DEF RqLocks, HoldsPi
  <1>4. Relies(f, c)
    BY <1>1, Carefree
  <1> QED
    BY <1>1, <1>2, <1>3, <1>4 DEF f

\* Whatever of p is noted that says nothing of its place.
LEMMA DroppedInv ==
    ASSUME IInv, NEW c \in CPU, Droppable(c), NEW x \in {"run", "lock", "post"},
           at' = [at EXCEPT ![c] = [Run EXCEPT !.pc = x]], Relocked(rq', c),
           task' \in [Task -> TaskType], SameTasks(task', task), SamePi(task', task)
    PROVE  IInv'
  <1> DEFINE f == [Run EXCEPT !.pc = x]
  <1>1. /\ f \in FrameType /\ f.pc = x /\ f.wl = {} /\ f.k = "none"
        /\ FrameOK(f, c, rq[c].curr)
        /\ RqLocks(f, c) = {} /\ ~ HoldsPi(f) /\ Relies(f, c)
    BY BareFrame
  <1>1a. at' = [at EXCEPT ![c] = f]
    OBVIOUS
  <1> HIDE DEF f
  <1>2. Locks(c, f)
    BY <1>1 DEF Locks, Relocked, SamePi
  <1>3. Core' /\ Quiet(c) /\ at'[c] = f
    BY <1>1, <1>1a, <1>2, QuietStep DEF IInv, Relocked
  <1>4. Calm(c, f)
    BY <1>1 DEF Calm, Droppable
  <1> QED
    BY <1>3, <1>4, QuietInv

LEMMA ScheduleEndInv ==
    ASSUME IInv, NEW c \in CPU, Droppable(c), NEW q, Relocked(q, c), ScheduleEnd(q, c)
    PROVE  IInv'
  <1> DEFINE g == [p \in Task |-> IF p = q[c].curr /\ ~ q[c].resched
                                  THEN [task[p] EXCEPT !.preempt_active = FALSE]
                                  ELSE task[p]]
  <1>1. rq' = q /\ task' = g
    BY DEF ScheduleEnd
  <1>2. PICK x \in {"run", "lock"} : at' = [at EXCEPT ![c] = [Run EXCEPT !.pc = x]]
    BY DEF ScheduleEnd, Run
  <1>3. ASSUME NEW p \in Task
        PROVE  /\ g[p] \in TaskType /\ g[p].state = task[p].state /\ g[p].on_rq = task[p].on_rq
               /\ g[p].cpu = task[p].cpu /\ g[p].on_cpu = task[p].on_cpu
               /\ g[p].allowed = task[p].allowed /\ g[p].pi_lock = task[p].pi_lock
    <2>1. task[p] \in TaskType
      BY InvFacts DEF Typed
    <2>2. g[p] = task[p] \/ g[p] = [task[p] EXCEPT !.preempt_active = FALSE]
      OBVIOUS
    <2> QED
      BY <2>1, <2>2 DEF TaskType
  <1>4. g \in [Task -> TaskType] /\ SameTasks(g, task) /\ SamePi(g, task)
    BY <1>3 DEF SameTasks, SamePi
  <1> HIDE DEF g
  <1> QED
    BY <1>1, <1>2, <1>4, DroppedInv

LEMMA UnlockedInv ==
    ASSUME IInv, NEW c \in CPU, Droppable(c), NEW q, Relocked(q, c), Unlocked(q, c)
    PROVE  IInv'
  <1>1. CASE ScheduleEnd(q, c)
    BY <1>1, ScheduleEndInv
  <1>2. CASE /\ rq' = q /\ at' = [at EXCEPT ![c] = [Run EXCEPT !.pc = "post"]]
             /\ UNCHANGED task
    <2>1. task' \in [Task -> TaskType] /\ SameTasks(task', task) /\ SamePi(task', task)
      BY <1>2, InvFacts, NothingEdited DEF Typed
    <2> QED
      BY <1>2, <2>1, DroppedInv
  <1> QED
    BY <1>1, <1>2 DEF Unlocked

LEMMA FinishUnlockInv ==
    ASSUME IInv, NEW c \in CPU, FinishUnlock(c)
    PROVE  IInv'
  <1> DEFINE q == [rq EXCEPT ![c].lock = NONE]
  <1>1. /\ Typed /\ FrameOK(at[c], c, rq[c].curr) /\ at[c].pc = "unlock" /\ rq[c].lock = c
        /\ Unlocked(q, c)
    BY InvFacts DEF FinishUnlock, RqLocks
  <1>2. Relocked(q, c)
    <2>1. /\ q \in [CPU -> RqType] /\ SameQueues(q, rq) /\ SameStops(q, rq)
          /\ \A d \in CPU \ {c} : q[d] = rq[d]
      BY <1>1, LockEdit, NONE \in CPU \cup {NONE} DEF Typed
    <2> QED
      BY <1>1, <2>1 DEF Relocked
  <1>3. Droppable(c)
    BY <1>1 DEF Droppable, FrameOK, MayBlock
  <1> HIDE DEF q
  <1> QED
    BY <1>1, <1>2, <1>3, UnlockedInv

\* pick_next_task() chooses the current task again.
LEMMA PickSameInv ==
    ASSUME IInv, NEW c \in CPU, at[c].pc = "pick", rq[c].curr \in Task => rq[c].curr \in rq[c].queue,
           Unlocked([rq EXCEPT ![c].resched = FALSE, ![c].lock = NONE], c)
    PROVE  IInv'
  <1> DEFINE y == [rq[c] EXCEPT !.resched = FALSE, !.lock = NONE]
             q == [rq EXCEPT ![c] = y]
  <1>1. /\ Typed /\ FrameOK(at[c], c, rq[c].curr) /\ rq[c].lock = c /\ rq[c] \in RqType
    BY InvFacts DEF RqLocks
  <1>1a. Unlocked(q, c)
    <2>1. [rq EXCEPT ![c].resched = FALSE, ![c].lock = NONE] = q
      OBVIOUS
    <2> QED
      BY <2>1 DEF Unlocked, ScheduleEnd
  <1>2. /\ y \in RqType /\ y.queue = rq[c].queue /\ y.curr = rq[c].curr
        /\ y.wake_list = rq[c].wake_list /\ y.stop = rq[c].stop
    BY <1>1 DEF RqType
  <1> HIDE DEF y
  <1>3. Relocked(q, c)
    BY <1>1, <1>2 DEF Typed, Relocked, SameQueues, SameStops
  <1>4. Droppable(c)
    BY <1>1 DEF Droppable, FrameOK, IInv, Places, QueueExact
  <1> HIDE DEF q
  <1> QED
    BY <1>1a, <1>3, <1>4, UnlockedInv

-----------------------------------------------------------------------------
(* Some notions of the proofs about the steps that move a task *)

\* The CPU executes its task, or an interrupt on top of it: it is not in __schedule().
InTask(f) ==
    /\ f.pc \notin {"lock", "pick", "switch", "unlock", "post", "idle_pending"} \cup LocalPcs
    /\ f.k \notin {"post", "local"}
    /\ f.pc \in BalPcs => f.k # "none"
    /\ InPending(f) => f.ret # "lock"

\* The locks that go with a frame, the one that is only asked for in local_rq included.
OwnedRq(f, c, d) == d \in RqLocks(f, c) \/ (f.pc = "local_rq" /\ d = c)

OwnedPi(f, p) == HoldsPi(f) /\ f.w = p

SameNotes(u, v) ==
    \A p \in Task : /\ u[p].cond = v[p].cond /\ u[p].step = v[p].step
                    /\ u[p].preempt_active = v[p].preempt_active

\* The two edits of a lock, by name.
PiLocked(e, tk, p, v) == e = [tk EXCEPT ![p].pi_lock = v]
Locked(e, q, c, v) == e = [q EXCEPT ![c].lock = v]

LEMMA PiLockOnly ==
    ASSUME NEW tk \in [Task -> TaskType], NEW p \in Task, NEW v \in CPU \cup {NONE}, NEW e,
           PiLocked(e, tk, p, v)
    PROVE  /\ e \in [Task -> TaskType] /\ SameTasks(e, tk) /\ SameNotes(e, tk)
           /\ e[p].pi_lock = v /\ \A q \in Task \ {p} : e[q] = tk[q]
  <1> DEFINE y == [tk[p] EXCEPT !.pi_lock = v]
  <1>1. /\ y \in TaskType /\ y.pi_lock = v /\ y.state = tk[p].state /\ y.on_rq = tk[p].on_rq
        /\ y.cpu = tk[p].cpu /\ y.on_cpu = tk[p].on_cpu /\ y.allowed = tk[p].allowed
        /\ y.cond = tk[p].cond /\ y.step = tk[p].step /\ y.preempt_active = tk[p].preempt_active
    BY DEF TaskType
  <1>2. e = [tk EXCEPT ![p] = y]
    BY DEF PiLocked
  <1> HIDE DEF y
  <1> QED
    BY <1>1, <1>2 DEF SameTasks, SameNotes

LEMMA LockOnly ==
    ASSUME NEW q \in [CPU -> RqType], NEW c \in CPU, NEW v \in CPU \cup {NONE}, NEW e,
           Locked(e, q, c, v)
    PROVE  /\ e \in [CPU -> RqType] /\ SameQueues(e, q) /\ SameStops(e, q) /\ SameFlags(e, q)
           /\ e[c].lock = v /\ \A d \in CPU \ {c} : e[d] = q[d]
  <1> DEFINE y == [q[c] EXCEPT !.lock = v]
  <1>1. /\ y \in RqType /\ y.lock = v /\ y.queue = q[c].queue /\ y.curr = q[c].curr
        /\ y.wake_list = q[c].wake_list /\ y.stop = q[c].stop /\ y.resched = q[c].resched
        /\ y.ipi = q[c].ipi /\ y.idle = q[c].idle
    BY DEF RqType
  <1>2. e = [q EXCEPT ![c] = y]
    BY DEF Locked
  <1> HIDE DEF y
  <1> QED
    BY <1>1, <1>2 DEF SameQueues, SameStops, SameFlags

LEMMA PiUnlockOnly ==
    ASSUME NEW tk \in [Task -> TaskType], NEW p \in Task, NEW e, PiLocked(e, tk, p, NONE)
    PROVE  /\ e \in [Task -> TaskType] /\ SameTasks(e, tk) /\ SameNotes(e, tk)
           /\ e[p].pi_lock = NONE /\ \A q \in Task \ {p} : e[q] = tk[q]
  <1> DEFINE y == [tk[p] EXCEPT !.pi_lock = NONE]
  <1>1. /\ y \in TaskType /\ y.pi_lock = NONE /\ y.state = tk[p].state /\ y.on_rq = tk[p].on_rq
        /\ y.cpu = tk[p].cpu /\ y.on_cpu = tk[p].on_cpu /\ y.allowed = tk[p].allowed
        /\ y.cond = tk[p].cond /\ y.step = tk[p].step /\ y.preempt_active = tk[p].preempt_active
    BY DEF TaskType
  <1>2. e = [tk EXCEPT ![p] = y]
    BY DEF PiLocked
  <1> HIDE DEF y
  <1> QED
    BY <1>1, <1>2 DEF SameTasks, SameNotes

LEMMA UnlockOnly ==
    ASSUME NEW q \in [CPU -> RqType], NEW c \in CPU, NEW e, Locked(e, q, c, NONE)
    PROVE  /\ e \in [CPU -> RqType] /\ SameQueues(e, q) /\ SameStops(e, q) /\ SameFlags(e, q)
           /\ e[c].lock = NONE /\ \A d \in CPU \ {c} : e[d] = q[d]
  <1>1. PICK v \in CPU \cup {NONE} : v = NONE
    OBVIOUS
  <1>2. Locked(e, q, c, v)
    BY <1>1
  <1>3. e \in [CPU -> RqType] /\ SameQueues(e, q) /\ SameStops(e, q) /\ SameFlags(e, q)
    BY <1>2, LockOnly
  <1>4. e[c].lock = v /\ \A d \in CPU \ {c} : e[d] = q[d]
    BY <1>2, LockOnly
  <1> QED
    BY <1>1, <1>3, <1>4

-----------------------------------------------------------------------------
(* The end of a wakeup *)

\* CPU c, with the lock of queue r, is about to end a wakeup for the caller k; q and
\* tk are the queues and tasks so far.
Ending(c, r, q, tk, k) ==
    /\ r \in CPU /\ q \in [CPU -> RqType] /\ tk \in [Task -> TaskType] /\ q[r].lock = c
    /\ k \in {"ttwu", "local", "pend"} /\ at[c].t = NONE
    /\ k \in {"ttwu", "local"} => at[c].w \in Task /\ tk[at[c].w].pi_lock = c /\ at[c].wl = {}
    /\ k = "local" => at[c].w \in Worker /\ r = c /\ c = FirstCPU
    /\ k = "pend" => r = c /\ InPending(at[c])

\* What becomes of notes, flags, locks and the frame.
EndNotes(c, r, q, tk, k, f) ==
    /\ SameNotes(task', tk) /\ SameFlags(rq', q)
    /\ rq'[r].lock = NONE \/ (rq'[r].lock = q[r].lock /\ OwnedRq(f, c, r))
    /\ \A p \in Task : \/ task'[p].pi_lock = NONE
                       \/ task'[p].pi_lock = tk[p].pi_lock /\ (OwnedPi(at[c], p) => OwnedPi(f, p))
    /\ k = "ttwu" \/ (k = "pend" /\ InTask(at[c])) => InTask(f)
    /\ k = "pend" /\ Stopping(at[c]) => Stopping(f) /\ f.w = at[c].w /\ f.dst = at[c].dst

\* It has, with wl left of its list, and is in frame f.
Ended(c, r, q, tk, k, wl, f) ==
    /\ f \in FrameType /\ at' = [at EXCEPT ![c] = f]
    /\ task' \in [Task -> TaskType] /\ SameTasks(task', tk)
    /\ rq' \in [CPU -> RqType] /\ SameQueues(rq', q) /\ SameStops(rq', q)
    /\ \A d \in CPU \ {r} : rq'[d].lock = q[d].lock
    /\ \A p \in Task : tk[p].pi_lock = c \/ task'[p].pi_lock = tk[p].pi_lock
    /\ \A d \in RqLocks(f, c) : rq'[d].lock = c
    /\ HoldsPi(f) => task'[f.w].pi_lock = c
    /\ FrameOK(f, c, rq[c].curr) /\ f.wl = wl
    /\ MayBlock(f) <=> k = "local"
    /\ f.pc \in {"run", "lock", "mig_pi", "pick", "activate", "push"}
    /\ f.k = "local" => c = FirstCPU
    /\ EndNotes(c, r, q, tk, k, f)

LEMMA WokenEndFacts ==
    ASSUME NEW c \in CPU, NEW r, NEW q, NEW tk, NEW k, Ending(c, r, q, tk, k), k # "pend",
           WokenEnd(q, tk, r, c, k)
    PROVE  \E f : Ended(c, r, q, tk, k, {}, f)
  <1> DEFINE w == at[c].w
  <1>1. w \in Task /\ tk[w].pi_lock = c /\ q[r].lock = c /\ k \in {"ttwu", "local"} /\ r \in CPU
        /\ q \in [CPU -> RqType] /\ tk \in [Task -> TaskType]
    BY DEF Ending
  <1>2. task' = [tk EXCEPT ![w].pi_lock = NONE]
    BY <1>1 DEF WokenEnd
  <1>3. /\ task' \in [Task -> TaskType] /\ SameTasks(task', tk) /\ SameNotes(task', tk)
        /\ task'[w].pi_lock = NONE /\ \A p \in Task \ {w} : task'[p] = tk[p]
    <2>1. PiLocked(task', tk, w, NONE)
      BY <1>2 DEF PiLocked
    <2> HIDE DEF w
    <2> QED
      BY <1>1, <2>1, PiUnlockOnly
  <1>4. \A p \in Task : tk[p].pi_lock = c \/ task'[p].pi_lock = tk[p].pi_lock
    BY <1>1, <1>3
  <1>5. CASE k = "ttwu"
    <2>1. rq' = [q EXCEPT ![r].lock = NONE] /\ at' = [at EXCEPT ![c] = Run]
      BY <1>5 DEF WokenEnd
    <2>2. /\ rq' \in [CPU -> RqType] /\ SameQueues(rq', q) /\ SameStops(rq', q) /\ SameFlags(rq', q)
          /\ rq'[r].lock = NONE /\ \A d \in CPU \ {r} : rq'[d] = q[d]
      <3>1. Locked(rq', q, r, NONE)
        BY <2>1 DEF Locked
      <3> QED
        BY <1>1, <3>1, UnlockOnly
    <2>2a. EndNotes(c, r, q, tk, k, Run)
      <3>1. InTask(Run)
        BY DEF InTask, Run
      <3> QED
        BY <1>3, <1>5, <2>2, <3>1 DEF EndNotes, OwnedPi
    <2>3. Run.wl = {} /\ ~ MayBlock(Run) /\ Run.pc = "run" /\ Run.k = "none"
      BY DEF Run, MayBlock
    <2>4. Ended(c, r, q, tk, k, {}, Run)
      BY <1>3, <1>4, <1>5, <2>1, <2>2, <2>2a, <2>3, RunFrame DEF Ended
    <2> QED
      BY <2>4
  <1>6. CASE k = "local"
    <2>1. rq' = q /\ at' = [at EXCEPT ![c] = SchedulePick(c)] /\ r = c
      BY <1>6 DEF WokenEnd, Ending
    <2>2. MayBlock(SchedulePick(c))
      BY PickFrame DEF MayBlock
    <2>2a. EndNotes(c, r, q, tk, k, SchedulePick(c))
      <3>1. OwnedRq(SchedulePick(c), c, c)
        BY PickFrame DEF OwnedRq
      <3> QED
        BY <1>3, <1>6, <2>1, <3>1, NothingEdited DEF EndNotes, OwnedPi
    <2>3. Ended(c, r, q, tk, k, {}, SchedulePick(c))
      BY <1>1, <1>3, <1>4, <1>6, <2>1, <2>2, <2>2a, PickFrame, NothingEdited DEF Ended
    <2> QED
      BY <2>3
  <1> QED
    BY <1>1, <1>5, <1>6

LEMMA PendingEndFacts ==
    ASSUME NEW c \in CPU, NEW q, NEW tk, Ending(c, c, q, tk, "pend"), NEW wl \in SUBSET Task,
           at[c] \in FrameType, FrameOK(at[c], c, rq[c].curr), PendingEnd(q, tk, c, wl)
    PROVE  \E f : Ended(c, c, q, tk, "pend", wl, f)
  <1> DEFINE g == [at[c] EXCEPT !.wl = wl, !.r = NONE, !.t = NONE, !.k = "none"]
  <1>1. q \in [CPU -> RqType] /\ tk \in [Task -> TaskType] /\ task' = tk /\ q[c].lock = c
        /\ InPending(at[c])
    BY DEF Ending, PendingEnd
  <1>2. /\ task' \in [Task -> TaskType] /\ SameTasks(task', tk)
        /\ \A p \in Task : task'[p].pi_lock = tk[p].pi_lock
    BY <1>1, NothingEdited
  <1>3. CASE wl # {}
    <2> DEFINE f == [g EXCEPT !.pc = "activate"]
    <2>1. rq' = q /\ at' = [at EXCEPT ![c] = f]
      BY <1>3 DEF PendingEnd
    <2>2. /\ f \in FrameType /\ f.pc = "activate" /\ f.wl = wl /\ f.t = NONE /\ f.k = "none"
          /\ f.w = at[c].w /\ f.dst = at[c].dst /\ f.ret = at[c].ret
      BY PcNames DEF FrameType
    <2> HIDE DEF f
    <2>3. FrameOK(f, c, rq[c].curr) /\ RqLocks(f, c) = {c} /\ ~ HoldsPi(f) /\ ~ MayBlock(f)
      BY <1>1, <2>2, Names DEF FrameOK, RqLocks, HoldsPi, MayBlock
    <2>3a. EndNotes(c, c, q, tk, "pend", f)
      <3>1. SameNotes(task', tk) /\ SameFlags(rq', q)
        BY <1>1, <2>1, NothingEdited DEF SameNotes
      <3>2. OwnedRq(f, c, c) /\ rq'[c].lock = q[c].lock
        BY <2>1, <2>3 DEF OwnedRq
      <3>3. ~ HoldsPi(at[c])
        BY <1>1 DEF HoldsPi, FrameOK
      <3>4. InTask(at[c]) => InTask(f)
        BY <1>1, <2>2 DEF InTask
      <3>5. Stopping(at[c]) => Stopping(f)
        BY <1>1, <2>2 DEF FrameOK
      <3> QED
        BY <1>2, <2>2, <3>1, <3>2, <3>3, <3>4, <3>5 DEF EndNotes, OwnedPi
    <2>4. Ended(c, c, q, tk, "pend", wl, f)
      BY <1>1, <1>2, <2>1, <2>2, <2>3, <2>3a, NothingEdited DEF Ended
    <2> QED
      BY <2>4
  <1>4. CASE wl = {}
    <2> DEFINE x == at[c].ret
               f == [g EXCEPT !.pc = g.ret, !.ret = "run"]
    <2>1. rq' = [q EXCEPT ![c].lock = NONE] /\ at' = [at EXCEPT ![c] = f]
      BY <1>4 DEF PendingEnd
    <2>2. x \in {"run", "lock", "mig_pi"} /\ x \in Pcs
      BY PcNames DEF FrameType
    <2>3. /\ f \in FrameType /\ f.pc = x /\ f.wl = wl /\ f.t = NONE /\ f.k = "none"
          /\ f.w = at[c].w /\ f.dst = at[c].dst /\ f.ret = "run"
      BY <2>2 DEF FrameType
    <2> HIDE DEF f
    <2>4. FrameOK(f, c, rq[c].curr) /\ RqLocks(f, c) = {} /\ ~ HoldsPi(f) /\ ~ MayBlock(f)
      BY <1>1, <1>4, <2>2, <2>3, Names DEF FrameOK, RqLocks, HoldsPi, MayBlock
    <2>5. /\ rq' \in [CPU -> RqType] /\ SameQueues(rq', q) /\ SameStops(rq', q) /\ SameFlags(rq', q)
          /\ rq'[c].lock = NONE /\ \A d \in CPU \ {c} : rq'[d] = q[d]
      <3>1. Locked(rq', q, c, NONE)
        BY <2>1 DEF Locked
      <3> QED
        BY <1>1, <3>1, UnlockOnly
    <2>5a. EndNotes(c, c, q, tk, "pend", f)
      <3>1. SameNotes(task', tk)
        BY <1>1 DEF SameNotes
      <3>3. ~ HoldsPi(at[c])
        BY <1>1 DEF HoldsPi, FrameOK
      <3>4. InTask(at[c]) => InTask(f)
        BY <1>1, <2>2, <2>3 DEF InTask
      <3>5. Stopping(at[c]) => Stopping(f)
        BY <1>1, <2>2, <2>3 DEF FrameOK
      <3> QED
        BY <1>2, <2>3, <2>5, <3>1, <3>3, <3>4, <3>5 DEF EndNotes, OwnedPi
    <2>6. Ended(c, c, q, tk, "pend", wl, f)
      BY <1>1, <1>2, <2>1, <2>2, <2>3, <2>4, <2>5, <2>5a DEF Ended
    <2> QED
      BY <2>6
  <1> QED
    BY <1>3, <1>4

\* The hook of the class wants to push first.
Pushes(c, r, q, tk, k, p) ==
    /\ rq' = q /\ task' = tk
    /\ at' = [at EXCEPT ![c].pc = "push", ![c].r = r, ![c].k = k, ![c].wl = @ \ {p}]

LEMMA PushedFacts ==
    ASSUME NEW c \in CPU, NEW r, NEW q, NEW tk, NEW k, Ending(c, r, q, tk, k), NEW p,
           at[c] \in FrameType, FrameOK(at[c], c, rq[c].curr), Pushes(c, r, q, tk, k, p)
    PROVE  \E f : Ended(c, r, q, tk, k, at[c].wl \ {p}, f)
  <1> DEFINE f == [at[c] EXCEPT !.pc = "push", !.r = r, !.k = k, !.wl = at[c].wl \ {p}]
  <1>1. at' = [at EXCEPT ![c] = f] /\ rq' = q /\ task' = tk
    BY DEF Pushes
  <1>2. r \in CPU /\ k \in {"none", "ttwu", "pend", "post", "local"} /\ k \in {"ttwu", "local", "pend"}
    BY DEF Ending
  <1>3. /\ f \in FrameType /\ f.pc = "push" /\ f.r = r /\ f.k = k /\ f.wl = at[c].wl \ {p}
        /\ f.t = at[c].t /\ f.w = at[c].w /\ f.dst = at[c].dst /\ f.ret = at[c].ret
    BY <1>2, PcNames, ZenonT(60) DEF FrameType
  <1> HIDE DEF f
  <1>4. FrameOK(f, c, rq[c].curr)
    <2>1. f.wl # {} => k = "pend"
      BY <1>2, <1>3 DEF Ending
    <2> QED
      BY <1>2, <1>3, <2>1, Names DEF FrameOK, Ending
  <1>5. RqLocks(f, c) = {r} /\ (HoldsPi(f) => task'[f.w].pi_lock = c) /\ (MayBlock(f) <=> k = "local")
    BY <1>1, <1>2, <1>3 DEF RqLocks, HoldsPi, MayBlock, Ending
  <1>5a. EndNotes(c, r, q, tk, k, f)
    <2>1. SameNotes(task', tk) /\ SameFlags(rq', q)
      BY <1>1, NothingEdited DEF SameNotes
    <2>2. OwnedRq(f, c, r)
      BY <1>5 DEF OwnedRq
    <2>3. ASSUME NEW x \in Task, OwnedPi(at[c], x) PROVE OwnedPi(f, x)
      <3>1. CASE k \in {"ttwu", "local"}
        BY <1>3, <2>3, <3>1 DEF OwnedPi, HoldsPi
      <3>2. CASE k = "pend"
        <4>1. ~ HoldsPi(at[c])
          BY <3>2 DEF HoldsPi, FrameOK, Ending
        <4> QED
          BY <2>3, <4>1 DEF OwnedPi
      <3> QED
        BY <1>2, <3>1, <3>2
    <2>4. k = "ttwu" \/ (k = "pend" /\ InTask(at[c])) => InTask(f)
      <3>1. CASE k = "ttwu"
        BY <1>3, <3>1 DEF InTask
      <3>2. CASE k = "pend" /\ InTask(at[c])
        <4>1. InPending(at[c])
          BY <3>2 DEF Ending
        <4> QED
          BY <1>3, <3>2, <4>1 DEF InTask
      <3> QED
        BY <3>1, <3>2
    <2>5. k = "pend" /\ Stopping(at[c]) => Stopping(f)
      BY <1>3 DEF FrameOK, Ending
    <2> QED
      BY <1>1, <1>3, <2>1, <2>2, <2>3, <2>4, <2>5 DEF EndNotes
  <1>6. Ended(c, r, q, tk, k, at[c].wl \ {p}, f)
    BY <1>1, <1>2, <1>3, <1>4, <1>5, <1>5a, NothingEdited DEF Ended, Ending
  <1> QED
    BY <1>6

\* ttwu_do_wakeup() marks p running and wakes nobody else up.
LEMMA DoWakeupFacts ==
    ASSUME NEW c \in CPU, NEW r, NEW q, NEW tk, NEW k, Ending(c, r, q, tk, k), NEW p \in Task,
           at[c] \in FrameType, FrameOK(at[c], c, rq[c].curr), k # "pend" => at[c].wl = {},
           ttwu_do_wakeup(q, tk, r, p, c, k)
    PROVE  \E f, q2 :
             /\ q2 \in check_preempt_curr(q, r, p, c)
             /\ Ended(c, r, q2, [tk EXCEPT ![p].state = RUNNING], k, at[c].wl \ {p}, f)
  <1> DEFINE tk2 == [tk EXCEPT ![p].state = RUNNING]
             y == [tk[p] EXCEPT !.state = RUNNING]
             wl == at[c].wl \ {p}
  <1>1. PICK q2 \in check_preempt_curr(q, r, p, c) :
          \/ Pushes(c, r, q2, tk2, k, p)
          \/ k # "pend" /\ WokenEnd(q2, tk2, r, c, k)
          \/ k = "pend" /\ PendingEnd(q2, tk2, r, wl)
    BY DEF ttwu_do_wakeup, Pushes
  <1>2. /\ q \in [CPU -> RqType] /\ r \in CPU /\ tk \in [Task -> TaskType] /\ q[r].lock = c
    BY DEF Ending
  <1>3. q2 \in [CPU -> RqType] /\ q2[r].lock = c
    BY <1>2, PreemptFacts DEF SameLocks
  <1>4. tk2 \in [Task -> TaskType] /\ \A w \in Task : tk2[w].pi_lock = tk[w].pi_lock
    <2>1. y \in TaskType /\ y.pi_lock = tk[p].pi_lock
      BY <1>2 DEF TaskType, RUNNING
    <2>2. tk2 = [tk EXCEPT ![p] = y]
      OBVIOUS
    <2> HIDE DEF y
    <2> QED
      BY <1>2, <2>1, <2>2
  <1> HIDE DEF tk2
  <1>5. Ending(c, r, q2, tk2, k)
    BY <1>3, <1>4 DEF Ending
  <1>6. wl \in SUBSET Task
    BY DEF FrameType
  <1>7. \E f : Ended(c, r, q2, tk2, k, wl, f)
    <2>1. CASE Pushes(c, r, q2, tk2, k, p)
      BY <1>5, <2>1, PushedFacts
    <2>2. CASE k # "pend" /\ WokenEnd(q2, tk2, r, c, k)
      <3>1. wl = {}
        BY <2>2
      <3> QED
        BY <1>5, <2>2, <3>1, WokenEndFacts
    <2>3. CASE k = "pend" /\ PendingEnd(q2, tk2, r, wl)
      <3>1. r = c
        BY <2>3 DEF Ending
      <3> HIDE DEF wl
      <3> QED
        BY <1>5, <1>6, <2>3, <3>1, PendingEndFacts
    <2> QED
      BY <1>1, <2>1, <2>2, <2>3
  <1> QED
    BY <1>7 DEF tk2

\* A wakeup ends without having moved anybody.
LEMMA EndedQuiet ==
    ASSUME IInv, NEW c \in CPU, NEW r, NEW q, NEW k, Ending(c, r, q, task, k), Relocked(q, c),
           NEW f, Ended(c, r, q, task, k, at[c].wl, f),
           at[c].pc \notin QueuePcs \cup {"switch"}, MayBlock(at[c]) => k = "local"
    PROVE  IInv'
  <1>1. r \in CPU /\ q[r].lock = c
    BY DEF Ending
  <1>2. Locks(c, f)
    BY <1>1 DEF Ended, Relocked, Locks
  <1>3. SameQueues(rq', rq) /\ SameStops(rq', rq) /\ SameTasks(task', task)
    BY DEF Ended, Relocked, SameQueues, SameStops
  <1>4. Core' /\ Quiet(c) /\ at'[c] = f
    BY <1>2, <1>3, QuietStep DEF Ended, IInv
  <1>5. Relies(f, c)
    BY DEF Ended, Relies
  <1>6. Calm(c, f)
    BY <1>5 DEF Calm, Ended
  <1> QED
    BY <1>4, <1>6, QuietInv

\* The flags of q are those of u, or CPU c has told CPU r.
Tells(q, u, c, r) ==
    /\ \A d \in CPU \ {r} : q[d] = u[d]
    /\ q[r].idle = u[r].idle /\ (u[r].ipi => q[r].ipi) /\ (u[r].resched => q[r].resched)
    /\ q[r].resched => u[r].resched \/ q[r].ipi \/ r = c \/ u[r].idle = "polling"

\* A wakeup ends in frame f without having moved anybody, or another push does.
EndsQuietly(c, r, k, f) ==
    \E q : /\ Relocked(q, c) /\ Tells(q, rq, c, r) /\ rq[r].lock \in {c, NONE}
           /\ Ending(c, r, q, task, k) /\ Ended(c, r, q, task, k, at[c].wl, f)

\* post_schedule() is over.
EndsPost(c, q) ==
    /\ at[c].k = "post" /\ Relocked(q, c) /\ Droppable(c) /\ ScheduleEnd(q, c)
    /\ \A d \in CPU \ {c} : q[d] = rq[d]
    /\ q[c].lock = NONE /\ q[c].idle = rq[c].idle
    /\ q[c].ipi = rq[c].ipi /\ (rq[c].resched => q[c].resched)

LEMMA PushEndFacts ==
    ASSUME IInv, NEW c \in CPU, PushEnd(c)
    PROVE  \/ \E q : EndsPost(c, q)
           \/ \E f : EndsQuietly(c, at[c].r, at[c].k, f) /\ (MayBlock(at[c]) => at[c].k = "local")
  <1> DEFINE r == at[c].r
             k == at[c].k
  <1>1. /\ Typed /\ at[c] \in FrameType /\ FrameOK(at[c], c, rq[c].curr) /\ Relies(at[c], c)
        /\ at[c].pc = "push" /\ r \in CPU /\ rq[r].lock = c
        /\ (HoldsPi(at[c]) => task[at[c].w].pi_lock = c)
    <2>1. at[c].pc = "push" /\ FrameOK(at[c], c, rq[c].curr)
      BY InvFacts DEF PushEnd
    <2>2. r \in CPU
      BY <2>1 DEF FrameOK
    <2>3. r \in RqLocks(at[c], c)
      BY <2>1, <2>2 DEF RqLocks
    <2> QED
      BY <2>1, <2>2, <2>3, InvFacts
  <1>2. PICK q \in {rq, resched_curr(rq, r, c)} :
            \/ k # "pend" /\ WokenEnd(q, task, r, c, k)
            \/ k = "pend" /\ PendingEnd(q, task, c, at[c].wl)
    BY DEF PushEnd
  <1>3. /\ q \in [CPU -> RqType] /\ SameQueues(q, rq) /\ SameStops(q, rq) /\ SameLocks(q, rq)
    BY <1>1, ReschedFacts, NothingEdited DEF Typed
  <1>3a. Tells(q, rq, c, r) /\ (r = c => q[c].ipi <=> rq[c].ipi)
    <2>1. CASE q = rq
      BY <2>1 DEF Tells
    <2>2. CASE q = resched_curr(rq, r, c)
      <3>1. Tells(q, rq, c, r)
        BY <1>1, <2>2, ReschedFacts DEF Tells, Typed
      <3>2. r = c => q[c].ipi <=> rq[c].ipi
        BY <1>1, <2>2 DEF resched_curr, Typed, RqType
      <3> QED
        BY <3>1, <3>2
    <2> QED
      BY <2>1, <2>2
  <1>4. Relocked(q, c) /\ q[r].lock = c
    BY <1>1, <1>3 DEF Relocked, SameLocks
  <1>5. CASE k = "post"
    <2>1. ScheduleEnd([q EXCEPT ![r].lock = NONE], c) /\ r = c
      BY <1>1, <1>2, <1>5 DEF WokenEnd, FrameOK
    <2> DEFINE u == [q EXCEPT ![c].lock = NONE]
    <2>2. /\ u \in [CPU -> RqType] /\ SameQueues(u, q) /\ SameStops(u, q) /\ SameFlags(u, q)
          /\ u[c].lock = NONE /\ \A d \in CPU \ {c} : u[d] = q[d]
      BY <1>3, UnlockOnly DEF Locked
    <2>2a. ScheduleEnd(u, c)
      BY <2>1 DEF ScheduleEnd
    <2> HIDE DEF u
    <2>3. Relocked(u, c)
      BY <1>1, <1>3, <2>1, <2>2 DEF Relocked, SameQueues, SameStops, SameLocks
    <2>4. Droppable(c)
      BY <1>1, <1>5 DEF Droppable, FrameOK, MayBlock
    <2>5. /\ \A d \in CPU \ {c} : u[d] = rq[d]
          /\ u[c].idle = rq[c].idle /\ (u[c].ipi <=> rq[c].ipi) /\ (rq[c].resched => u[c].resched)
      BY <1>3a, <2>1, <2>2 DEF Tells, SameFlags
    <2>6. u[c].ipi = rq[c].ipi
      BY <1>1, <2>2, <2>5 DEF Typed, RqType
    <2>7. EndsPost(c, u)
      BY <1>5, <2>2, <2>2a, <2>3, <2>4, <2>5, <2>6 DEF EndsPost
    <2> QED
      BY <2>7
  <1>6. CASE k # "post"
    <2>1. k \in {"ttwu", "local", "pend"} /\ at[c].t = NONE /\ at[c].wl \in SUBSET Task
      BY <1>1, <1>6 DEF FrameType, FrameOK
    <2>2. Ending(c, r, q, task, k)
      BY <1>1, <1>3, <1>4, <2>1, Names DEF Ending, Typed, FrameOK, HoldsPi, Relies
    <2>3. MayBlock(at[c]) => k = "local"
      BY <1>1, <2>1 DEF MayBlock
    <2>4. \E f : Ended(c, r, q, task, k, at[c].wl, f)
      <3>1. CASE k = "pend"
        <4>1. r = c /\ PendingEnd(q, task, c, at[c].wl)
          BY <1>1, <1>2, <3>1 DEF FrameOK
        <4>2. Ending(c, c, q, task, "pend")
          BY <2>2, <3>1, <4>1
        <4>3. \E f : Ended(c, c, q, task, "pend", at[c].wl, f)
          BY <1>1, <2>1, <4>1, <4>2, PendingEndFacts
        <4> QED
          BY <3>1, <4>1, <4>3
      <3>2. CASE k # "pend"
        <4>1. at[c].wl = {} /\ WokenEnd(q, task, r, c, k)
          BY <1>1, <1>2, <2>1, <3>2 DEF FrameOK
        <4> QED
          BY <2>2, <3>2, <4>1, WokenEndFacts
      <3> QED
        BY <3>1, <3>2
    <2>5. PICK f : Ended(c, r, q, task, k, at[c].wl, f)
      BY <2>4
    <2>6. EndsQuietly(c, r, k, f)
      BY <1>1, <1>3a, <1>4, <2>2, <2>5 DEF EndsQuietly
    <2> QED
      BY <2>3, <2>6
  <1> QED
    BY <1>5, <1>6

LEMMA PushEndInv ==
    ASSUME IInv, NEW c \in CPU, PushEnd(c)
    PROVE  IInv'
  <1>1. CASE \E q : EndsPost(c, q)
    BY <1>1, ScheduleEndInv DEF EndsPost
  <1>2. CASE \E f : EndsQuietly(c, at[c].r, at[c].k, f) /\ (MayBlock(at[c]) => at[c].k = "local")
    <2>1. PICK f, q : /\ Relocked(q, c) /\ Ending(c, at[c].r, q, task, at[c].k)
                      /\ Ended(c, at[c].r, q, task, at[c].k, at[c].wl, f)
                      /\ MayBlock(at[c]) => at[c].k = "local"
      BY <1>2 DEF EndsQuietly
    <2>2. at[c].pc \notin QueuePcs \cup {"switch"}
      BY DEF PushEnd
    <2> QED
      BY <2>1, <2>2, EndedQuiet
  <1> QED
    BY <1>1, <1>2, PushEndFacts

LEMMA LocalWakeNot ==
    ASSUME IInv, NEW c \in CPU, at[c].pc = "local_rq", rq[c].lock \in {c, NONE},
           WokenEnd([rq EXCEPT ![c].lock = c], task, c, c, "local")
    PROVE  IInv' /\ \E f : EndsQuietly(c, c, "local", f)
  <1> DEFINE q == [rq EXCEPT ![c].lock = c]
  <1>1. /\ Typed /\ at[c] \in FrameType /\ FrameOK(at[c], c, rq[c].curr) /\ Relies(at[c], c)
        /\ task[at[c].w].pi_lock = c
    BY InvFacts DEF HoldsPi
  <1>2. /\ q \in [CPU -> RqType] /\ SameQueues(q, rq) /\ SameStops(q, rq)
        /\ q[c].lock = c /\ \A d \in CPU \ {c} : q[d] = rq[d]
        /\ SameFlags(q, rq)
    <2>1. rq \in [CPU -> RqType] /\ c \in CPU \cup {NONE}
      BY <1>1 DEF Typed
    <2> QED
      BY <2>1, LockEdit, ZenonT(60)
  <1>3. WokenEnd(q, task, c, c, "local")
    OBVIOUS
  <1> HIDE DEF q
  <1>4. Relocked(q, c)
    BY <1>2 DEF Relocked
  <1>5. Ending(c, c, q, task, "local") /\ at[c].wl = {}
    BY <1>1, <1>2, Names DEF Ending, Typed, FrameOK, Relies
  <1>6. \E f : Ended(c, c, q, task, "local", at[c].wl, f)
    BY <1>3, <1>5, WokenEndFacts
  <1>7. Tells(q, rq, c, c)
    BY <1>2 DEF Tells, SameFlags
  <1>8. \E f : EndsQuietly(c, c, "local", f)
    BY <1>4, <1>5, <1>6, <1>7 DEF EndsQuietly
  <1> QED
    BY <1>4, <1>5, <1>6, <1>8, EndedQuiet

-----------------------------------------------------------------------------
(* Wakeups *)

\* Task p is on queue r and running, with CPU c as the waker.
WokenUp(c, r, p) ==
    /\ task[p].cpu = r
    /\ task'[p].state = RUNNING /\ task'[p].on_rq = "queued" /\ task'[p].cpu = r
    /\ task'[p].on_cpu = task[p].on_cpu
    /\ \A x \in Task \ {p} : /\ task'[x].state = task[x].state /\ task'[x].on_rq = task[x].on_rq
                             /\ task'[x].cpu = task[x].cpu /\ task'[x].on_cpu = task[x].on_cpu
    /\ rq'[r].queue = rq[r].queue \cup {p}
    /\ \A d \in CPU \ {r} : rq'[d].queue = rq[d].queue
    /\ \A d \in CPU : rq'[d].curr = rq[d].curr /\ rq'[d].wake_list = rq[d].wake_list

\* Nobody else is concerned with p, and CPU c has it only in its own list or frame.
Mine(c, p) ==
    /\ \A d \in CPU : p \in InList(d) => d = c /\ p \notin rq[c].wake_list
    /\ \A d \in CPU \ {c} : at[d].w = p => at[d].pc \notin QueuePcs \cup {"ttwu_on_cpu", "move_dst"}
    /\ at[c].pc \in QueuePcs => at[c].w = p
    /\ at[c].pc # "switch"

LEMMA WokenPlaces ==
    ASSUME IInv, Core', NEW c \in CPU, NEW r \in CPU, NEW p \in Task, WokenUp(c, r, p), Mine(c, p),
           \A d \in CPU \ {c} : at'[d] = at[d], at'[c].wl = at[c].wl \ {p},
           at'[c].pc \in {"run", "lock", "mig_pi", "pick", "activate", "push"},
           at'[c].k = "local" => c = FirstCPU, MayBlock(at[c]) => MayBlock(at'[c])
    PROVE  IInv'
  <1>0. /\ Typed /\ Typed' /\ at[c] \in FrameType /\ at'[c] \in FrameType
    BY Types, TypesNext DEF IInv, Core, Typed
  <1>1. QueueExact'
    BY DEF IInv, Places, QueueExact, WokenUp
  <1>2. StacksExact'
    <2>1. \A d \in CPU : Stacks(d)' = Stacks(d)
      BY DEF Stacks, WokenUp, Mine
    <2>2. ASSUME NEW d \in CPU, rq'[d].curr \in Task, ~ MayBlock(at'[d])
          PROVE  task'[rq'[d].curr].on_rq = "queued"
      BY <2>2 DEF IInv, Places, StacksExact, WokenUp
    <2>3. ASSUME NEW d \in CPU, NEW x \in Task
          PROVE  x \in Stacks(d)' <=> task'[x].on_cpu /\ task'[x].cpu = d
      BY <2>1 DEF IInv, Places, StacksExact, WokenUp
    <2> QED
      BY <2>2, <2>3 DEF StacksExact
  <1>3. \A d \in CPU : /\ InList(d)' = InList(d) \ {p} /\ rq'[d].wake_list = rq[d].wake_list
                       /\ at'[d].wl \subseteq at[d].wl
    BY DEF InList, WokenUp, Mine
  <1>3a. \A d \in CPU : InList(d) \subseteq Task
    BY <1>0 DEF InList, Typed, RqType, FrameType
  <1>4. ListsExact'
    BY <1>3, <1>3a DEF IInv, Places, ListsExact, WokenUp
  <1>5. WorkersStay'
    BY Names DEF IInv, Places, WorkersStay, WokenUp
  <1>6. ASSUME NEW x \in Task PROVE WakingOK(x)'
    <2>1. x # p => \A d \in CPU : Bears(d, x) => Bears(d, x)'
      BY <1>3 DEF Bears, Mine
    <2> QED
      BY <2>1 DEF IInv, Places, WakingOK, WokenUp, RUNNING, WAKING
  <1>7. ASSUME NEW d \in CPU PROVE Relies(at[d], d)'
    <2>1. CASE d = c
      BY <2>1 DEF Relies
    <2>2. CASE d # c
      <3>1. Relies(at[d], d) /\ at'[d] = at[d] /\ FrameOK(at[d], d, rq[d].curr)
        BY <2>2 DEF IInv, Places, Core
      <3>2. at[d].t \in Task \cup {NONE}
        BY <1>0 DEF Typed, FrameType
      <3>3. at[d].w = p => at[d].pc \notin QueuePcs \cup {"ttwu_on_cpu", "move_dst"}
        BY <2>2 DEF Mine
      <3>4. at[d].pc \in SeenPcs => task'[at[d].w].state # WAKING
        BY <3>1 DEF Relies, FrameOK, WokenUp, RUNNING, WAKING
      <3>5. /\ at[d].pc = "ttwu_on_cpu" => task'[at[d].w].on_rq = "no"
            /\ at[d].pc \in QueuePcs => task'[at[d].w].state = WAKING /\ task'[at[d].w].cpu = at[d].r
            /\ at[d].pc = "move_dst" => task'[at[d].w].on_rq = "migrating" /\ task'[at[d].w].cpu = at[d].dst
        BY <3>1, <3>3 DEF Relies, FrameOK, WokenUp
      <3>6. at[d].pc \in {"bal_try", "both"} /\ at[d].t # NONE =>
              at[d].t \in rq'[at[d].r].queue /\ ~ task'[at[d].t].on_cpu
        BY <3>1, <3>2 DEF Relies, FrameOK, WokenUp
      <3>7. at[d].pc \in QueuePcs => \A e \in CPU : at[d].w \notin InList(e)'
        BY <1>3, <3>1 DEF Relies
      <3> QED
        BY <3>1, <3>4, <3>5, <3>6, <3>7 DEF Relies
    <2> QED
      BY <2>1, <2>2
  <1> QED
    BY <1>1, <1>2, <1>4, <1>5, <1>6, <1>7 DEF IInv, Places

\* The queues q and tasks tk with p on queue r, whose lock CPU c has.
Enqueued(q, tk, c, r, p) ==
    /\ q[r].queue = rq[r].queue \cup {p} /\ q[r].curr = rq[r].curr
    /\ q[r].wake_list = rq[r].wake_list /\ q[r].stop = rq[r].stop
    /\ \A d \in CPU \ {r} : q[d] = rq[d]
    /\ tk[p].on_rq = "queued" /\ tk[p].cpu = task[p].cpu /\ tk[p].on_cpu = task[p].on_cpu
    /\ tk[p].allowed = task[p].allowed /\ tk[p].pi_lock = task[p].pi_lock
    /\ \A x \in Task \ {p} : tk[x] = task[x]
    /\ SameFlags(q, rq) /\ SameNotes(tk, task)

\* CPU c has queued p in q and tk and ends the wakeup for the caller k.
Wakes(c, r, p, k, q, tk) ==
    /\ r \in CPU /\ p \in Task /\ Enqueued(q, tk, c, r, p) /\ Ending(c, r, q, tk, k)
    /\ task[p].cpu = r /\ rq[r].lock \in {c, NONE} /\ Mine(c, p)
    /\ MayBlock(at[c]) => k = "local"
    /\ ttwu_do_wakeup(q, tk, r, p, c, k)

LEMMA DoWakeupInv ==
    ASSUME IInv, NEW c \in CPU, NEW r, NEW p, NEW k, NEW q, NEW tk, Wakes(c, r, p, k, q, tk)
    PROVE  IInv'
  <1> DEFINE tk2 == [tk EXCEPT ![p].state = RUNNING]
             y == [tk[p] EXCEPT !.state = RUNNING]
  <1>1. /\ Core /\ Typed /\ at[c] \in FrameType /\ FrameOK(at[c], c, rq[c].curr)
        /\ q \in [CPU -> RqType] /\ tk \in [Task -> TaskType] /\ (k # "pend" => at[c].wl = {})
    BY InvFacts DEF Ending, Wakes
  <1>1a. /\ r \in CPU /\ p \in Task /\ Enqueued(q, tk, c, r, p) /\ Ending(c, r, q, tk, k)
         /\ task[p].cpu = r /\ rq[r].lock \in {c, NONE} /\ Mine(c, p)
         /\ MayBlock(at[c]) => k = "local"
         /\ ttwu_do_wakeup(q, tk, r, p, c, k)
    BY DEF Wakes
  <1>2. PICK f, q2 : /\ q2 \in check_preempt_curr(q, r, p, c)
                     /\ Ended(c, r, q2, tk2, k, at[c].wl \ {p}, f)
    BY <1>1, <1>1a, DoWakeupFacts
  <1>3. SameQueues(q2, q) /\ SameStops(q2, q) /\ SameLocks(q2, q)
    BY <1>1, <1>1a, <1>2, PreemptFacts
  <1>4. /\ tk2[p].state = RUNNING /\ tk2[p].on_rq = "queued" /\ tk2[p].cpu = r
        /\ tk2[p].on_cpu = task[p].on_cpu /\ tk2[p].allowed = task[p].allowed
        /\ tk2[p].pi_lock = task[p].pi_lock
        /\ \A x \in Task \ {p} : tk2[x] = task[x]
    <2>1. /\ y.state = RUNNING /\ y.on_rq = "queued" /\ y.cpu = r
          /\ y.on_cpu = task[p].on_cpu /\ y.allowed = task[p].allowed
          /\ y.pi_lock = task[p].pi_lock
      BY <1>1, <1>1a DEF TaskType, Enqueued
    <2>2. tk2 = [tk EXCEPT ![p] = y]
      OBVIOUS
    <2> HIDE DEF y
    <2> QED
      BY <1>1, <1>1a, <2>1, <2>2 DEF Enqueued
  <1> HIDE DEF tk2
  <1>5. WokenUp(c, r, p)
    <2>1. SameTasks(task', tk2) /\ SameQueues(rq', q2)
      BY <1>2 DEF Ended
    <2>2. /\ rq'[r].queue = rq[r].queue \cup {p}
          /\ \A d \in CPU \ {r} : rq'[d].queue = rq[d].queue
          /\ \A d \in CPU : rq'[d].curr = rq[d].curr /\ rq'[d].wake_list = rq[d].wake_list
      BY <1>1a, <1>3, <2>1 DEF SameQueues, Enqueued
    <2> QED
      BY <1>1a, <1>4, <2>1, <2>2 DEF WokenUp, SameTasks
  <1>6. Locks(c, f)
    <2>1. \A d \in CPU : rq[d].lock \in {c, NONE} \/ rq'[d].lock = rq[d].lock
      BY <1>1a, <1>2, <1>3 DEF Ended, SameLocks, Enqueued
    <2>2. \A x \in Task : task[x].pi_lock \in {c, NONE} \/ task'[x].pi_lock = task[x].pi_lock
      BY <1>1a, <1>2, <1>4 DEF Ended
    <2> QED
      BY <1>2, <2>1, <2>2 DEF Ended, Locks
  <1>7. Keeps(c, f)
    <2>1. \A x \in Worker : task'[x].allowed = task[x].allowed
      BY <1>1a, <1>2, <1>4, Names DEF Ended, SameTasks
    <2>2. \A d \in CPU : rq'[d].stop = rq[d].stop
      BY <1>1a, <1>2, <1>3 DEF Ended, SameStops, Enqueued
    <2> QED
      BY <1>2, <1>5, <1>6, <2>1, <2>2 DEF Keeps, Ended, WokenUp
  <1>8. Core' /\ at'[c] = f /\ \A d \in CPU \ {c} : at'[d] = at[d]
    BY <1>1, <1>7, CoreStep
  <1>9. /\ f.wl = at[c].wl \ {p} /\ f.pc \in {"run", "lock", "mig_pi", "pick", "activate", "push"}
        /\ (f.k = "local" => c = FirstCPU) /\ (MayBlock(f) <=> k = "local")
    BY <1>2 DEF Ended
  <1> QED
    BY <1>1a, <1>5, <1>8, <1>9, WokenPlaces

\* A task is put on queue r.
LEMMA EnqueuedFacts ==
    ASSUME Typed, NEW c \in CPU, NEW r \in CPU, NEW p \in Task
    PROVE  \E q \in [CPU -> RqType], tk \in [Task -> TaskType] :
             /\ q = [rq EXCEPT ![r].lock = c, ![r].queue = rq[r].queue \cup {p}]
             /\ tk = [task EXCEPT ![p].on_rq = "queued"]
             /\ q[r].lock = c /\ Enqueued(q, tk, c, r, p)
  <1> DEFINE x == [rq[r] EXCEPT !.lock = c, !.queue = rq[r].queue \cup {p}]
             y == [task[p] EXCEPT !.on_rq = "queued"]
             q == [rq EXCEPT ![r] = x]
             tk == [task EXCEPT ![p] = y]
  <1>1. rq[r] \in RqType /\ task[p] \in TaskType
    BY DEF Typed
  <1>2. /\ x \in RqType /\ x.queue = rq[r].queue \cup {p} /\ x.curr = rq[r].curr
        /\ x.wake_list = rq[r].wake_list /\ x.stop = rq[r].stop /\ x.lock = c
        /\ x.resched = rq[r].resched /\ x.ipi = rq[r].ipi /\ x.idle = rq[r].idle
    BY <1>1 DEF RqType
  <1>3. /\ y \in TaskType /\ y.on_rq = "queued" /\ y.cpu = task[p].cpu
        /\ y.on_cpu = task[p].on_cpu /\ y.allowed = task[p].allowed /\ y.pi_lock = task[p].pi_lock
        /\ y.cond = task[p].cond /\ y.step = task[p].step
        /\ y.preempt_active = task[p].preempt_active
    BY <1>1 DEF TaskType
  <1>4. /\ q = [rq EXCEPT ![r].lock = c, ![r].queue = rq[r].queue \cup {p}]
        /\ tk = [task EXCEPT ![p].on_rq = "queued"]
    OBVIOUS
  <1> HIDE DEF x, y
  <1>5. rq \in [CPU -> RqType] /\ task \in [Task -> TaskType]
    BY DEF Typed
  <1>6. q \in [CPU -> RqType] /\ q[r] = x /\ \A d \in CPU \ {r} : q[d] = rq[d]
    BY <1>2, <1>5
  <1>7. tk \in [Task -> TaskType] /\ tk[p] = y /\ \A z \in Task \ {p} : tk[z] = task[z]
    BY <1>3, <1>5
  <1> HIDE DEF q, tk
  <1>8. q[r].lock = c /\ Enqueued(q, tk, c, r, p)
    <2>1. SameFlags(q, rq)
      BY <1>2, <1>6 DEF SameFlags
    <2>2. SameNotes(tk, task)
      BY <1>3, <1>7 DEF SameNotes
    <2> QED
      BY <1>2, <1>3, <1>6, <1>7, <2>1, <2>2 DEF Enqueued
  <1> QED
    BY <1>4, <1>6, <1>7, <1>8

LEMMA TtwuQueueWakes ==
    ASSUME IInv, NEW c \in CPU, TtwuQueue(c)
    PROVE  \E q, tk : Wakes(c, at[c].r, at[c].w, "ttwu", q, tk)
  <1> DEFINE p == at[c].w
             r == at[c].r
  <1>1. /\ Typed /\ FrameOK(at[c], c, rq[c].curr) /\ Relies(at[c], c) /\ at[c].pc = "ttwu_queue"
        /\ p \in Task /\ r \in CPU /\ task[p].pi_lock = c /\ Free(rq[r].lock)
    BY InvFacts DEF TtwuQueue, FrameOK, HoldsPi
  <1>2. PICK q \in [CPU -> RqType], tk \in [Task -> TaskType] :
             /\ q = [rq EXCEPT ![r].lock = c, ![r].queue = rq[r].queue \cup {p}]
             /\ tk = [task EXCEPT ![p].on_rq = "queued"]
             /\ q[r].lock = c /\ Enqueued(q, tk, c, r, p)
    BY <1>1, EnqueuedFacts
  <1>3. ttwu_do_wakeup(q, tk, r, p, c, "ttwu")
    BY <1>2 DEF TtwuQueue
  <1>4. Ending(c, r, q, tk, "ttwu") /\ ~ MayBlock(at[c])
    <2>1. tk[p].pi_lock = c
      BY <1>1, <1>2 DEF Enqueued
    <2>2. at[c].t = NONE /\ at[c].wl = {} /\ ~ MayBlock(at[c])
      BY <1>1 DEF FrameOK, MayBlock
    <2> QED
      BY <1>1, <1>2, <2>1, <2>2 DEF Ending
  <1>5. Mine(c, p) /\ task[p].cpu = r
    <2>1. ASSUME NEW d \in CPU \ {c}, at[d].w = p, at[d].pc \in QueuePcs \cup {"ttwu_on_cpu", "move_dst"}
          PROVE  FALSE
      <3>1. HoldsPi(at[d])
        BY <2>1 DEF HoldsPi
      <3> QED
        BY <1>1, <2>1, <3>1, InvFacts
    <2> QED
      BY <1>1, <2>1 DEF Mine, Relies
  <1>6. Wakes(c, r, p, "ttwu", q, tk)
    BY <1>1, <1>2, <1>3, <1>4, <1>5 DEF Free, Wakes
  <1> QED
    BY <1>6

LEMMA TtwuQueueInv ==
    ASSUME IInv, NEW c \in CPU, TtwuQueue(c)
    PROVE  IInv'
  BY TtwuQueueWakes, DoWakeupInv

LEMMA TtwuRemoteWakes ==
    ASSUME IInv, NEW c \in CPU, TtwuRemote(c)
    PROVE  \/ /\ at[c].pc = "remote_lock" /\ task' = task /\ rq' = rq
              /\ Goto(c, "remote_spin") \/ (Goto(c, "ttwu_on_cpu") /\ task[at[c].w].on_rq = "no")
           \/ /\ at[c].pc = "remote_lock" /\ task[at[c].w].on_rq = "queued"
              /\ \E q, tk : Wakes(c, at[c].r, at[c].w, "ttwu", q, tk)
  <1> DEFINE p == at[c].w
             r == at[c].r
  <1>1. /\ Typed /\ FrameOK(at[c], c, rq[c].curr) /\ Relies(at[c], c) /\ at[c].pc = "remote_lock"
        /\ p \in Task /\ r \in CPU /\ task[p].pi_lock = c /\ Free(rq[r].lock)
    BY InvFacts DEF TtwuRemote, FrameOK, HoldsPi
  <1>2. CASE UNCHANGED <<task, rq>> /\ Goto(c, "remote_spin")
    BY <1>1, <1>2
  <1>3. CASE UNCHANGED <<task, rq>> /\ Goto(c, "ttwu_on_cpu") /\ task[p].on_rq = "no"
    BY <1>1, <1>3
  <1>4. CASE /\ task_rq_is(p, r) /\ task[p].on_rq = "queued"
             /\ ttwu_do_wakeup([rq EXCEPT ![r].lock = c], task, r, p, c, "ttwu")
    <2> DEFINE q == [rq EXCEPT ![r].lock = c]
    <2>1. /\ q \in [CPU -> RqType] /\ SameQueues(q, rq) /\ SameStops(q, rq) /\ SameFlags(q, rq)
          /\ q[r].lock = c /\ \A d \in CPU \ {r} : q[d] = rq[d]
      <3> HIDE DEF r
      <3>1. rq \in [CPU -> RqType] /\ c \in CPU \cup {NONE} /\ r \in CPU
        BY <1>1 DEF Typed
      <3> QED
        BY <3>1, LockEdit
    <2>2. ttwu_do_wakeup(q, task, r, p, c, "ttwu")
      BY <1>4
    <2>3. task[p].cpu = r /\ p \in rq[r].queue /\ task[p].state # WAKING
      BY <1>1, <1>4 DEF task_rq_is, IInv, Places, QueueExact, Relies
    <2> HIDE DEF q
    <2>4. Enqueued(q, task, c, r, p)
      BY <1>1, <1>4, <2>1, <2>3 DEF Enqueued, SameQueues, SameStops, SameNotes
    <2>5. Ending(c, r, q, task, "ttwu") /\ ~ MayBlock(at[c])
      BY <1>1, <2>1 DEF Ending, FrameOK, MayBlock, Typed
    <2>6. Mine(c, p)
      <3>1. ASSUME NEW d \in CPU \ {c}, at[d].w = p, at[d].pc \in QueuePcs \cup {"ttwu_on_cpu", "move_dst"}
            PROVE  FALSE
        <4>1. HoldsPi(at[d])
          BY <3>1 DEF HoldsPi
        <4> QED
          BY <1>1, <3>1, <4>1, InvFacts
      <3>2. \A d \in CPU : p \notin InList(d)
        BY <2>3 DEF IInv, Places, ListsExact
      <3> QED
        BY <1>1, <3>1, <3>2 DEF Mine
    <2>7. Wakes(c, r, p, "ttwu", q, task)
      BY <1>1, <2>2, <2>3, <2>4, <2>5, <2>6 DEF Free, Wakes
    <2> QED
      BY <1>1, <1>4, <2>7
  <1> QED
    BY <1>2, <1>3, <1>4 DEF TtwuRemote

LEMMA TtwuRemoteInv ==
    ASSUME IInv, NEW c \in CPU, TtwuRemote(c)
    PROVE  IInv'
  <1>1. CASE /\ at[c].pc = "remote_lock" /\ task' = task /\ rq' = rq
             /\ Goto(c, "remote_spin") \/ (Goto(c, "ttwu_on_cpu") /\ task[at[c].w].on_rq = "no")
    BY <1>1, TtwuRemoteMisses
  <1>2. CASE \E q, tk : Wakes(c, at[c].r, at[c].w, "ttwu", q, tk)
    BY <1>2, DoWakeupInv
  <1> QED
    BY <1>1, <1>2, TtwuRemoteWakes

LEMMA PendingActivateWakes ==
    ASSUME IInv, NEW c \in CPU, PendingActivate(c)
    PROVE  /\ at[c].pc \in {"pending", "activate"}
           /\ \E p \in Task : /\ p \in at[c].wl /\ task[p].state = WAKING
                            /\ \E q, tk : Wakes(c, c, p, "pend", q, tk)
  <1>1. /\ Typed /\ at[c] \in FrameType /\ FrameOK(at[c], c, rq[c].curr)
        /\ at[c].pc \in {"pending", "activate"} /\ rq[c].lock \in {c, NONE}
    BY InvFacts DEF PendingActivate, RqLocks, Free
  <1>2. PICK p \in at[c].wl :
            ttwu_do_wakeup([rq EXCEPT ![c].lock = c, ![c].queue = rq[c].queue \cup {p}],
                           [task EXCEPT ![p].on_rq = "queued"], c, p, c, "pend")
    BY DEF PendingActivate
  <1>3. p \in Task
    BY <1>1 DEF FrameType
  <1>4. PICK q \in [CPU -> RqType], tk \in [Task -> TaskType] :
             /\ q = [rq EXCEPT ![c].lock = c, ![c].queue = rq[c].queue \cup {p}]
             /\ tk = [task EXCEPT ![p].on_rq = "queued"]
             /\ q[c].lock = c /\ Enqueued(q, tk, c, c, p)
    BY <1>1, <1>3, EnqueuedFacts
  <1>5. ttwu_do_wakeup(q, tk, c, p, c, "pend")
    BY <1>2, <1>4
  <1>6. Ending(c, c, q, tk, "pend") /\ ~ MayBlock(at[c])
    BY <1>1, <1>4 DEF Ending, FrameOK, MayBlock
  <1>7. /\ p \in InList(c) /\ task[p].state = WAKING /\ task[p].cpu = c /\ task[p].on_rq = "no"
        /\ p \notin rq[c].wake_list
    BY <1>3 DEF IInv, Places, ListsExact, InList, WakingOK
  <1>8. Mine(c, p)
    <2>1. ASSUME NEW d \in CPU, p \in InList(d) PROVE d = c
      BY <1>7, <2>1 DEF IInv, Places, ListsExact
    <2>2. ASSUME NEW d \in CPU, at[d].w = p
          PROVE  at[d].pc \notin QueuePcs \cup {"ttwu_on_cpu", "move_dst"}
      <3>1. Relies(at[d], d)
        BY InvFacts
      <3> QED
        BY <1>7, <2>2, <3>1 DEF Relies
    <2> QED
      BY <1>1, <1>7, <2>1, <2>2 DEF Mine
  <1>9. Wakes(c, c, p, "pend", q, tk)
    BY <1>1, <1>3, <1>4, <1>5, <1>6, <1>7, <1>8 DEF Wakes
  <1> QED
    BY <1>1, <1>3, <1>7, <1>9

LEMMA PendingActivateInv ==
    ASSUME IInv, NEW c \in CPU, PendingActivate(c)
    PROVE  IInv'
  BY PendingActivateWakes, DoWakeupInv

LEMMA LocalWakeWakes ==
    ASSUME IInv, NEW c \in CPU, LocalWake(c)
    PROVE  /\ at[c].pc = "local_rq" /\ rq[c].lock \in {c, NONE}
           /\ \/ WokenEnd([rq EXCEPT ![c].lock = c], task, c, c, "local")
              \/ at[c].w \in Worker /\ \E q, tk : Wakes(c, c, at[c].w, "local", q, tk)
  <1> DEFINE p == at[c].w
  <1>1. /\ Typed /\ FrameOK(at[c], c, rq[c].curr) /\ Relies(at[c], c) /\ at[c].pc = "local_rq"
        /\ p \in Worker /\ p \in Task /\ rq[c].lock \in {c, NONE} /\ task[p].pi_lock = c
    BY InvFacts, Names DEF LocalWake, FrameOK, HoldsPi
  <1>2. CASE WokenEnd([rq EXCEPT ![c].lock = c], task, c, c, "local")
    BY <1>1, <1>2
  <1>3. CASE /\ task[p].state = SLEEP
             /\ ttwu_do_wakeup([rq EXCEPT ![c].lock = c, ![c].queue = rq[c].queue \cup {p}],
                               [task EXCEPT ![p].on_rq = "queued"], c, p, c, "local")
    <2>1. PICK q \in [CPU -> RqType], tk \in [Task -> TaskType] :
             /\ q = [rq EXCEPT ![c].lock = c, ![c].queue = rq[c].queue \cup {p}]
             /\ tk = [task EXCEPT ![p].on_rq = "queued"]
             /\ q[c].lock = c /\ Enqueued(q, tk, c, c, p)
      BY <1>1, EnqueuedFacts
    <2>2. ttwu_do_wakeup(q, tk, c, p, c, "local")
      BY <1>3, <2>1
    <2>3. c = FirstCPU /\ task[p].cpu = c /\ task[p].on_rq # "migrating" /\ task[p].state # WAKING
      BY <1>1, <1>3 DEF IInv, Places, WorkersStay, Relies, SLEEP, WAKING
    <2>4. Ending(c, c, q, tk, "local")
      BY <1>1, <2>1, <2>3 DEF Ending, Enqueued, FrameOK
    <2>5. Mine(c, p)
      <3>1. ASSUME NEW d \in CPU \ {c}, at[d].w = p, at[d].pc \in QueuePcs \cup {"ttwu_on_cpu", "move_dst"}
            PROVE  FALSE
        <4>1. HoldsPi(at[d])
          BY <3>1 DEF HoldsPi
        <4> QED
          BY <1>1, <3>1, <4>1, InvFacts
      <3>2. \A d \in CPU : p \notin InList(d)
        BY <2>3 DEF IInv, Places, ListsExact
      <3> QED
        BY <1>1, <3>1, <3>2 DEF Mine
    <2>6. Wakes(c, c, p, "local", q, tk)
      BY <1>1, <2>1, <2>2, <2>3, <2>4, <2>5 DEF Wakes
    <2> QED
      BY <1>1, <2>6
  <1>4. [[rq EXCEPT ![c].lock = c] EXCEPT ![c].queue = @ \cup {p}]
           = [rq EXCEPT ![c].lock = c, ![c].queue = rq[c].queue \cup {p}]
    BY <1>1 DEF Typed
  <1> QED
    BY <1>2, <1>3, <1>4 DEF LocalWake

LEMMA LocalWakeInv ==
    ASSUME IInv, NEW c \in CPU, LocalWake(c)
    PROVE  IInv'
  BY LocalWakeWakes, LocalWakeNot, DoWakeupInv

-----------------------------------------------------------------------------
(* Affinity: the quiet steps *)

LEMMA SetCpusAllowedInv ==
    ASSUME IInv, NEW c \in CPU, NEW p \in Task, NEW mask \in Masks, SetCpusAllowed(c, p, mask)
    PROVE  IInv'
  <1> DEFINE f == [at[c] EXCEPT !.pc = "sca_pi", !.w = p, !.scan = mask]
  <1>1. /\ at[c] \in FrameType /\ FrameOK(at[c], c, rq[c].curr) /\ at[c].pc = "run"
        /\ rq[c].curr \in Task /\ p \notin Worker /\ task' = task /\ rq' = rq
    BY InvFacts DEF SetCpusAllowed
  <1>1a. at' = [at EXCEPT ![c] = f]
    BY DEF SetCpusAllowed
  <1>1b. mask \subseteq CPU
    BY SmpAssumption
  <1>2. /\ f \in FrameType /\ f.pc = "sca_pi" /\ f.w = p /\ f.scan = mask /\ f.t = at[c].t
        /\ f.k = at[c].k /\ f.wl = at[c].wl
    BY <1>1, <1>1b, PcNames DEF FrameType
  <1> HIDE DEF f
  <1>3. FrameOK(f, c, rq[c].curr) /\ RqLocks(f, c) = {} /\ ~ HoldsPi(f)
    BY <1>1, <1>2, Names DEF FrameOK, RqLocks, HoldsPi
  <1>4. Calm(c, f)
    BY <1>1, <1>2, Carefree DEF Calm, MayBlock, FrameOK
  <1>5. (\A d \in RqLocks(f, c) : rq[d].lock = c) /\ (HoldsPi(f) => task[f.w].pi_lock = c)
    BY <1>3
  <1> QED
    BY <1>1, <1>1a, <1>2, <1>3, <1>4, <1>5, FrameInv

LEMMA AllowedPiLockInv ==
    ASSUME IInv, NEW c \in CPU, AllowedPiLock(c)
    PROVE  IInv'
  <1> DEFINE p == at[c].w
             f == [at[c] EXCEPT !.pc = "sca_rq", !.r = task[p].cpu]
  <1>1. /\ Typed /\ at[c] \in FrameType /\ FrameOK(at[c], c, rq[c].curr) /\ at[c].pc = "sca_pi"
        /\ p \in Task /\ Free(task[p].pi_lock) /\ rq' = rq /\ task' = [task EXCEPT ![p].pi_lock = c]
    BY InvFacts DEF AllowedPiLock, FrameOK
  <1>2. at' = [at EXCEPT ![c] = f]
    BY DEF AllowedPiLock
  <1>3. task[p].cpu \in CPU
    <2>1. task[p] \in TaskType
      BY <1>1 DEF Typed
    <2> QED
      BY <2>1 DEF TaskType
  <1>4. /\ f \in FrameType /\ f.pc = "sca_rq" /\ f.w = p /\ f.scan = at[c].scan /\ f.t = at[c].t
        /\ f.k = at[c].k /\ f.wl = at[c].wl /\ f.r \in CPU
    BY <1>1, <1>3, PcNames DEF FrameType
  <1> HIDE DEF f
  <1>5. FrameOK(f, c, rq[c].curr) /\ RqLocks(f, c) = {}
    BY <1>1, <1>4, Names DEF FrameOK, RqLocks
  <1>6. Calm(c, f)
    BY <1>1, <1>4, Carefree DEF Calm, MayBlock, FrameOK
  <1> QED
    BY <1>1, <1>2, <1>4, <1>5, <1>6, TakePiInv

LEMMA MigratePiLockInv ==
    ASSUME IInv, NEW c \in CPU, MigratePiLock(c)
    PROVE  IInv'
  <1> DEFINE p == at[c].w
  <1>1. /\ at[c] \in FrameType /\ FrameOK(at[c], c, rq[c].curr) /\ at[c].pc = "mig_pi"
        /\ p \in Task /\ Free(task[p].pi_lock) /\ rq' = rq /\ task' = [task EXCEPT ![p].pi_lock = c]
    BY InvFacts DEF MigratePiLock, FrameOK
  <1>2. PICK f \in FrameType :
             f.pc = "mig_rq" /\ SameFrame(f, at[c]) /\ at' = [at EXCEPT ![c] = f]
    BY <1>1, PcNames, GotoFacts DEF MigratePiLock
  <1>3. /\ f.w = p /\ f.dst = at[c].dst /\ f.t = at[c].t
        /\ f.k = at[c].k /\ f.wl = at[c].wl
    BY <1>2 DEF SameFrame
  <1>4. FrameOK(f, c, rq[c].curr) /\ RqLocks(f, c) = {}
    BY <1>1, <1>2, <1>3, Names DEF FrameOK, RqLocks
  <1>5. Calm(c, f)
    BY <1>1, <1>2, <1>3, Carefree DEF Calm, MayBlock, FrameOK
  <1> QED
    BY <1>1, <1>2, <1>3, <1>4, <1>5, TakePiInv

\* set_cpus_allowed_ptr() stores the mask and releases the task.
LEMMA ReleasedInv ==
    ASSUME IInv, NEW c \in CPU, at[c].pc = "sca_rq", rq' = rq,
           task' = [task EXCEPT ![at[c].w].pi_lock = NONE, ![at[c].w].allowed = at[c].scan],
           NEW f \in FrameType, at' = [at EXCEPT ![c] = f], FrameOK(f, c, rq[c].curr),
           RqLocks(f, c) = {}, ~ HoldsPi(f), Calm(c, f)
    PROVE  IInv'
  <1> DEFINE p == at[c].w
             y == [task[p] EXCEPT !.pi_lock = NONE, !.allowed = at[c].scan]
  <1>1. /\ Core /\ Typed /\ p \in Task \ Worker /\ task[p].pi_lock = c /\ at[c].scan \in Masks
    BY InvFacts DEF FrameOK, HoldsPi
  <1>2. at[c].scan \in (SUBSET CPU) \ {{}} /\ task[p] \in TaskType
    BY <1>1, SmpAssumption DEF Typed
  <1>3. /\ y \in TaskType /\ y.state = task[p].state /\ y.on_rq = task[p].on_rq
        /\ y.cpu = task[p].cpu /\ y.on_cpu = task[p].on_cpu
    BY <1>2 DEF TaskType
  <1>4. task' = [task EXCEPT ![p] = y]
    OBVIOUS
  <1> HIDE DEF y
  <1>5. /\ task' \in [Task -> TaskType] /\ SamePlaces(task', task)
        /\ \A q \in Task \ {p} : task'[q] = task[q]
    BY <1>1, <1>3, <1>4 DEF Typed, SamePlaces
  <1>6. Locks(c, f)
    BY <1>1, <1>5 DEF Locks
  <1>7. Keeps(c, f)
    BY <1>1, <1>5, <1>6, Names DEF Keeps, Typed
  <1>8. Core' /\ at'[c] = f /\ \A d \in CPU \ {c} : at'[d] = at[d]
    BY <1>1, <1>7, CoreStep
  <1> QED
    BY <1>5, <1>8, NothingEdited, QuietPlaces

LEMMA StopOneCpuInv ==
    ASSUME IInv, NEW c \in CPU, StopOneCpu(c)
    PROVE  IInv'
  <1> DEFINE r == at[c].r
             z == <<at[c].w, at[c].dst, rq[c].curr>>
             x == [rq[r] EXCEPT !.stop = rq[r].stop \cup {z}]
             q == [rq EXCEPT ![r] = x]
  <1>1. /\ Core /\ Typed /\ FrameOK(at[c], c, rq[c].curr) /\ at[c].pc = "sca_stop" /\ r \in CPU
        /\ at[c].w \in Task \ Worker /\ at[c].dst \in CPU /\ rq[c].curr \in Task /\ task' = task
        /\ at' = [at EXCEPT ![c] = Run]
    BY InvFacts DEF StopOneCpu, FrameOK
  <1>2. rq' = resched_curr(q, r, c)
    <2>1. [rq EXCEPT ![r].stop = @ \cup {z}] = q
      OBVIOUS
    <2> QED
      BY <2>1 DEF StopOneCpu
  <1>3. rq[r] \in RqType /\ z \in Task \X CPU \X Task /\ z[1] \notin Worker
    BY <1>1 DEF Typed
  <1> HIDE DEF z
  <1>4. /\ x \in RqType /\ x.queue = rq[r].queue /\ x.curr = rq[r].curr
        /\ x.wake_list = rq[r].wake_list /\ x.stop = rq[r].stop \cup {z} /\ x.lock = rq[r].lock
    BY <1>3 DEF RqType
  <1> HIDE DEF x
  <1>5. /\ q \in [CPU -> RqType] /\ SameQueues(q, rq) /\ SameLocks(q, rq)
        /\ \A d \in CPU : q[d].stop = rq[d].stop \/ q[d].stop = rq[d].stop \cup {z}
    BY <1>1, <1>4 DEF Typed, SameQueues, SameLocks
  <1> HIDE DEF q
  <1>6. /\ rq' \in [CPU -> RqType] /\ SameQueues(rq', q) /\ SameStops(rq', q) /\ SameLocks(rq', q)
    BY <1>1, <1>2, <1>5, ReschedFacts
  <1>7. SameQueues(rq', rq) /\ SameLocks(rq', rq)
    BY <1>5, <1>6 DEF SameQueues, SameLocks
  <1>8. Locks(c, Run)
    BY <1>1, <1>7, RunFrame DEF Locks, SameLocks
  <1>9. Keeps(c, Run)
    <2>1. \A d \in CPU : \A work \in rq'[d].stop : work \in rq[d].stop \/ work[1] \notin Worker
      BY <1>3, <1>5, <1>6 DEF SameStops
    <2> QED
      BY <1>1, <1>6, <1>7, <1>8, <2>1, RunFrame DEF Keeps, Typed, SameQueues
  <1>10. Core' /\ at'[c] = Run /\ \A d \in CPU \ {c} : at'[d] = at[d]
    BY <1>1, <1>9, CoreStep
  <1>11. Calm(c, Run)
    BY <1>1, Carefree DEF Calm, Run, FrameOK, MayBlock
  <1>12. SamePlaces(task', task)
    BY <1>1 DEF SamePlaces
  <1> QED
    BY <1>7, <1>10, <1>11, <1>12, QuietPlaces

\* __migrate_task() has nothing to do.
LEMMA MigrateNot ==
    ASSUME IInv, NEW c \in CPU, at[c].pc = "mig_rq", rq' = rq,
           task' = [task EXCEPT ![at[c].w].pi_lock = NONE], at' = [at EXCEPT ![c] = Run]
    PROVE  IInv'
  <1>1. FrameOK(at[c], c, rq[c].curr) /\ at[c].w \in Task /\ HoldsPi(at[c])
    BY InvFacts DEF FrameOK, HoldsPi
  <1>2. Calm(c, Run)
    BY <1>1, Carefree DEF Calm, Run, FrameOK, MayBlock
  <1> QED
    BY <1>1, <1>2, RunFrame, DropPiInv

-----------------------------------------------------------------------------
(* A task changes its own state *)

\* The task p, whose stack or queue CPU c has, is in another state, not in WAKING.
LEMMA StatePlaces ==
    ASSUME IInv, Core', NEW c \in CPU, NEW p \in Task, task[p].state # WAKING, task'[p].state # WAKING,
           task'[p].state = RUNNING => task[p].on_rq # "no",
           task'[p].on_rq = task[p].on_rq, task'[p].cpu = task[p].cpu, task'[p].on_cpu = task[p].on_cpu,
           \A x \in Task \ {p} : task'[x] = task[x],
           SameQueues(rq', rq), \A d \in CPU \ {c} : at'[d] = at[d], Calm(c, at'[c]),
           at'[c].pc \notin SeenPcs \cup QueuePcs
    PROVE  IInv'
  <1>0. /\ Typed /\ Typed' /\ at[c] \in FrameType /\ at'[c] \in FrameType
    BY Types, TypesNext DEF IInv, Core, Typed
  <1>1. QueueExact'
    BY DEF IInv, Places, QueueExact, SameQueues
  <1>2. StacksExact'
    <2>1. \A d \in CPU : Stacks(d)' = Stacks(d)
      BY DEF Stacks, SameQueues, Calm
    <2>2. ASSUME NEW d \in CPU, rq'[d].curr \in Task, ~ MayBlock(at'[d])
          PROVE  task'[rq'[d].curr].on_rq = "queued"
      BY <2>2 DEF IInv, Places, StacksExact, SameQueues, Calm
    <2>3. ASSUME NEW d \in CPU, NEW x \in Task
          PROVE  x \in Stacks(d)' <=> task'[x].on_cpu /\ task'[x].cpu = d
      BY <2>1 DEF IInv, Places, StacksExact
    <2> QED
      BY <2>2, <2>3 DEF StacksExact
  <1>3. \A d \in CPU : /\ InList(d)' = InList(d) /\ rq'[d].wake_list = rq[d].wake_list
                       /\ at'[d].wl = at[d].wl
    BY DEF InList, SameQueues, Calm
  <1>3a. \A d \in CPU : InList(d) \subseteq Task /\ p \notin InList(d)
    BY <1>0 DEF InList, Typed, RqType, FrameType, IInv, Places, ListsExact
  <1>4. ListsExact'
    BY <1>3, <1>3a DEF IInv, Places, ListsExact
  <1>5. WorkersStay'
    BY Names DEF IInv, Places, WorkersStay
  <1>6. ASSUME NEW x \in Task PROVE WakingOK(x)'
    <2>1. \A d \in CPU : Bears(d, x)' <=> Bears(d, x)
      BY <1>3 DEF Bears, Calm
    <2> QED
      BY <2>1 DEF IInv, Places, WakingOK
  <1>7. ASSUME NEW d \in CPU PROVE Relies(at[d], d)'
    <2>1. Relies(at'[d], d) /\ at'[d] \in FrameType /\ FrameOK(at'[d], d, rq'[d].curr)
      BY <1>0 DEF IInv, Places, Calm, Core, Typed
    <2>2. at'[d].pc \in QueuePcs => at'[d].w # p
      BY <2>1 DEF Relies
    <2>3. at'[d].t \in Task \cup {NONE}
      BY <2>1 DEF FrameType
    <2> QED
      BY <1>3, <2>1, <2>2, <2>3 DEF Relies, FrameOK, SameQueues
  <1> QED
    BY <1>1, <1>2, <1>4, <1>5, <1>6, <1>7 DEF IInv, Places

LEMMA StateInv ==
    ASSUME IInv, NEW c \in CPU, NEW p \in Task, NEW y \in TaskType, task' = [task EXCEPT ![p] = y],
           y.on_rq = task[p].on_rq, y.cpu = task[p].cpu, y.on_cpu = task[p].on_cpu,
           y.allowed = task[p].allowed, y.pi_lock = task[p].pi_lock,
           y.state # WAKING, task[p].state # WAKING, y.state = RUNNING => task[p].on_rq # "no",
           Relocked(rq', c), NEW f \in FrameType, at' = [at EXCEPT ![c] = f],
           FrameOK(f, c, rq[c].curr), Calm(c, f), f.pc \notin SeenPcs \cup QueuePcs,
           \A d \in RqLocks(f, c) : rq'[d].lock = c, ~ HoldsPi(f)
    PROVE  IInv'
  <1>1. Core /\ Typed
    BY InvFacts
  <1>2. /\ task' \in [Task -> TaskType] /\ task'[p] = y /\ \A x \in Task \ {p} : task'[x] = task[x]
    BY <1>1 DEF Typed
  <1>3. Locks(c, f)
    BY <1>2 DEF Locks, Relocked
  <1>4. Keeps(c, f)
    BY <1>2, <1>3, Names DEF Keeps, Relocked, SameQueues, SameStops
  <1>5. Core' /\ at'[c] = f /\ \A d \in CPU \ {c} : at'[d] = at[d]
    BY <1>1, <1>4, CoreStep
  <1> QED
    BY <1>2, <1>5, StatePlaces DEF Relocked

\* The current task of a CPU that is not in __schedule() is on the CPU and queued.
LEMMA CurrentTask ==
    ASSUME IInv, NEW c \in CPU, rq[c].curr \in Task
    PROVE  /\ task[rq[c].curr] \in TaskType /\ task[rq[c].curr].on_cpu /\ task[rq[c].curr].cpu = c
           /\ task[rq[c].curr].state # WAKING
           /\ ~ MayBlock(at[c]) => task[rq[c].curr].on_rq = "queued"
  <1>1. rq[c].curr \in Stacks(c)
    BY DEF Stacks
  <1>2. Typed
    BY InvFacts
  <1> QED
    BY <1>1, <1>2 DEF IInv, Places, StacksExact, WakingOK, Typed

LEMMA AtRun ==
    ASSUME IInv, NEW c \in CPU, at[c].pc = "run"
    PROVE  /\ at[c] \in FrameType /\ FrameOK(at[c], c, rq[c].curr) /\ Calm(c, at[c])
           /\ RqLocks(at[c], c) = {} /\ ~ HoldsPi(at[c]) /\ ~ MayBlock(at[c])
           /\ at' = at => at' = [at EXCEPT ![c] = at[c]]
           /\ Relocked(rq, c)
  <1>1. Typed /\ at[c] \in FrameType /\ FrameOK(at[c], c, rq[c].curr) /\ Relies(at[c], c)
    BY InvFacts
  <1>2. RqLocks(at[c], c) = {} /\ ~ HoldsPi(at[c]) /\ ~ MayBlock(at[c])
    BY <1>1 DEF FrameOK, RqLocks, HoldsPi, MayBlock
  <1>3. Calm(c, at[c])
    BY <1>1 DEF Calm
  <1>4. at' = at => at' = [at EXCEPT ![c] = at[c]]
    BY <1>1 DEF Typed
  <1>5. Relocked(rq, c)
    BY <1>1, NothingEdited DEF Relocked, Typed
  <1> QED
    BY <1>1, <1>2, <1>3, <1>4, <1>5

LEMMA SetCurrentStateInv ==
    ASSUME IInv, NEW c \in CPU, SetCurrentState(c)
    PROVE  IInv'
  <1> DEFINE p == rq[c].curr
             y == [task[p] EXCEPT !.state = SLEEP, !.step = "test"]
  <1>1. /\ p \in Task /\ at[c].pc = "run" /\ rq' = rq /\ at' = at
        /\ task' = [task EXCEPT ![p] = y]
    BY DEF SetCurrentState
  <1>2. task[p] \in TaskType /\ task[p].state # WAKING
    BY <1>1, CurrentTask
  <1>3. /\ y \in TaskType /\ y.state = SLEEP /\ y.on_rq = task[p].on_rq /\ y.cpu = task[p].cpu
        /\ y.on_cpu = task[p].on_cpu /\ y.allowed = task[p].allowed /\ y.pi_lock = task[p].pi_lock
    BY <1>2 DEF TaskType
  <1> HIDE DEF y
  <1>4. y.state # WAKING /\ y.state # RUNNING
    BY <1>3 DEF SLEEP, WAKING, RUNNING
  <1>5. Relocked(rq', c) /\ \A d \in RqLocks(at[c], c) : rq'[d].lock = c
    BY <1>1, AtRun
  <1>6. at[c].pc \notin SeenPcs \cup QueuePcs
    BY <1>1
  <1> QED
    BY <1>1, <1>2, <1>3, <1>4, <1>5, <1>6, AtRun, StateInv

LEMMA TestConditionInv ==
    ASSUME IInv, NEW c \in CPU, TestCondition(c)
    PROVE  IInv'
  <1> DEFINE p == rq[c].curr
             y == [task[p] EXCEPT !.state = RUNNING, !.step = "work", !.cond = FALSE]
             z == [task[p] EXCEPT !.step = "work"]
  <1>1. /\ p \in Task /\ at[c].pc = "run" /\ rq' = rq
    BY DEF TestCondition
  <1>2. task[p] \in TaskType /\ task[p].state # WAKING /\ task[p].on_rq = "queued"
    BY <1>1, CurrentTask, AtRun
  <1>3. Relocked(rq', c)
    BY <1>1, AtRun
  <1>4. CASE task' = [task EXCEPT ![p].state = RUNNING, ![p].step = "work", ![p].cond = FALSE] /\ at' = at
    <2>1. task' = [task EXCEPT ![p] = y]
      BY <1>4
    <2>2. /\ y \in TaskType /\ y.state = RUNNING /\ y.on_rq = task[p].on_rq /\ y.cpu = task[p].cpu
          /\ y.on_cpu = task[p].on_cpu /\ y.allowed = task[p].allowed /\ y.pi_lock = task[p].pi_lock
      BY <1>2 DEF TaskType, RUNNING
    <2> HIDE DEF y
    <2>3. y.state # WAKING
      BY <2>2 DEF WAKING, RUNNING
    <2>4. (\A d \in RqLocks(at[c], c) : rq'[d].lock = c) /\ at[c].pc \notin SeenPcs \cup QueuePcs
      BY <1>1, AtRun
    <2>5. /\ at[c] \in FrameType /\ FrameOK(at[c], c, rq[c].curr) /\ Calm(c, at[c])
          /\ ~ HoldsPi(at[c]) /\ at' = [at EXCEPT ![c] = at[c]]
      BY <1>1, <1>4, AtRun
    <2> QED
      BY <1>1, <1>2, <1>3, <2>1, <2>2, <2>3, <2>4, <2>5, StateInv
  <1>5. CASE task' = [task EXCEPT ![p].step = "work"] /\ Goto(c, "lock")
    <2>1. task' = [task EXCEPT ![p] = z]
      BY <1>5
    <2>2. /\ z \in TaskType /\ z.state = task[p].state /\ z.on_rq = task[p].on_rq /\ z.cpu = task[p].cpu
          /\ z.on_cpu = task[p].on_cpu /\ z.allowed = task[p].allowed /\ z.pi_lock = task[p].pi_lock
      BY <1>2 DEF TaskType
    <2> HIDE DEF z
    <2>3. PICK f \in FrameType : f.pc = "lock" /\ SameFrame(f, at[c]) /\ at' = [at EXCEPT ![c] = f]
      BY <1>1, <1>5, PcNames, AtRun, GotoFacts
    <2>4. f.t = at[c].t /\ f.k = at[c].k /\ f.wl = at[c].wl
      BY <2>3 DEF SameFrame
    <2>5. FrameOK(f, c, rq[c].curr) /\ RqLocks(f, c) = {} /\ ~ HoldsPi(f) /\ f.k = "none"
      BY <1>1, <2>3, <2>4, AtRun, Names DEF FrameOK, RqLocks, HoldsPi
    <2>6. Calm(c, f)
      BY <1>1, <2>3, <2>4, <2>5, AtRun, Carefree DEF Calm
    <2>7. (\A d \in RqLocks(f, c) : rq'[d].lock = c) /\ f.pc \notin SeenPcs \cup QueuePcs
      BY <2>3, <2>5
    <2> QED
      BY <1>1, <1>2, <1>3, <2>1, <2>2, <2>3, <2>5, <2>6, <2>7, StateInv
  <1> QED
    BY <1>4, <1>5 DEF TestCondition

LEMMA ScheduleSignalledInv ==
    ASSUME IInv, NEW c \in CPU, ScheduleSignalled(c)
    PROVE  IInv'
  <1> DEFINE p == rq[c].curr
             y == [task[p] EXCEPT !.state = RUNNING]
  <1>1. /\ p \in Task /\ at[c].pc = "lock" /\ Free(rq[c].lock) /\ rq' = [rq EXCEPT ![c].lock = c]
        /\ at' = [at EXCEPT ![c] = SchedulePick(c)] /\ task' = [task EXCEPT ![p] = y]
    BY DEF ScheduleSignalled
  <1>2. Typed /\ FrameOK(at[c], c, rq[c].curr)
    BY InvFacts
  <1>3. ~ MayBlock(at[c]) /\ at[c].wl = {}
    BY <1>1, <1>2 DEF MayBlock, FrameOK
  <1>4. task[p] \in TaskType /\ task[p].state # WAKING /\ task[p].on_rq = "queued"
    BY <1>1, <1>3, CurrentTask
  <1>5. /\ y \in TaskType /\ y.state = RUNNING /\ y.on_rq = task[p].on_rq /\ y.cpu = task[p].cpu
        /\ y.on_cpu = task[p].on_cpu /\ y.allowed = task[p].allowed /\ y.pi_lock = task[p].pi_lock
    BY <1>4 DEF TaskType, RUNNING
  <1> HIDE DEF y
  <1>6. y.state # WAKING
    BY <1>5 DEF WAKING, RUNNING
  <1>7. Relocked(rq', c) /\ rq'[c].lock = c
    <2>1. /\ rq' \in [CPU -> RqType] /\ SameQueues(rq', rq) /\ SameStops(rq', rq)
          /\ rq'[c].lock = c /\ \A d \in CPU \ {c} : rq'[d] = rq[d]
      <3>1. rq \in [CPU -> RqType] /\ c \in CPU \cup {NONE} /\ rq' = [rq EXCEPT ![c].lock = c]
        BY <1>1, <1>2 DEF Typed
      <3> QED
        BY <3>1, LockEdit
    <2> QED
      BY <1>1, <2>1 DEF Relocked, Free
  <1>8. Calm(c, SchedulePick(c))
    BY <1>1, <1>3, PickFrame, Carefree DEF Calm
  <1>9. /\ \A d \in RqLocks(SchedulePick(c), c) : rq'[d].lock = c
        /\ SchedulePick(c).pc \notin SeenPcs \cup QueuePcs
    BY <1>7, PickFrame
  <1> QED
    BY <1>1, <1>4, <1>5, <1>6, <1>7, <1>8, <1>9, PickFrame, StateInv

-----------------------------------------------------------------------------
(* Steps that concern one task *)

Others(c, p) ==
    /\ \A x \in Task \ {p} : /\ task'[x].state = task[x].state /\ task'[x].on_rq = task[x].on_rq
                             /\ task'[x].cpu = task[x].cpu /\ task'[x].on_cpu = task[x].on_cpu
    /\ \A d \in CPU : \A x \in Task \ {p} : x \in rq'[d].queue <=> x \in rq[d].queue
    /\ \A d \in CPU \ {c} : at'[d] = at[d]

\* What the other CPUs need to know of p.
Suits(c, p) ==
    \A d \in CPU \ {c} :
        /\ at[d].w = p =>
             /\ at[d].pc \in SeenPcs => task'[p].state # WAKING
             /\ at[d].pc = "ttwu_on_cpu" => task'[p].on_rq = "no"
             /\ at[d].pc \in QueuePcs => task'[p].state = WAKING /\ task'[p].cpu = at[d].r
             /\ at[d].pc = "move_dst" => task'[p].on_rq = "migrating" /\ task'[p].cpu = at[d].dst
        /\ at[d].pc \in {"bal_try", "both"} /\ at[d].t = p =>
             p \in rq'[at[d].r].queue /\ ~ task'[p].on_cpu
        /\ at[d].pc \in QueuePcs => \A e \in CPU : at[d].w \notin InList(e)'

LEMMA OthersRely ==
    ASSUME IInv, NEW c \in CPU, NEW p \in Task, Others(c, p), Suits(c, p), NEW d \in CPU, d # c
    PROVE  Relies(at[d], d)'
  <1>1. Relies(at[d], d) /\ FrameOK(at[d], d, rq[d].curr) /\ at[d] \in FrameType /\ at'[d] = at[d]
    BY InvFacts DEF Others
  <1>2. at[d].t \in Task \cup {NONE}
    BY <1>1 DEF FrameType
  <1>3. /\ at[d].pc \in SeenPcs => task'[at[d].w].state # WAKING
        /\ at[d].pc = "ttwu_on_cpu" => task'[at[d].w].on_rq = "no"
        /\ at[d].pc \in QueuePcs => task'[at[d].w].state = WAKING /\ task'[at[d].w].cpu = at[d].r
        /\ at[d].pc = "move_dst" => task'[at[d].w].on_rq = "migrating" /\ task'[at[d].w].cpu = at[d].dst
    <2>1. CASE at[d].w = p
      BY <2>1 DEF Suits
    <2>2. CASE at[d].w # p
      BY <1>1, <2>2 DEF Relies, FrameOK, Others
    <2> QED
      BY <2>1, <2>2
  <1>4. at[d].pc \in {"bal_try", "both"} /\ at[d].t # NONE =>
              at[d].t \in rq'[at[d].r].queue /\ ~ task'[at[d].t].on_cpu
    <2>1. CASE at[d].t = p
      BY <2>1 DEF Suits
    <2>2. CASE at[d].t # p
      BY <1>1, <1>2, <2>2 DEF Relies, FrameOK, Others
    <2> QED
      BY <2>1, <2>2
  <1>5. at[d].pc \in QueuePcs => \A e \in CPU : at[d].w \notin InList(e)'
    BY DEF Suits
  <1> QED
    BY <1>1, <1>3, <1>4, <1>5 DEF Relies

\* No two CPUs hold the pi_lock of one task, or the lock of one queue.
LEMMA OnePi ==
    ASSUME IInv, NEW c \in CPU, NEW d \in CPU, c # d, HoldsPi(at[c]), at[d].w = at[c].w
    PROVE  ~ HoldsPi(at[d])
  BY InvFacts

LEMMA BalLocked ==
    ASSUME IInv, NEW d \in CPU, at[d].pc \in {"bal_try", "both"}
    PROVE  at[d].r \in CPU /\ rq[at[d].r].lock = d
  <1>1. at[d].r \in CPU
    BY InvFacts DEF FrameOK
  <1>2. at[d].r \in RqLocks(at[d], d)
    BY <1>1 DEF RqLocks
  <1> QED
    BY <1>1, <1>2, InvFacts

LEMMA FinishSwitchInv ==
    ASSUME IInv, NEW c \in CPU, FinishSwitch(c)
    PROVE  IInv'
  <1> DEFINE p == at[c].prev
             g == [x \in Task |-> IF x = p THEN [task[x] EXCEPT !.on_cpu = FALSE] ELSE task[x]]
  <1>1. /\ Core /\ Typed /\ at[c] \in FrameType /\ FrameOK(at[c], c, rq[c].curr) /\ rq' = rq
        /\ at[c].pc = "switch" /\ rq[c].lock = c /\ task' = g
    BY InvFacts DEF FinishSwitch, RqLocks
  <1>2. PICK f \in FrameType : f.pc = "unlock" /\ SameFrame(f, at[c]) /\ at' = [at EXCEPT ![c] = f]
    BY <1>1, PcNames, GotoFacts DEF FinishSwitch
  <1>3. f.t = at[c].t /\ f.k = at[c].k /\ f.wl = at[c].wl
    BY <1>2 DEF SameFrame
  <1>4. ASSUME NEW x \in Task
        PROVE  /\ g[x] \in TaskType /\ g[x].state = task[x].state /\ g[x].on_rq = task[x].on_rq
               /\ g[x].cpu = task[x].cpu /\ g[x].allowed = task[x].allowed
               /\ g[x].pi_lock = task[x].pi_lock
               /\ g[x].on_cpu <=> task[x].on_cpu /\ x # p
    <2>1. task[x] \in TaskType
      BY <1>1 DEF Typed
    <2>2. CASE x = p
      BY <2>1, <2>2 DEF TaskType
    <2>3. CASE x # p
      BY <2>1, <2>3 DEF TaskType
    <2> QED
      BY <2>2, <2>3
  <1>4a. g \in [Task -> TaskType]
    BY <1>4
  <1> HIDE DEF g
  <1>5. FrameOK(f, c, rq[c].curr) /\ RqLocks(f, c) = {c} /\ ~ HoldsPi(f)
    BY <1>1, <1>2, <1>3, Names DEF FrameOK, RqLocks, HoldsPi
  <1>6. Locks(c, f)
    BY <1>1, <1>4, <1>5 DEF Locks
  <1>7. Keeps(c, f)
    BY <1>1, <1>2, <1>4, <1>4a, <1>5, <1>6, Names DEF Keeps, Typed
  <1>8. Core' /\ at'[c] = f /\ \A d \in CPU \ {c} : at'[d] = at[d]
    BY <1>1, <1>7, CoreStep
  <1>9. QueueExact' /\ WorkersStay'
    BY <1>1, <1>4, Names DEF IInv, Places, QueueExact, WorkersStay
  <1>10. \A d \in CPU : InList(d)' = InList(d) /\ InList(d) \subseteq Task /\ at'[d].wl = at[d].wl
    BY <1>1, <1>3, <1>8 DEF InList, Typed, RqType, FrameType
  <1>11. ListsExact'
    BY <1>1, <1>4, <1>10 DEF IInv, Places, ListsExact
  <1>12. ASSUME NEW x \in Task PROVE WakingOK(x)'
    <2>1. \A d \in CPU : Bears(d, x) => Bears(d, x)'
      BY <1>1, <1>8, <1>10 DEF Bears
    <2> QED
      BY <1>1, <1>4, <2>1 DEF IInv, Places, WakingOK
  <1>13. StacksExact'
    <2>1. \A d \in CPU \ {c} : Stacks(d)' = Stacks(d)
      BY <1>1, <1>8 DEF Stacks
    <2>2. Stacks(c)' = Task \cap {rq[c].curr} /\ Stacks(c) = Task \cap {rq[c].curr, p} /\ rq[c].curr # p
      BY <1>1, <1>2, <1>8 DEF Stacks, FrameOK
    <2>3. ASSUME NEW d \in CPU, NEW x \in Task
          PROVE  x \in Stacks(d)' <=> task'[x].on_cpu /\ task'[x].cpu = d
      <3>1. x \in Stacks(d) <=> task[x].on_cpu /\ task[x].cpu = d
        BY DEF IInv, Places, StacksExact
      <3>2. x = p => x \in Stacks(c)
        BY <2>2
      <3>3. x = p => task[x].cpu = c
        BY <3>2 DEF IInv, Places, StacksExact
      <3> QED
        BY <1>1, <1>4, <2>1, <2>2, <3>1, <3>3
    <2>4. ASSUME NEW d \in CPU, rq'[d].curr \in Task, ~ MayBlock(at'[d])
          PROVE  task'[rq'[d].curr].on_rq = "queued"
      <3>1. ~ MayBlock(at[c])
        BY <1>1 DEF MayBlock, FrameOK
      <3> QED
        BY <1>1, <1>4, <1>8, <2>4, <3>1 DEF IInv, Places, StacksExact
    <2> QED
      BY <2>3, <2>4 DEF StacksExact
  <1>14. ASSUME NEW d \in CPU PROVE Relies(at[d], d)'
    <2>1. CASE d = c
      BY <1>1, <1>2, <1>3, <1>8, <2>1 DEF Relies, FrameOK
    <2>2. CASE d # c
      <3>1. Relies(at[d], d) /\ FrameOK(at[d], d, rq[d].curr) /\ at[d] \in FrameType /\ at'[d] = at[d]
        BY <1>8, <2>2, InvFacts
      <3>2. at[d].t \in Task \cup {NONE}
        BY <3>1 DEF FrameType
      <3>3. \A x \in Task : /\ task'[x].state = task[x].state /\ task'[x].on_rq = task[x].on_rq
                            /\ task'[x].cpu = task[x].cpu /\ (task'[x].on_cpu => task[x].on_cpu)
        BY <1>1, <1>4
      <3> QED
        BY <1>1, <1>10, <3>1, <3>2, <3>3 DEF Relies, FrameOK
    <2> QED
      BY <2>1, <2>2
  <1> QED
    BY <1>8, <1>9, <1>11, <1>12, <1>13, <1>14 DEF IInv, Places

\* The frame in which a worker that goes to sleep wakes another one.
LEMMA ScheduleBlocksInv ==
    ASSUME IInv, NEW c \in CPU, ScheduleBlocks(c)
    PROVE  IInv'
  <1> DEFINE p == rq[c].curr
             y == [task[p] EXCEPT !.on_rq = "no"]
             z == [rq[c] EXCEPT !.lock = c, !.queue = rq[c].queue \ {p}]
  <1>1. /\ Core /\ Typed /\ at[c] \in FrameType /\ rq[c] \in RqType
        /\ FrameOK(at[c], c, rq[c].curr) /\ at[c].pc = "lock" /\ Free(rq[c].lock) /\ p \in Task
        /\ task[p].state # RUNNING
    BY InvFacts DEF ScheduleBlocks
  <1>2. task' = [task EXCEPT ![p] = y] /\ rq' = [rq EXCEPT ![c] = z]
    BY DEF ScheduleBlocks
  <1>3. /\ ~ MayBlock(at[c]) /\ at[c].wl = {} /\ at[c].t = NONE /\ at[c].k = "none"
    BY <1>1 DEF MayBlock, FrameOK
  <1>4. /\ task[p] \in TaskType /\ task[p].on_cpu /\ task[p].cpu = c /\ task[p].state # WAKING
        /\ task[p].on_rq = "queued"
    BY <1>1, <1>3, CurrentTask
  <1>5. PICK f \in FrameType :
          /\ at' = [at EXCEPT ![c] = f] /\ f.wl = {} /\ f.k = "none" /\ f.pc \in {"pick", "local"}
          /\ FrameOK(f, c, rq[c].curr) /\ RqLocks(f, c) = {c} /\ ~ HoldsPi(f) /\ MayBlock(f)
          /\ (f.pc = "local" => c = FirstCPU)
    <2>1. CASE at' = [at EXCEPT ![c] = SchedulePick(c)]
      BY <2>1, PickFrame DEF MayBlock
    <2>2. CASE p \in Worker /\ \E w \in Worker \ {p} :
                at' = [at EXCEPT ![c].pc = "local", ![c].w = w, ![c].r = c]
      <3>1. PICK w \in Worker : at' = [at EXCEPT ![c].pc = "local", ![c].w = w, ![c].r = c]
        BY <2>2
      <3> DEFINE f == [at[c] EXCEPT !.pc = "local", !.w = w, !.r = c]
      <3>2. at' = [at EXCEPT ![c] = f]
        BY <3>1
      <3>3. /\ f \in FrameType /\ f.pc = "local" /\ f.w = w /\ f.t = at[c].t /\ f.k = at[c].k
            /\ f.wl = at[c].wl
        BY <1>1, PcNames, Names DEF FrameType
      <3>4. c = FirstCPU
        BY <1>4, <2>2 DEF IInv, Places, WorkersStay
      <3> HIDE DEF f
      <3>5. /\ FrameOK(f, c, rq[c].curr) /\ RqLocks(f, c) = {c} /\ ~ HoldsPi(f) /\ MayBlock(f)
        BY <1>3, <3>3, Names DEF FrameOK, RqLocks, HoldsPi, MayBlock
      <3> QED
        BY <1>3, <3>2, <3>3, <3>4, <3>5
    <2> QED
      BY <2>1, <2>2 DEF ScheduleBlocks
  <1>6. /\ y \in TaskType /\ y.state = task[p].state /\ y.on_rq = "no" /\ y.cpu = task[p].cpu
        /\ y.on_cpu = task[p].on_cpu /\ y.allowed = task[p].allowed /\ y.pi_lock = task[p].pi_lock
    BY <1>4 DEF TaskType
  <1>7. /\ z \in RqType /\ z.queue = rq[c].queue \ {p} /\ z.curr = rq[c].curr
        /\ z.wake_list = rq[c].wake_list /\ z.stop = rq[c].stop /\ z.lock = c
    BY <1>1 DEF RqType
  <1> HIDE DEF y, z
  <1>8. /\ task' \in [Task -> TaskType] /\ task'[p] = y /\ \A x \in Task \ {p} : task'[x] = task[x]
        /\ rq' \in [CPU -> RqType] /\ rq'[c] = z /\ \A d \in CPU \ {c} : rq'[d] = rq[d]
    BY <1>1, <1>2, <1>6, <1>7 DEF Typed
  <1>9. Locks(c, f)
    BY <1>1, <1>5, <1>6, <1>7, <1>8 DEF Locks, Free
  <1>10. Keeps(c, f)
    BY <1>5, <1>6, <1>7, <1>8, <1>9, Names DEF Keeps
  <1>11. Core' /\ at'[c] = f /\ \A d \in CPU \ {c} : at'[d] = at[d]
    BY <1>1, <1>10, CoreStep
  <1>12. Others(c, p)
    BY <1>7, <1>8, <1>11 DEF Others
  <1>13. QueueExact'
    BY <1>4, <1>6, <1>7, <1>8 DEF IInv, Places, QueueExact
  <1>14. \A d \in CPU : InList(d)' = InList(d) /\ InList(d) \subseteq Task /\ at'[d].wl = at[d].wl
                        /\ rq'[d].wake_list = rq[d].wake_list
    <2>1. \A d \in CPU : rq'[d].wake_list = rq[d].wake_list /\ at'[d].wl = at[d].wl
      BY <1>3, <1>5, <1>7, <1>8, <1>11
    <2>2. \A d \in CPU : rq[d].wake_list \subseteq Task /\ at[d].wl \subseteq Task
      BY <1>1 DEF Typed, RqType, FrameType
    <2> QED
      BY <2>1, <2>2 DEF InList
  <1>15. ListsExact' /\ WorkersStay'
    BY <1>6, <1>8, <1>14, Names DEF IInv, Places, ListsExact, WorkersStay
  <1>16. ASSUME NEW x \in Task PROVE WakingOK(x)'
    <2>1. \A d \in CPU : Bears(d, x) => Bears(d, x)'
      BY <1>1, <1>11, <1>14 DEF Bears
    <2> QED
      BY <1>1, <1>4, <1>6, <1>8, <2>1 DEF IInv, Places, WakingOK
  <1>17. StacksExact'
    <2>1. \A d \in CPU : Stacks(d)' = Stacks(d) /\ rq'[d].curr = rq[d].curr
      BY <1>1, <1>5, <1>7, <1>8, <1>11 DEF Stacks
    <2>2. ASSUME NEW d \in CPU, NEW x \in Task
          PROVE  x \in Stacks(d)' <=> task'[x].on_cpu /\ task'[x].cpu = d
      BY <1>6, <1>8, <2>1 DEF IInv, Places, StacksExact
    <2>3. ASSUME NEW d \in CPU, rq'[d].curr \in Task, ~ MayBlock(at'[d])
          PROVE  task'[rq'[d].curr].on_rq = "queued"
      <3>1. d # c /\ rq[d].curr \in Task /\ ~ MayBlock(at[d]) /\ rq'[d].curr = rq[d].curr
        BY <1>5, <1>11, <2>1, <2>3
      <3>2. rq[d].curr # p
        BY <1>4, <3>1, CurrentTask
      <3> QED
        BY <1>8, <3>1, <3>2 DEF IInv, Places, StacksExact
    <2> QED
      BY <2>2, <2>3 DEF StacksExact
  <1>18. Suits(c, p)
    <2>1. ASSUME NEW d \in CPU \ {c}, at[d].w = p
          PROVE  at[d].pc \notin QueuePcs \cup {"ttwu_on_cpu", "move_dst"}
      BY <1>4, <2>1, InvFacts DEF Relies
    <2>2. ASSUME NEW d \in CPU \ {c}, at[d].pc \in {"bal_try", "both"} PROVE at[d].t # p
      BY <1>1, <1>4, <2>2, InvFacts, Names DEF Relies
    <2>3. \A d \in CPU \ {c} : at[d].pc \in QueuePcs => \A e \in CPU : at[d].w \notin InList(e)'
      BY <1>14, InvFacts DEF Relies
    <2> QED
      BY <1>4, <1>6, <1>8, <2>1, <2>2, <2>3 DEF Suits
  <1>19. ASSUME NEW d \in CPU PROVE Relies(at[d], d)'
    <2>1. CASE d = c
      BY <1>5, <1>11, <2>1 DEF Relies
    <2>2. CASE d # c
      BY <1>1, <1>12, <1>18, <2>2, OthersRely
    <2> QED
      BY <2>1, <2>2
  <1> QED
    BY <1>11, <1>13, <1>15, <1>16, <1>17, <1>19 DEF IInv, Places

\* pick_next_task() chooses another task, or the idle or the stopper thread.
PicksOther(c, p) ==
    /\ rq' = [rq EXCEPT ![c].resched = FALSE, ![c].curr = p]
    /\ task' = [x \in Task |-> IF x = p THEN [task[x] EXCEPT !.on_cpu = TRUE] ELSE task[x]]
    /\ at' = [at EXCEPT ![c] = [Run EXCEPT !.pc = "switch", !.prev = rq[c].curr]]

LEMMA PickOtherInv ==
    ASSUME IInv, NEW c \in CPU, at[c].pc = "pick", NEW p,
           p \in rq[c].queue \cup {IDLE, STOP}, p # rq[c].curr, PicksOther(c, p)
    PROVE  IInv'
  <1> DEFINE g == [x \in Task |-> IF x = p THEN [task[x] EXCEPT !.on_cpu = TRUE] ELSE task[x]]
             z == [rq[c] EXCEPT !.resched = FALSE, !.curr = p]
             f == [Run EXCEPT !.pc = "switch", !.prev = rq[c].curr]
  <1>1. /\ Core /\ Typed /\ at[c] \in FrameType /\ rq[c] \in RqType
        /\ FrameOK(at[c], c, rq[c].curr) /\ rq[c].lock = c
    BY InvFacts DEF RqLocks
  <1>2. task' = g /\ rq' = [rq EXCEPT ![c] = z] /\ at' = [at EXCEPT ![c] = f]
    BY DEF PicksOther
  <1>3. /\ rq[c].curr \in Task \cup {IDLE, STOP} /\ p \in Task \cup {IDLE, STOP}
        /\ rq[c].queue \subseteq Task
    BY <1>1 DEF RqType
  <1>4. ASSUME NEW x \in Task
        PROVE  /\ g[x] \in TaskType /\ g[x].state = task[x].state /\ g[x].on_rq = task[x].on_rq
               /\ g[x].cpu = task[x].cpu /\ g[x].allowed = task[x].allowed
               /\ g[x].pi_lock = task[x].pi_lock
               /\ g[x].on_cpu <=> task[x].on_cpu \/ x = p
    <2>1. task[x] \in TaskType
      BY <1>1 DEF Typed
    <2>2. CASE x = p
      BY <2>1, <2>2 DEF TaskType
    <2>3. CASE x # p
      BY <2>1, <2>3 DEF TaskType
    <2> QED
      BY <2>2, <2>3
  <1>4a. g \in [Task -> TaskType]
    BY <1>4
  <1>5. /\ z \in RqType /\ z.queue = rq[c].queue /\ z.curr = p
        /\ z.wake_list = rq[c].wake_list /\ z.stop = rq[c].stop /\ z.lock = rq[c].lock
    BY <1>1, <1>3 DEF RqType
  <1>6. /\ f \in FrameType /\ f.pc = "switch" /\ f.prev = rq[c].curr /\ f.wl = {} /\ f.k = "none"
        /\ f.t = NONE
    BY <1>3, PcNames DEF Run, FrameType
  <1> HIDE DEF f, g, z
  <1>7. /\ FrameOK(f, c, p) /\ RqLocks(f, c) = {c} /\ ~ HoldsPi(f) /\ ~ MayBlock(f)
    BY <1>6, Names DEF FrameOK, RqLocks, HoldsPi, MayBlock
  <1>8. /\ rq' \in [CPU -> RqType] /\ rq'[c] = z /\ \A d \in CPU \ {c} : rq'[d] = rq[d]
    BY <1>1, <1>2, <1>5 DEF Typed
  <1>9. Locks(c, f)
    BY <1>1, <1>2, <1>4, <1>5, <1>7, <1>8 DEF Locks
  <1>10. Keeps(c, f)
    BY <1>2, <1>4, <1>4a, <1>5, <1>6, <1>7, <1>8, <1>9, Names DEF Keeps
  <1>11. Core' /\ at'[c] = f /\ \A d \in CPU \ {c} : at'[d] = at[d]
    BY <1>1, <1>10, CoreStep
  <1>12. /\ \A x \in Task : /\ task'[x].state = task[x].state /\ task'[x].on_rq = task[x].on_rq
                            /\ task'[x].cpu = task[x].cpu
         /\ \A d \in CPU : rq'[d].queue = rq[d].queue /\ rq'[d].wake_list = rq[d].wake_list
    BY <1>2, <1>4, <1>5, <1>8
  <1>13. QueueExact' /\ WorkersStay'
    <2>1. QueueExact /\ WorkersStay
      BY DEF IInv, Places
    <2>2. QueueExact'
      BY <1>12, <2>1 DEF QueueExact
    <2>3. WorkersStay'
      BY <1>12, <2>1, Names DEF WorkersStay
    <2> QED
      BY <2>2, <2>3
  <1>14. \A d \in CPU : InList(d)' = InList(d) /\ InList(d) \subseteq Task /\ at'[d].wl = at[d].wl
    <2>1. at[c].wl = {}
      BY <1>1 DEF FrameOK
    <2>2. \A d \in CPU : rq'[d].wake_list = rq[d].wake_list /\ at'[d].wl = at[d].wl
      BY <1>6, <1>11, <1>12, <2>1
    <2>3. \A d \in CPU : rq[d].wake_list \subseteq Task /\ at[d].wl \subseteq Task
      BY <1>1 DEF Typed, RqType, FrameType
    <2> QED
      BY <2>2, <2>3 DEF InList
  <1>15. ListsExact'
    BY <1>12, <1>14 DEF IInv, Places, ListsExact
  <1>16. p \in Task => task[p].cpu = c /\ task[p].on_rq = "queued" /\ p \in rq[c].queue
    BY <1>3, Names DEF IInv, Places, QueueExact
  <1>17. ASSUME NEW x \in Task PROVE WakingOK(x)'
    <2>1. \A d \in CPU : Bears(d, x) => Bears(d, x)'
      BY <1>11, <1>14 DEF Bears
    <2>2. task[x].state = WAKING => x # p
      BY <1>16 DEF IInv, Places, WakingOK
    <2> QED
      BY <1>2, <1>4, <1>12, <2>1, <2>2 DEF IInv, Places, WakingOK
  <1>18. StacksExact'
    <2>1. \A d \in CPU \ {c} : Stacks(d)' = Stacks(d)
      BY <1>8, <1>11 DEF Stacks
    <2>2. Stacks(c)' = Task \cap {p, rq[c].curr} /\ Stacks(c) = Task \cap {rq[c].curr}
      BY <1>5, <1>6, <1>8, <1>11 DEF Stacks
    <2>3. ASSUME NEW d \in CPU, NEW x \in Task
          PROVE  x \in Stacks(d)' <=> task'[x].on_cpu /\ task'[x].cpu = d
      <3>1. x \in Stacks(d) <=> task[x].on_cpu /\ task[x].cpu = d
        BY DEF IInv, Places, StacksExact
      <3> QED
        BY <1>2, <1>4, <1>16, <2>1, <2>2, <3>1
    <2>4. ASSUME NEW d \in CPU, rq'[d].curr \in Task, ~ MayBlock(at'[d])
          PROVE  task'[rq'[d].curr].on_rq = "queued"
      BY <1>5, <1>8, <1>11, <1>12, <1>16, <2>4 DEF IInv, Places, StacksExact
    <2> QED
      BY <2>3, <2>4 DEF StacksExact
  <1>19. ASSUME NEW d \in CPU PROVE Relies(at[d], d)'
    <2>1. CASE d = c
      BY <1>6, <1>11, <2>1 DEF Relies
    <2>2. CASE d # c
      <3>1. Relies(at[d], d) /\ FrameOK(at[d], d, rq[d].curr) /\ at[d] \in FrameType /\ at'[d] = at[d]
        BY <1>11, <2>2, InvFacts
      <3>2. at[d].t \in Task \cup {NONE}
        BY <3>1 DEF FrameType
      <3>3. at[d].pc \in {"bal_try", "both"} /\ at[d].t # NONE => at[d].t # p
        <4>1. ASSUME at[d].pc \in {"bal_try", "both"}, at[d].t = p, p # NONE PROVE FALSE
          <5>1. at[d].r \in CPU /\ rq[at[d].r].lock = d
            BY <4>1, BalLocked
          <5>2. p \in rq[at[d].r].queue /\ p \in Task
            BY <3>1, <3>2, <4>1 DEF Relies
          <5>3. at[d].r = c
            BY <1>16, <5>1, <5>2 DEF IInv, Places, QueueExact
          <5> QED
            BY <1>1, <2>2, <5>1, <5>3
        <4> QED
          BY <4>1
      <3>4. at[d].pc \in {"bal_try", "both"} /\ at[d].t # NONE => ~ task'[at[d].t].on_cpu
        BY <1>2, <1>4, <3>1, <3>2, <3>3 DEF Relies
      <3> QED
        BY <1>12, <1>14, <3>1, <3>2, <3>4 DEF Relies, FrameOK
    <2> QED
      BY <2>1, <2>2
  <1> QED
    BY <1>11, <1>13, <1>15, <1>17, <1>18, <1>19 DEF IInv, Places

LEMMA PickNextTaskInv ==
    ASSUME IInv, NEW c \in CPU, PickNextTask(c)
    PROVE  IInv'
  <1> DEFINE classes == IF rq[c].stop # {} THEN {STOP}
                        ELSE IF rq[c].queue # {} THEN rq[c].queue ELSE {IDLE}
  <1>1. at[c].pc = "pick" /\ rq[c] \in RqType
    BY InvFacts DEF PickNextTask
  <1>2. PICK p \in classes :
          \/ /\ p = rq[c].curr
             /\ Unlocked([rq EXCEPT ![c].resched = FALSE, ![c].lock = NONE], c)
          \/ p # rq[c].curr /\ PicksOther(c, p)
    BY DEF PickNextTask, PicksOther
  <1>3. p \in rq[c].queue \cup {IDLE, STOP}
    OBVIOUS
  <1>4. CASE /\ p = rq[c].curr
             /\ Unlocked([rq EXCEPT ![c].resched = FALSE, ![c].lock = NONE], c)
    <2>1. rq[c].curr \in Task => rq[c].curr \in rq[c].queue
      BY <1>3, <1>4, Names
    <2> QED
      BY <1>1, <1>4, <2>1, PickSameInv
  <1>5. CASE p # rq[c].curr /\ PicksOther(c, p)
    BY <1>1, <1>3, <1>5, PickOtherInv
  <1> QED
    BY <1>2, <1>4, <1>5

-----------------------------------------------------------------------------
(* The full wakeup *)

LEMMA TtwuSelectInv ==
    ASSUME IInv, NEW c \in CPU, TtwuSelect(c)
    PROVE  IInv'
  <1> DEFINE p == at[c].w
  <1>1. /\ Core /\ Typed /\ at[c] \in FrameType /\ FrameOK(at[c], c, rq[c].curr)
        /\ Relies(at[c], c) /\ at[c].pc = "ttwu_on_cpu" /\ p \in Task /\ task[p].pi_lock = c
        /\ ~ task[p].on_cpu /\ rq' = rq
    BY InvFacts DEF TtwuSelect, FrameOK, HoldsPi, task_running
  <1>2. PICK e \in task[p].allowed, x \in QueuePcs :
          /\ task' = [task EXCEPT ![p].state = WAKING, ![p].cpu = e]
          /\ at' = [at EXCEPT ![c].pc = x, ![c].r = e]
    BY DEF TtwuSelect
  <1> DEFINE y == [task[p] EXCEPT !.state = WAKING, !.cpu = e]
             f == [at[c] EXCEPT !.pc = x, !.r = e]
  <1>3. task' = [task EXCEPT ![p] = y] /\ at' = [at EXCEPT ![c] = f]
    BY <1>2
  <1>4. task[p] \in TaskType
    BY <1>1 DEF Typed
  <1>5. e \in CPU /\ x \in Pcs
    BY <1>4, PcNames DEF TaskType
  <1>6. /\ y \in TaskType /\ y.state = WAKING /\ y.on_rq = task[p].on_rq /\ y.cpu = e
        /\ y.on_cpu = task[p].on_cpu /\ y.allowed = task[p].allowed /\ y.pi_lock = task[p].pi_lock
    BY <1>4, <1>5 DEF TaskType, WAKING
  <1>7. /\ f \in FrameType /\ f.pc = x /\ f.w = p /\ f.r = e /\ f.t = at[c].t
        /\ f.k = at[c].k /\ f.wl = at[c].wl
    BY <1>1, <1>5 DEF FrameType
  <1> HIDE DEF y, f
  <1>8. FrameOK(f, c, rq[c].curr) /\ RqLocks(f, c) = {} /\ at[c].wl = {} /\ at[c].k = "none"
        /\ ~ MayBlock(f) /\ ~ MayBlock(at[c])
    BY <1>1, <1>5, <1>7, Names DEF FrameOK, RqLocks, MayBlock
  <1>9. task' \in [Task -> TaskType] /\ task'[p] = y /\ \A v \in Task \ {p} : task'[v] = task[v]
    BY <1>1, <1>3, <1>6 DEF Typed
  <1>10. Locks(c, f)
    BY <1>1, <1>6, <1>7, <1>8, <1>9 DEF Locks
  <1>11. Keeps(c, f)
    BY <1>1, <1>3, <1>6, <1>7, <1>8, <1>9, <1>10, Names DEF Keeps, Typed
  <1>12. Core' /\ at'[c] = f /\ \A d \in CPU \ {c} : at'[d] = at[d]
    BY <1>1, <1>11, CoreStep
  <1>13. Others(c, p)
    BY <1>1, <1>9, <1>12 DEF Others
  <1>14. task[p].on_rq = "no" /\ task[p].state # WAKING /\ \A d \in CPU : p \notin rq[d].queue
    BY <1>1 DEF Relies, IInv, Places, QueueExact
  <1>15. QueueExact'
    BY <1>1, <1>6, <1>9, <1>14 DEF IInv, Places, QueueExact
  <1>16. WorkersStay'
    <2>1. p \in Worker => e = FirstCPU
      BY <1>1, <1>2 DEF Core
    <2> QED
      BY <1>6, <1>9, <1>14, <2>1, Names DEF IInv, Places, WorkersStay
  <1>17. \A d \in CPU : /\ InList(d)' = InList(d) /\ InList(d) \subseteq Task \ {p}
                        /\ at'[d].wl = at[d].wl
    <2>1. \A d \in CPU : rq'[d].wake_list = rq[d].wake_list /\ at'[d].wl = at[d].wl
      BY <1>1, <1>7, <1>12
    <2>2. \A d \in CPU : rq[d].wake_list \subseteq Task /\ at[d].wl \subseteq Task
      BY <1>1 DEF Typed, RqType, FrameType
    <2>3. \A d \in CPU : p \notin InList(d)
      BY <1>14 DEF IInv, Places, ListsExact
    <2> QED
      BY <2>1, <2>2, <2>3 DEF InList
  <1>18. ListsExact'
    BY <1>1, <1>9, <1>17 DEF IInv, Places, ListsExact
  <1>19. ASSUME NEW v \in Task PROVE WakingOK(v)'
    <2>1. \A d \in CPU : Bears(d, v) => Bears(d, v)'
      BY <1>1, <1>12, <1>17 DEF Bears
    <2>3. CASE v = p
      <3>1. /\ task'[v].state = WAKING /\ task'[v].on_rq = "no" /\ ~ task'[v].on_cpu
            /\ RUNNING # WAKING
        BY <1>1, <1>6, <1>9, <1>14, <2>3 DEF RUNNING, WAKING
      <3>2. Bears(c, v)'
        BY <1>7, <1>12, <2>3 DEF Bears
      <3> QED
        BY <3>1, <3>2 DEF WakingOK
    <2>4. CASE v # p
      BY <1>9, <2>1, <2>4 DEF IInv, Places, WakingOK
    <2> QED
      BY <2>3, <2>4
  <1>20. StacksExact'
    <2>1. \A d \in CPU : Stacks(d)' = Stacks(d)
      BY <1>1, <1>7, <1>12 DEF Stacks
    <2>2. ASSUME NEW d \in CPU, NEW v \in Task
          PROVE  v \in Stacks(d)' <=> task'[v].on_cpu /\ task'[v].cpu = d
      BY <1>1, <1>6, <1>9, <2>1 DEF IInv, Places, StacksExact
    <2>3. ASSUME NEW d \in CPU, rq'[d].curr \in Task, ~ MayBlock(at'[d])
          PROVE  task'[rq'[d].curr].on_rq = "queued"
      BY <1>1, <1>6, <1>8, <1>9, <1>12, <2>3 DEF IInv, Places, StacksExact
    <2> QED
      BY <2>2, <2>3 DEF StacksExact
  <1>21. Suits(c, p)
    <2>1. ASSUME NEW d \in CPU \ {c}, at[d].w = p
          PROVE  at[d].pc \notin SeenPcs \cup QueuePcs \cup {"move_dst"}
      BY <1>1, <2>1, OnePi DEF HoldsPi
    <2>2. ASSUME NEW d \in CPU \ {c}, at[d].pc \in {"bal_try", "both"} PROVE at[d].t # p
      <3>1. at[d].r \in CPU /\ Relies(at[d], d)
        BY <2>2, BalLocked, InvFacts
      <3> QED
        BY <1>1, <1>14, <2>2, <3>1, Names DEF Relies
    <2>3. \A d \in CPU \ {c} : at[d].pc \in QueuePcs => \A v \in CPU : at[d].w \notin InList(v)'
      BY <1>17, InvFacts DEF Relies
    <2> QED
      BY <2>1, <2>2, <2>3 DEF Suits
  <1>22. ASSUME NEW d \in CPU PROVE Relies(at[d], d)'
    <2>1. CASE d = c
      BY <1>6, <1>7, <1>8, <1>9, <1>12, <1>17, <2>1 DEF Relies
    <2>2. CASE d # c
      BY <1>1, <1>13, <1>21, <2>2, OthersRely
    <2> QED
      BY <2>1, <2>2
  <1> QED
    BY <1>12, <1>15, <1>16, <1>18, <1>19, <1>20, <1>22 DEF IInv, Places

\* A step after which only the task p is elsewhere: the invariant is left to be shown
\* for p, for the lists and for the frame of CPU c.
LEMMA OneTaskInv ==
    ASSUME IInv, Core', NEW c \in CPU, NEW p \in Task, Others(c, p), Suits(c, p),
           Relies(at[c], c)', WakingOK(p)',
           \A d \in CPU : p \in rq'[d].queue <=> task'[p].on_rq = "queued" /\ task'[p].cpu = d,
           p \in Worker => task'[p].cpu = FirstCPU /\ task'[p].on_rq # "migrating",
           \A d \in CPU : rq'[d].curr = rq[d].curr,
           at[c].pc # "switch", at'[c].pc # "switch",
           task'[p].on_cpu <=> task[p].on_cpu, task[p].on_cpu => task'[p].cpu = task[p].cpu,
           MayBlock(at[c]) => MayBlock(at'[c]),
           task[p].on_cpu /\ task[p].on_rq = "queued" => task'[p].on_rq = "queued",
           \A d \in CPU : \A x \in Task \ {p} : x \in InList(d) <=> x \in InList(d)',
           \A d \in CPU : p \in InList(d)' => task'[p].state = WAKING /\ task'[p].cpu = d,
           \A d \in CPU : rq'[d].wake_list \cap at'[d].wl = {},
           at[c].pc \in QueuePcs => at[c].w = p
    PROVE  IInv'
  <1>1. Typed /\ Typed'
    BY Types, TypesNext DEF IInv, Core
  <1>2. QueueExact'
    <2>1. QueueExact
      BY DEF IInv, Places
    <2>2. ASSUME NEW x \in Task, NEW d \in CPU
          PROVE  x \in rq'[d].queue <=> task'[x].on_rq = "queued" /\ task'[x].cpu = d
      <3>1. CASE x = p
        BY <3>1
      <3>2. CASE x # p
        BY <2>1, <3>2 DEF QueueExact, Others
      <3> QED
        BY <3>1, <3>2
    <2> QED
      BY <2>2 DEF QueueExact
  <1>3. WorkersStay'
    <2>1. WorkersStay
      BY DEF IInv, Places
    <2>2. ASSUME NEW x \in Worker PROVE task'[x].cpu = FirstCPU /\ task'[x].on_rq # "migrating"
      <3>1. CASE x = p
        BY <3>1
      <3>2. CASE x # p
        BY <2>1, <3>2, Names DEF WorkersStay, Others
      <3> QED
        BY <3>1, <3>2
    <2> QED
      BY <2>2 DEF WorkersStay
  <1>4. StacksExact'
    <2>1. ASSUME NEW d \in CPU PROVE Stacks(d)' = Stacks(d)
      <3>1. CASE d = c
        BY <3>1 DEF Stacks
      <3>2. CASE d # c
        BY <3>2 DEF Stacks, Others
      <3> QED
        BY <3>1, <3>2
    <2>2. ASSUME NEW d \in CPU, NEW x \in Task
          PROVE  x \in Stacks(d)' <=> task'[x].on_cpu /\ task'[x].cpu = d
      <3>1. x \in Stacks(d) <=> task[x].on_cpu /\ task[x].cpu = d
        BY DEF IInv, Places, StacksExact
      <3>2. CASE x = p
        BY <2>1, <3>1, <3>2
      <3>3. CASE x # p
        BY <2>1, <3>1, <3>3 DEF Others
      <3> QED
        BY <3>2, <3>3
    <2>3. ASSUME NEW d \in CPU, rq'[d].curr \in Task, ~ MayBlock(at'[d])
          PROVE  task'[rq'[d].curr].on_rq = "queued"
      <3>1. rq[d].curr = rq'[d].curr /\ rq[d].curr \in Task
        BY <2>3
      <3>2. ~ MayBlock(at[d])
        BY <2>3 DEF Others
      <3>3. task[rq[d].curr].on_rq = "queued" /\ task[rq[d].curr].on_cpu
        BY <3>1, <3>2, CurrentTask DEF IInv, Places, StacksExact
      <3>4. CASE rq[d].curr = p
        BY <3>1, <3>3, <3>4
      <3>5. CASE rq[d].curr # p
        BY <3>1, <3>3, <3>5 DEF Others
      <3> QED
        BY <3>4, <3>5
    <2> QED
      BY <2>2, <2>3 DEF StacksExact
  <1>5. ListsExact'
    <2>1. ASSUME NEW d \in CPU, NEW x \in InList(d)' PROVE task'[x].state = WAKING /\ task'[x].cpu = d
      <3>1. x \in Task
        BY <1>1 DEF InList, Typed, RqType, FrameType
      <3>2. CASE x = p
        BY <3>2
      <3>3. CASE x # p
        <4>1. x \in InList(d)
          BY <3>1, <3>3
        <4>2. task[x].state = WAKING /\ task[x].cpu = d
          BY <4>1 DEF IInv, Places, ListsExact
        <4> QED
          BY <3>1, <3>3, <4>2 DEF Others
      <3> QED
        BY <3>2, <3>3
    <2> QED
      BY <2>1 DEF ListsExact
  <1>6. ASSUME NEW x \in Task PROVE WakingOK(x)'
    <2>1. CASE x = p
      BY <2>1
    <2>2. CASE x # p
      <3>1. \A d \in CPU : Bears(d, x) => Bears(d, x)'
        BY <2>2 DEF Bears, Others
      <3> QED
        BY <2>2, <3>1 DEF IInv, Places, WakingOK, Others
    <2> QED
      BY <2>1, <2>2
  <1>7. ASSUME NEW d \in CPU PROVE Relies(at[d], d)'
    <2>1. CASE d = c
      BY <2>1
    <2>2. CASE d # c
      BY <2>2, OthersRely
    <2> QED
      BY <2>1, <2>2
  <1> QED
    BY <1>2, <1>3, <1>4, <1>5, <1>6, <1>7 DEF IInv, Places

LEMMA TtwuListInv ==
    ASSUME IInv, NEW c \in CPU, TtwuList(c)
    PROVE  IInv'
  <1>1. PICK p \in Task, r \in CPU : p = at[c].w /\ r = at[c].r
    BY InvFacts DEF TtwuList, FrameOK
  <1> DEFINE z == [rq[r] EXCEPT !.wake_list = rq[r].wake_list \cup {p}]
  <1>2. /\ Core /\ Typed /\ at[c] \in FrameType /\ FrameOK(at[c], c, rq[c].curr)
        /\ Relies(at[c], c) /\ at[c].pc = "ttwu_list" /\ task[p].pi_lock = c
        /\ rq[r] \in RqType /\ rq' = [rq EXCEPT ![r] = z]
    BY <1>1, InvFacts DEF TtwuList, HoldsPi
  <1>3. /\ at[c].wl = {} /\ at[c].k = "none" /\ at[c].t = NONE /\ ~ MayBlock(at[c])
    BY <1>2 DEF FrameOK, MayBlock
  <1>4. /\ z \in RqType /\ z.queue = rq[r].queue /\ z.curr = rq[r].curr /\ z.lock = rq[r].lock
        /\ z.wake_list = rq[r].wake_list \cup {p} /\ z.stop = rq[r].stop
    BY <1>2 DEF RqType
  <1> HIDE DEF z
  <1>5. PICK f \in FrameType :
          /\ at' = [at EXCEPT ![c] = f] /\ FrameOK(f, c, rq[c].curr) /\ RqLocks(f, c) = {}
          /\ f.wl = {} /\ f.k = "none" /\ f.pc \in {"run", "ttwu_kick"}
          /\ (HoldsPi(f) => f.w = p /\ task'[p].pi_lock = c)
          /\ task' \in [Task -> TaskType] /\ SameTasks(task', task)
          /\ \A x \in Task \ {p} : task'[x] = task[x]
    <2>1. CASE Goto(c, "ttwu_kick") /\ task' = task
      <3>1. PICK f \in FrameType :
              f.pc = "ttwu_kick" /\ SameFrame(f, at[c]) /\ at' = [at EXCEPT ![c] = f]
        BY <1>2, <2>1, PcNames, GotoFacts
      <3>2. f.w = p /\ f.r = r /\ f.t = NONE /\ f.k = "none" /\ f.wl = {}
        BY <1>1, <1>3, <3>1 DEF SameFrame
      <3>3. FrameOK(f, c, rq[c].curr) /\ RqLocks(f, c) = {}
        BY <3>1, <3>2, Names DEF FrameOK, RqLocks
      <3> QED
        BY <1>2, <2>1, <3>1, <3>2, <3>3 DEF Typed, SameTasks
    <2>2. CASE task' = [task EXCEPT ![p].pi_lock = NONE] /\ at' = [at EXCEPT ![c] = Run]
      <3>1. /\ task' \in [Task -> TaskType] /\ SameTasks(task', task)
            /\ \A x \in Task \ {p} : task'[x] = task[x]
        BY <1>2, <2>2, PiLockEdit, NONE \in CPU \cup {NONE}, ZenonT(60) DEF Typed
      <3>2. Run.wl = {} /\ Run.k = "none" /\ Run.pc = "run"
        BY DEF Run
      <3> QED
        BY <2>2, <3>1, <3>2, RunFrame
    <2> QED
      BY <1>1, <2>1, <2>2 DEF TtwuList
  <1>6. rq' \in [CPU -> RqType] /\ rq'[r] = z /\ \A d \in CPU \ {r} : rq'[d] = rq[d]
    BY <1>2, <1>4 DEF Typed
  <1>7. SameStops(rq', rq) /\ SameLocks(rq', rq) /\ \A d \in CPU : rq'[d].queue = rq[d].queue /\ rq'[d].curr = rq[d].curr
    BY <1>4, <1>6 DEF SameStops, SameLocks
  <1>8. Locks(c, f)
    BY <1>2, <1>5, <1>7 DEF Locks, SameLocks
  <1>9. Keeps(c, f)
    BY <1>5, <1>6, <1>7, <1>8, Names DEF Keeps, SameTasks, SameStops
  <1>10. Core' /\ at'[c] = f /\ \A d \in CPU \ {c} : at'[d] = at[d]
    BY <1>2, <1>9, CoreStep
  <1>11. Others(c, p)
    BY <1>5, <1>7, <1>10 DEF Others, SameTasks
  <1>12. task[p].state = WAKING /\ task[p].cpu = r /\ \A d \in CPU : p \notin InList(d)
    BY <1>1, <1>2 DEF Relies
  <1>13. /\ task'[p].state = WAKING /\ task'[p].cpu = r /\ task'[p].on_rq = task[p].on_rq
         /\ task'[p].on_cpu = task[p].on_cpu
    BY <1>5, <1>12 DEF SameTasks
  <1>14. \A d \in CPU : /\ rq'[d].wake_list = IF d = r THEN rq[d].wake_list \cup {p} ELSE rq[d].wake_list
                        /\ at'[d].wl = at[d].wl
    BY <1>3, <1>4, <1>5, <1>6, <1>10
  <1>15. /\ \A d \in CPU : \A x \in Task \ {p} : x \in InList(d) <=> x \in InList(d)'
         /\ \A d \in CPU : p \in InList(d)' => d = r
         /\ p \in InList(r)'
    BY <1>12, <1>14 DEF InList
  <1>16. \A d \in CPU : rq'[d].wake_list \cap at'[d].wl = {}
    <2>1. \A d \in CPU : rq[d].wake_list \cap at[d].wl = {} /\ p \notin at[d].wl
      BY <1>12 DEF IInv, Places, ListsExact, InList
    <2> QED
      BY <1>14, <2>1
  <1>17. WakingOK(p)'
    <2>1. Bears(r, p)'
      BY <1>15 DEF Bears
    <2>2. task[p].on_rq = "no" /\ ~ task[p].on_cpu
      BY <1>12 DEF IInv, Places, WakingOK
    <2>3. RUNNING # WAKING
      BY DEF RUNNING, WAKING
    <2> QED
      BY <1>13, <2>1, <2>2, <2>3 DEF WakingOK
  <1>18. \A d \in CPU : p \in rq'[d].queue <=> task'[p].on_rq = "queued" /\ task'[p].cpu = d
    BY <1>7, <1>12, <1>13 DEF IInv, Places, QueueExact
  <1>19. p \in Worker => task'[p].cpu = FirstCPU /\ task'[p].on_rq # "migrating"
    BY <1>12, <1>13 DEF IInv, Places, WorkersStay
  <1>20. Relies(at[c], c)'
    BY <1>5, <1>10 DEF Relies
  <1>21. Suits(c, p)
    <2>1. ASSUME NEW d \in CPU \ {c}, at[d].w = p
          PROVE  at[d].pc \notin SeenPcs \cup QueuePcs \cup {"move_dst"}
      BY <1>1, <1>2, <2>1, OnePi DEF HoldsPi
    <2>2. ASSUME NEW d \in CPU \ {c}, at[d].pc \in {"bal_try", "both"}, at[d].t = p
          PROVE  p \in rq'[at[d].r].queue /\ ~ task'[p].on_cpu
      BY <1>7, <1>13, <2>2, BalLocked, InvFacts, Names, ZenonT(60) DEF Relies
    <2>3. ASSUME NEW d \in CPU \ {c}, at[d].pc \in QueuePcs, NEW e \in CPU
          PROVE  at[d].w \notin InList(e)'
      BY <1>15, <2>1, <2>3, InvFacts DEF Relies, FrameOK
    <2> QED
      BY <2>1, <2>2, <2>3 DEF Suits
  <1>22. at[c].pc # "switch" /\ at'[c].pc # "switch"
    BY <1>2, <1>5, <1>10
  <1>23. /\ task'[p].on_cpu <=> task[p].on_cpu
         /\ task[p].on_cpu => task'[p].cpu = task[p].cpu
         /\ task[p].on_cpu /\ task[p].on_rq = "queued" => task'[p].on_rq = "queued"
    BY <1>12, <1>13
  <1> QED
    BY <1>1, <1>3, <1>7, <1>10, <1>11, <1>13, <1>15, <1>16, <1>17, <1>18, <1>19, <1>20, <1>21, <1>22,
       <1>23, OneTaskInv

\* move_queued_task() on the new queue.
LEMMA JoinQueueInv ==
    ASSUME IInv, NEW c \in CPU, JoinQueue(c)
    PROVE  IInv'
  <1>1. PICK p \in Task, r \in CPU : p = at[c].w /\ r = at[c].dst
    BY InvFacts DEF JoinQueue, FrameOK
  <1> DEFINE z == [rq[r] EXCEPT !.queue = rq[r].queue \cup {p}]
             q == [rq EXCEPT ![r] = z]
             y == [task[p] EXCEPT !.on_rq = "queued", !.pi_lock = NONE]
  <1>2. /\ Core /\ Typed /\ at[c] \in FrameType /\ FrameOK(at[c], c, rq[c].curr)
        /\ Relies(at[c], c) /\ at[c].pc = "move_dst" /\ task[p].pi_lock = c /\ Free(rq[r].lock)
        /\ rq[r] \in RqType /\ task[p] \in TaskType /\ task' = [task EXCEPT ![p] = y]
        /\ at' = [at EXCEPT ![c] = Run]
    BY <1>1, InvFacts DEF JoinQueue, HoldsPi, Typed
  <1>3. rq' \in check_preempt_curr(q, r, p, c)
    <2>1. q = [rq EXCEPT ![r].queue = @ \cup {p}]
      OBVIOUS
    <2> QED
      BY <1>1, <2>1 DEF JoinQueue
  <1>4. /\ at[c].wl = {} /\ at[c].k = "none" /\ at[c].t = NONE /\ ~ MayBlock(at[c])
    BY <1>2 DEF FrameOK, MayBlock
  <1>5. /\ z \in RqType /\ z.queue = rq[r].queue \cup {p} /\ z.curr = rq[r].curr /\ z.lock = rq[r].lock
        /\ z.wake_list = rq[r].wake_list /\ z.stop = rq[r].stop
    BY <1>2 DEF RqType
  <1>6. /\ y \in TaskType /\ y.state = task[p].state /\ y.on_rq = "queued" /\ y.cpu = task[p].cpu
        /\ y.on_cpu = task[p].on_cpu /\ y.allowed = task[p].allowed
    BY <1>2 DEF TaskType
  <1> HIDE DEF y, z
  <1>7. /\ q \in [CPU -> RqType] /\ q[r] = z /\ \A d \in CPU \ {r} : q[d] = rq[d]
    BY <1>2, <1>5 DEF Typed
  <1>8. task' \in [Task -> TaskType] /\ task'[p] = y /\ \A x \in Task \ {p} : task'[x] = task[x]
    BY <1>2, <1>6 DEF Typed
  <1> HIDE DEF q
  <1>9. /\ rq' \in [CPU -> RqType] /\ SameQueues(rq', q) /\ SameStops(rq', q) /\ SameLocks(rq', q)
    BY <1>3, <1>7, PreemptFacts
  <1>10. /\ rq'[r].queue = rq[r].queue \cup {p} /\ \A d \in CPU \ {r} : rq'[d].queue = rq[d].queue
         /\ \A d \in CPU : rq'[d].curr = rq[d].curr /\ rq'[d].wake_list = rq[d].wake_list
         /\ SameStops(rq', rq) /\ SameLocks(rq', rq)
    BY <1>5, <1>7, <1>9 DEF SameQueues, SameStops, SameLocks
  <1>11. Locks(c, Run)
    BY <1>2, <1>8, <1>10, RunFrame DEF Locks, SameLocks
  <1>12. Keeps(c, Run)
    BY <1>2, <1>6, <1>8, <1>9, <1>10, <1>11, RunFrame, Names DEF Keeps, SameStops
  <1>13. Core' /\ at'[c] = Run /\ \A d \in CPU \ {c} : at'[d] = at[d]
    BY <1>2, <1>12, CoreStep
  <1>14. Others(c, p)
    BY <1>8, <1>10, <1>13 DEF Others
  <1>15. /\ task[p].on_rq = "migrating" /\ task[p].cpu = r /\ task[p].state # WAKING
         /\ \A d \in CPU : p \notin InList(d)
    BY <1>1, <1>2 DEF Relies, IInv, Places, WakingOK, ListsExact
  <1>16. /\ task'[p].state = task[p].state /\ task'[p].cpu = r /\ task'[p].on_rq = "queued"
         /\ task'[p].on_cpu = task[p].on_cpu
    BY <1>6, <1>8, <1>15
  <1>17. \A d \in CPU : rq'[d].wake_list = rq[d].wake_list /\ at'[d].wl = at[d].wl
    <2>1. Run.wl = {}
      BY DEF Run
    <2> QED
      BY <1>4, <1>10, <1>13, <2>1
  <1>18. \A d \in CPU : InList(d)' = InList(d)
    BY <1>17 DEF InList
  <1>19. \A d \in CPU : rq'[d].wake_list \cap at'[d].wl = {}
    BY <1>17 DEF IInv, Places, ListsExact
  <1>20. WakingOK(p)'
    BY <1>15, <1>16 DEF WakingOK
  <1>21. \A d \in CPU : p \in rq'[d].queue <=> task'[p].on_rq = "queued" /\ task'[p].cpu = d
    <2>1. \A d \in CPU : p \notin rq[d].queue
      BY <1>15 DEF IInv, Places, QueueExact
    <2> QED
      BY <1>10, <1>16, <2>1
  <1>22. p \in Worker => task'[p].cpu = FirstCPU /\ task'[p].on_rq # "migrating"
    BY <1>15 DEF IInv, Places, WorkersStay
  <1>23. Relies(at[c], c)'
    BY <1>13, Carefree DEF Run, Relies
  <1>24. Suits(c, p)
    <2>1. ASSUME NEW d \in CPU \ {c}, at[d].w = p
          PROVE  at[d].pc \notin SeenPcs \cup QueuePcs \cup {"move_dst"}
      BY <1>1, <1>2, <2>1, OnePi DEF HoldsPi
    <2>2. ASSUME NEW d \in CPU \ {c}, at[d].pc \in {"bal_try", "both"}, at[d].t = p
          PROVE  p \in rq'[at[d].r].queue /\ ~ task'[p].on_cpu
      <3>1. p \in rq[at[d].r].queue /\ at[d].r \in CPU
        BY <2>2, BalLocked, InvFacts, Names DEF Relies
      <3> QED
        BY <1>15, <3>1 DEF IInv, Places, QueueExact
    <2>3. ASSUME NEW d \in CPU \ {c}, at[d].pc \in QueuePcs, NEW e \in CPU
          PROVE  at[d].w \notin InList(e)'
      BY <1>18, <2>3, InvFacts DEF Relies
    <2> QED
      BY <2>1, <2>2, <2>3 DEF Suits
  <1>25. at[c].pc # "switch" /\ at'[c].pc # "switch" /\ at[c].pc \notin QueuePcs
    BY <1>2, <1>13 DEF Run
  <1>26. /\ task'[p].on_cpu <=> task[p].on_cpu
         /\ task[p].on_cpu => task'[p].cpu = task[p].cpu
         /\ task[p].on_cpu /\ task[p].on_rq = "queued" => task'[p].on_rq = "queued"
    BY <1>15, <1>16
  <1>27. /\ \A d \in CPU : \A x \in Task \ {p} : x \in InList(d) <=> x \in InList(d)'
         /\ \A d \in CPU : p \in InList(d)' => task'[p].state = WAKING /\ task'[p].cpu = d
    BY <1>15, <1>18
  <1> QED
    BY <1>4, <1>10, <1>13, <1>14, <1>27, <1>19, <1>20, <1>21, <1>22, <1>23, <1>24, <1>25,
       <1>26, OneTaskInv

\* move_queued_task() takes a task that does not run off its queue.
LEMMA LeaveQueueInv ==
    ASSUME IInv, NEW c \in CPU, NEW p \in Task, NEW r \in CPU, NEW e \in CPU, p = at[c].w,
           at[c].pc \in {"sca_rq", "mig_rq"}, Free(rq[r].lock), task[p].on_rq = "queued",
           task[p].cpu = r, ~ task[p].on_cpu, LeaveQueue(c, p, r, e)
    PROVE  IInv'
  <1> DEFINE mask == IF at[c].pc = "sca_rq" THEN at[c].scan ELSE task[p].allowed
             z == [rq[r] EXCEPT !.queue = rq[r].queue \ {p}]
             y == [task[p] EXCEPT !.on_rq = "migrating", !.cpu = e, !.allowed = mask]
             f == [Run EXCEPT !.pc = "move_dst", !.w = p, !.dst = e]
  <1>1. /\ Core /\ Typed /\ at[c] \in FrameType /\ FrameOK(at[c], c, rq[c].curr)
        /\ task[p].pi_lock = c /\ rq[r] \in RqType /\ task[p] \in TaskType /\ HoldsPi(at[c])
    BY InvFacts DEF HoldsPi, Typed
  <1>2. task' = [task EXCEPT ![p] = y] /\ at' = [at EXCEPT ![c] = f] /\ rq' = [rq EXCEPT ![r] = z]
    BY DEF LeaveQueue
  <1>3. mask \in (SUBSET CPU) \ {{}}
    BY <1>1, SmpAssumption DEF FrameOK, TaskType
  <1>4. /\ at[c].wl = {} /\ at[c].k = "none" /\ at[c].t = NONE /\ ~ MayBlock(at[c]) /\ p \notin Worker
    BY <1>1 DEF FrameOK, MayBlock
  <1>5. /\ z \in RqType /\ z.queue = rq[r].queue \ {p} /\ z.curr = rq[r].curr /\ z.lock = rq[r].lock
        /\ z.wake_list = rq[r].wake_list /\ z.stop = rq[r].stop
    BY <1>1 DEF RqType
  <1> HIDE DEF mask
  <1>6. /\ y \in TaskType /\ y.state = task[p].state /\ y.on_rq = "migrating" /\ y.cpu = e
        /\ y.on_cpu = task[p].on_cpu /\ y.pi_lock = task[p].pi_lock
    BY <1>1, <1>3 DEF TaskType
  <1>7. /\ f \in FrameType /\ f.pc = "move_dst" /\ f.w = p /\ f.dst = e /\ f.wl = {} /\ f.k = "none"
        /\ f.t = NONE
    BY PcNames DEF FrameType, Run
  <1> HIDE DEF y, z, f
  <1>8. FrameOK(f, c, rq[c].curr) /\ RqLocks(f, c) = {}
    BY <1>4, <1>7, Names DEF FrameOK, RqLocks
  <1>9. /\ rq' \in [CPU -> RqType] /\ rq'[r] = z /\ \A d \in CPU \ {r} : rq'[d] = rq[d]
    BY <1>1, <1>2, <1>5 DEF Typed
  <1>10. task' \in [Task -> TaskType] /\ task'[p] = y /\ \A x \in Task \ {p} : task'[x] = task[x]
    BY <1>1, <1>2, <1>6 DEF Typed
  <1>11. /\ rq'[r].queue = rq[r].queue \ {p} /\ \A d \in CPU \ {r} : rq'[d].queue = rq[d].queue
         /\ \A d \in CPU : rq'[d].curr = rq[d].curr /\ rq'[d].wake_list = rq[d].wake_list
         /\ SameStops(rq', rq) /\ SameLocks(rq', rq)
    BY <1>5, <1>9 DEF SameStops, SameLocks
  <1>12. Locks(c, f)
    BY <1>1, <1>6, <1>7, <1>8, <1>10, <1>11 DEF Locks, SameLocks
  <1>13. Keeps(c, f)
    BY <1>2, <1>4, <1>7, <1>8, <1>9, <1>10, <1>11, <1>12, Names DEF Keeps, SameStops
  <1>14. Core' /\ at'[c] = f /\ \A d \in CPU \ {c} : at'[d] = at[d]
    BY <1>1, <1>13, CoreStep
  <1>15. Others(c, p)
    BY <1>10, <1>11, <1>14 DEF Others
  <1>16. /\ task[p].state # WAKING /\ \A d \in CPU : p \notin InList(d)
         /\ \A d \in CPU : p \in rq[d].queue <=> d = r
    BY DEF IInv, Places, WakingOK, ListsExact, QueueExact
  <1>17. /\ task'[p].state = task[p].state /\ task'[p].cpu = e /\ task'[p].on_rq = "migrating"
         /\ ~ task'[p].on_cpu
    BY <1>6, <1>10
  <1>18. \A d \in CPU : rq'[d].wake_list = rq[d].wake_list /\ at'[d].wl = at[d].wl
    BY <1>4, <1>7, <1>11, <1>14
  <1>19. \A d \in CPU : InList(d)' = InList(d)
    BY <1>18 DEF InList
  <1>20. \A d \in CPU : rq'[d].wake_list \cap at'[d].wl = {}
    BY <1>18 DEF IInv, Places, ListsExact
  <1>21. WakingOK(p)'
    BY <1>16, <1>17 DEF WakingOK
  <1>22. \A d \in CPU : p \in rq'[d].queue <=> task'[p].on_rq = "queued" /\ task'[p].cpu = d
    BY <1>11, <1>16, <1>17
  <1>23. Relies(at[c], c)'
    BY <1>7, <1>14, <1>17 DEF Relies
  <1>24. Suits(c, p)
    <2>1. ASSUME NEW d \in CPU \ {c}, at[d].w = p
          PROVE  at[d].pc \notin SeenPcs \cup QueuePcs \cup {"move_dst"}
      BY <1>1, <2>1, OnePi DEF HoldsPi
    <2>2. ASSUME NEW d \in CPU \ {c}, at[d].pc \in {"bal_try", "both"} PROVE at[d].t # p
      <3>1. at[d].r \in CPU /\ rq[at[d].r].lock = d /\ Relies(at[d], d)
        BY <2>2, BalLocked, InvFacts
      <3>2. at[d].t = p => at[d].r = r
        BY <1>16, <2>2, <3>1, Names DEF Relies
      <3> QED
        BY <3>1, <3>2, Names DEF Free
    <2>3. ASSUME NEW d \in CPU \ {c}, at[d].pc \in QueuePcs, NEW x \in CPU
          PROVE  at[d].w \notin InList(x)'
      BY <1>19, <2>3, InvFacts DEF Relies
    <2> QED
      BY <2>1, <2>2, <2>3 DEF Suits
  <1>25. at[c].pc # "switch" /\ at'[c].pc # "switch" /\ at[c].pc \notin QueuePcs
    BY <1>7, <1>14
  <1>26. /\ \A d \in CPU : \A x \in Task \ {p} : x \in InList(d) <=> x \in InList(d)'
         /\ \A d \in CPU : p \in InList(d)' => task'[p].state = WAKING /\ task'[p].cpu = d
    BY <1>16, <1>19
  <1> QED
    BY <1>4, <1>11, <1>14, <1>15, <1>17, <1>20, <1>21, <1>22, <1>23, <1>24, <1>25, <1>26, OneTaskInv

LEMMA MigrateTaskInv ==
    ASSUME IInv, NEW c \in CPU, MigrateTask(c)
    PROVE  IInv'
  <1>1. /\ at[c].pc = "mig_rq" /\ Free(rq[c].lock) /\ FrameOK(at[c], c, rq[c].curr)
    BY InvFacts DEF MigrateTask
  <1>2. PICK p \in Task, e \in CPU : p = at[c].w /\ e = at[c].dst /\ rq[c].curr = STOP
    BY <1>1 DEF FrameOK
  <1>3. CASE /\ task[p].cpu = c /\ task[p].on_rq = "queued" /\ LeaveQueue(c, p, c, e)
    <2>1. p \notin Stacks(c)
      BY <1>1, <1>2, Names DEF Stacks
    <2>2. ~ task[p].on_cpu
      BY <1>3, <2>1 DEF IInv, Places, StacksExact
    <2> QED
      BY <1>1, <1>2, <1>3, <2>2, LeaveQueueInv
  <1>4. CASE /\ task' = [task EXCEPT ![p].pi_lock = NONE] /\ at' = [at EXCEPT ![c] = Run] /\ rq' = rq
    BY <1>1, <1>2, <1>4, MigrateNot
  <1> QED
    BY <1>2, <1>3, <1>4 DEF MigrateTask

LEMMA AllowedRqLockInv ==
    ASSUME IInv, NEW c \in CPU, AllowedRqLock(c)
    PROVE  IInv'
  <1>1. /\ at[c].pc = "sca_rq" /\ FrameOK(at[c], c, rq[c].curr) /\ at[c] \in FrameType
        /\ HoldsPi(at[c]) /\ Typed /\ Free(rq[at[c].r].lock)
    BY InvFacts DEF AllowedRqLock, HoldsPi
  <1>2. PICK p \in Task, r \in CPU, mask \in Masks : p = at[c].w /\ r = at[c].r /\ mask = at[c].scan
    BY <1>1 DEF FrameOK
  <1> DEFINE released == [task EXCEPT ![p].pi_lock = NONE, ![p].allowed = mask]
  <1>3. Calm(c, Run)
    BY <1>1, Carefree DEF Calm, Run, FrameOK, MayBlock
  <1>4. CASE task' = [task EXCEPT ![p].pi_lock = NONE] /\ Goto(c, "sca_pi") /\ rq' = rq
    <2>1. PICK f \in FrameType :
             f.pc = "sca_pi" /\ SameFrame(f, at[c]) /\ at' = [at EXCEPT ![c] = f]
      BY <1>1, <1>4, PcNames, GotoFacts
    <2>2. f.w = p /\ f.scan = mask /\ f.t = at[c].t /\ f.k = at[c].k /\ f.wl = at[c].wl
      BY <1>2, <2>1 DEF SameFrame
    <2>3. FrameOK(f, c, rq[c].curr) /\ RqLocks(f, c) = {} /\ ~ HoldsPi(f)
      BY <1>1, <1>2, <2>1, <2>2, Names DEF FrameOK, RqLocks, HoldsPi
    <2>4. Calm(c, f)
      BY <1>1, <2>1, <2>2, Carefree DEF Calm, FrameOK, MayBlock
    <2> QED
      BY <1>1, <1>2, <1>4, <2>1, <2>3, <2>4, DropPiInv
  <1>5. CASE task' = released /\ at' = [at EXCEPT ![c] = Run] /\ rq' = rq
    BY <1>1, <1>2, <1>3, <1>5, RunFrame, ReleasedInv
  <1>6. CASE /\ task' = released /\ rq' = rq
             /\ \E d \in mask : at' = [at EXCEPT ![c].pc = "sca_stop", ![c].dst = d]
    <2>1. PICK d \in mask : at' = [at EXCEPT ![c].pc = "sca_stop", ![c].dst = d]
      BY <1>6
    <2> DEFINE f == [at[c] EXCEPT !.pc = "sca_stop", !.dst = d]
    <2>2. d \in CPU /\ at' = [at EXCEPT ![c] = f]
      <3>1. d \in CPU
        BY SmpAssumption
      <3>2. at' = [at EXCEPT ![c] = f]
        BY <2>1
      <3> QED
        BY <3>1, <3>2
    <2>3. /\ f \in FrameType /\ f.pc = "sca_stop" /\ f.dst = d /\ f.w = p /\ f.r = r /\ f.t = at[c].t
          /\ f.k = at[c].k /\ f.wl = at[c].wl
      BY <1>1, <1>2, <2>2, PcNames DEF FrameType
    <2> HIDE DEF f
    <2>4. FrameOK(f, c, rq[c].curr) /\ RqLocks(f, c) = {} /\ ~ HoldsPi(f)
      BY <1>1, <1>2, <2>2, <2>3, Names DEF FrameOK, RqLocks, HoldsPi
    <2>5. Calm(c, f)
      BY <1>1, <2>3, Carefree DEF Calm, FrameOK, MayBlock
    <2> QED
      BY <1>1, <1>2, <1>6, <2>2, <2>3, <2>4, <2>5, ReleasedInv
  <1>7. CASE /\ task_rq_is(p, r) /\ ~ task_running(p) /\ task[p].on_rq = "queued"
             /\ \E d \in mask : LeaveQueue(c, p, r, d)
    <2>1. PICK d \in mask : LeaveQueue(c, p, r, d)
      BY <1>7
    <2>2. d \in CPU /\ task[p].cpu = r /\ ~ task[p].on_cpu
      BY <1>7, SmpAssumption DEF task_rq_is, task_running
    <2> QED
      BY <1>1, <1>2, <1>7, <2>1, <2>2, LeaveQueueInv
  <1> QED
    BY <1>2, <1>4, <1>5, <1>6, <1>7 DEF AllowedRqLock, AllowedBlocked

-----------------------------------------------------------------------------
(* A task is pushed or pulled *)

\* The queued task p, which does not run, goes from queue a to queue b.
Carried(p, a, b) ==
    /\ p \in rq[a].queue /\ ~ task[p].on_cpu /\ ~ task'[p].on_cpu
    /\ task'[p].cpu = b /\ task'[p].state = task[p].state /\ task'[p].on_rq = task[p].on_rq
    /\ \A x \in Task \ {p} : task'[x] = task[x]
    /\ rq'[a].queue = rq[a].queue \ {p} /\ rq'[b].queue = rq[b].queue \cup {p}
    /\ \A d \in CPU \ {a, b} : rq'[d].queue = rq[d].queue
    /\ \A d \in CPU : rq'[d].curr = rq[d].curr /\ rq'[d].wake_list = rq[d].wake_list

\* CPU c, which moves it, held the lock of the queue it was on.
LEMMA MovedInv ==
    ASSUME IInv, Core', NEW c \in CPU, at[c].pc = "both", NEW p \in Task, p \notin Worker,
           NEW a \in CPU, NEW b \in CPU, a # b, rq[a].lock = c, Carried(p, a, b),
           \A d \in CPU \ {c} : at'[d] = at[d], Calm(c, at'[c]),
           at'[c].pc \in {"push", "pick"}, MayBlock(at[c]) => MayBlock(at'[c])
    PROVE  IInv'
  <1>5. /\ task[p].on_rq = "queued" /\ task[p].cpu = a /\ task[p].state # WAKING
        /\ \A d \in CPU : p \notin InList(d)
        /\ \A d \in CPU : p \in rq[d].queue <=> d = a
    BY DEF IInv, Places, WakingOK, ListsExact, QueueExact, Carried
  <1>6. /\ task'[p].state = task[p].state /\ task'[p].cpu = b /\ task'[p].on_rq = "queued"
        /\ ~ task'[p].on_cpu
    BY <1>5 DEF Carried
  <1>7. Others(c, p)
    BY DEF Others, Carried
  <1>8. \A d \in CPU : rq'[d].wake_list = rq[d].wake_list /\ at'[d].wl = at[d].wl
    BY DEF Calm, Carried
  <1>9. \A d \in CPU : InList(d)' = InList(d)
    BY <1>8 DEF InList
  <1>10. \A d \in CPU : rq'[d].wake_list \cap at'[d].wl = {}
    BY <1>8 DEF IInv, Places, ListsExact
  <1>11. WakingOK(p)'
    BY <1>5, <1>6 DEF WakingOK
  <1>12. \A d \in CPU : p \in rq'[d].queue <=> task'[p].on_rq = "queued" /\ task'[p].cpu = d
    BY <1>5, <1>6 DEF Carried
  <1>13. Relies(at[c], c)'
    <2>1. at'[c].pc \in LocalPcs \/ at'[c].k = "local" => c = FirstCPU
      BY DEF Calm, Relies
    <2> QED
      BY <2>1 DEF Relies
  <1>14. Suits(c, p)
    <2>1. ASSUME NEW d \in CPU \ {c}, at[d].w = p
          PROVE  at[d].pc \notin QueuePcs \cup {"ttwu_on_cpu", "move_dst"}
      BY <1>5, <2>1, InvFacts DEF Relies
    <2>2. ASSUME NEW d \in CPU \ {c}, at[d].pc \in {"bal_try", "both"} PROVE at[d].t # p
      <3>1. at[d].r \in CPU /\ rq[at[d].r].lock = d /\ Relies(at[d], d)
        BY <2>2, BalLocked, InvFacts
      <3>2. at[d].t = p => at[d].r = a
        BY <1>5, <2>2, <3>1, Names DEF Relies
      <3> QED
        BY <3>1, <3>2
    <2>3. ASSUME NEW d \in CPU \ {c}, at[d].pc \in QueuePcs, NEW x \in CPU
          PROVE  at[d].w \notin InList(x)'
      BY <1>9, <2>3, InvFacts DEF Relies
    <2> QED
      BY <1>5, <1>6, <2>1, <2>2, <2>3 DEF Suits
  <1>15. at[c].pc # "switch" /\ at'[c].pc # "switch" /\ at[c].pc \notin QueuePcs
    OBVIOUS
  <1>16. /\ \A d \in CPU : \A x \in Task \ {p} : x \in InList(d) <=> x \in InList(d)'
         /\ \A d \in CPU : p \in InList(d)' => task'[p].state = WAKING /\ task'[p].cpu = d
    BY <1>5, <1>9
  <1>17. /\ \A d \in CPU : rq'[d].curr = rq[d].curr
         /\ ~ task[p].on_cpu /\ ~ task'[p].on_cpu
    BY DEF Carried
  <1> QED
    BY <1>7, <1>10, <1>11, <1>12, <1>13, <1>14, <1>15, <1>16, <1>17, OneTaskInv

\* What Moved() does to the queues a and b.
LEMMA MovedFacts ==
    ASSUME NEW q \in [CPU -> RqType], NEW p \in Task, NEW a \in CPU, NEW b \in CPU, a # b
    PROVE  LET e == Moved(q, p, a, b)
           IN  /\ e \in [CPU -> RqType] /\ SameStops(e, q) /\ SameLocks(e, q) /\ SameFlags(e, q)
               /\ e[a].queue = q[a].queue \ {p} /\ e[b].queue = q[b].queue \cup {p}
               /\ \A d \in CPU \ {a, b} : e[d].queue = q[d].queue
               /\ \A d \in CPU : e[d].curr = q[d].curr /\ e[d].wake_list = q[d].wake_list
  <1> DEFINE x == [q[a] EXCEPT !.queue = q[a].queue \ {p}]
             y == [q[b] EXCEPT !.queue = q[b].queue \cup {p}]
             e == Moved(q, p, a, b)
  <1>1. e = [[q EXCEPT ![a] = x] EXCEPT ![b] = y]
    BY DEF Moved
  <1>2. /\ x \in RqType /\ x.queue = q[a].queue \ {p} /\ x.curr = q[a].curr /\ x.stop = q[a].stop
        /\ x.wake_list = q[a].wake_list /\ x.lock = q[a].lock
        /\ x.resched = q[a].resched /\ x.ipi = q[a].ipi /\ x.idle = q[a].idle
    BY DEF RqType
  <1>3. /\ y \in RqType /\ y.queue = q[b].queue \cup {p} /\ y.curr = q[b].curr /\ y.stop = q[b].stop
        /\ y.wake_list = q[b].wake_list /\ y.lock = q[b].lock
        /\ y.resched = q[b].resched /\ y.ipi = q[b].ipi /\ y.idle = q[b].idle
    BY DEF RqType
  <1> HIDE DEF x, y, e
  <1>4. e \in [CPU -> RqType] /\ e[a] = x /\ e[b] = y /\ \A d \in CPU \ {a, b} : e[d] = q[d]
    BY <1>1, <1>2, <1>3
  <1>5. SameStops(e, q) /\ SameLocks(e, q) /\ SameFlags(e, q)
    BY <1>2, <1>3, <1>4 DEF SameStops, SameLocks, SameFlags
  <1>6. \A d \in CPU : e[d].curr = q[d].curr /\ e[d].wake_list = q[d].wake_list
    BY <1>2, <1>3, <1>4
  <1> QED
    BY <1>2, <1>3, <1>4, <1>5, <1>6 DEF e

LEMMA PushMoveInv ==
    ASSUME IInv, NEW c \in CPU, PushMove(c)
    PROVE  IInv'
  <1>1. /\ Core /\ Typed /\ at[c] \in FrameType /\ FrameOK(at[c], c, rq[c].curr)
        /\ at[c].pc = "both" /\ Relies(at[c], c) /\ at[c].t # NONE
        /\ at' = [at EXCEPT ![c].pc = "push", ![c].t = NONE, ![c].o = NONE]
    BY InvFacts DEF PushMove
  <1>2. PICK r \in CPU, o \in CPU, t \in Task : r = at[c].r /\ o = at[c].o /\ t = at[c].t
    BY <1>1 DEF FrameOK, FrameType
  <1>3. /\ r # o /\ rq[r].lock = c /\ rq[o].lock = c /\ t \in rq[r].queue /\ ~ task[t].on_cpu
        /\ t \notin Worker
    BY <1>1, <1>2, InvFacts DEF FrameOK, Relies, RqLocks
  <1>4. CASE /\ rq' = [resched_curr(Moved(rq, t, r, o), o, c) EXCEPT ![o].lock = NONE]
             /\ task' = [task EXCEPT ![t].cpu = o]
    <2>1. PICK f \in FrameType :
             /\ at' = [at EXCEPT ![c] = f] /\ f.pc = "push" /\ f.k = at[c].k
             /\ FrameOK(f, c, rq[c].curr) /\ Calm(c, f) /\ RqLocks(f, c) = {r}
             /\ HoldsPi(f) => task[f.w].pi_lock = c
      BY <1>1, <1>2, PushFrame
    <2> DEFINE q == Moved(rq, t, r, o)
               e == resched_curr(q, o, c)
    <2>2. /\ q \in [CPU -> RqType] /\ SameStops(q, rq) /\ SameLocks(q, rq)
          /\ q[r].queue = rq[r].queue \ {t} /\ q[o].queue = rq[o].queue \cup {t}
          /\ \A d \in CPU \ {r, o} : q[d].queue = rq[d].queue
          /\ \A d \in CPU : q[d].curr = rq[d].curr /\ q[d].wake_list = rq[d].wake_list
      BY <1>1, <1>3, MovedFacts DEF Typed
    <2> HIDE DEF q
    <2>3. e \in [CPU -> RqType] /\ SameQueues(e, q) /\ SameStops(e, q) /\ SameLocks(e, q)
      BY <2>2, ReschedFacts
    <2> HIDE DEF e
    <2>4. rq' = [e EXCEPT ![o].lock = NONE]
      BY <1>4 DEF e, q
    <2>5. /\ rq' \in [CPU -> RqType] /\ SameQueues(rq', e) /\ SameStops(rq', e)
          /\ rq'[o].lock = NONE /\ \A d \in CPU \ {o} : rq'[d] = e[d]
      <3>1. NONE \in CPU \cup {NONE}
        OBVIOUS
      <3> QED
        BY <2>3, <2>4, <3>1, LockEdit
    <2>6. /\ rq'[r].queue = rq[r].queue \ {t} /\ rq'[o].queue = rq[o].queue \cup {t}
          /\ \A d \in CPU \ {r, o} : rq'[d].queue = rq[d].queue
          /\ \A d \in CPU : rq'[d].curr = rq[d].curr /\ rq'[d].wake_list = rq[d].wake_list
          /\ SameStops(rq', rq) /\ \A d \in CPU \ {o} : rq'[d].lock = rq[d].lock
      BY <2>2, <2>3, <2>5 DEF SameQueues, SameStops, SameLocks
    <2> DEFINE y == [task[t] EXCEPT !.cpu = o]
    <2>7. task[t] \in TaskType /\ task' = [task EXCEPT ![t] = y]
      BY <1>1, <1>4 DEF Typed
    <2>8. /\ y \in TaskType /\ y.pi_lock = task[t].pi_lock /\ y.allowed = task[t].allowed /\ y.cpu = o
          /\ y.state = task[t].state /\ y.on_rq = task[t].on_rq /\ y.on_cpu = task[t].on_cpu
      BY <2>7 DEF TaskType
    <2> HIDE DEF y
    <2>9. task' \in [Task -> TaskType] /\ task'[t] = y /\ \A x \in Task \ {t} : task'[x] = task[x]
      BY <1>1, <2>7, <2>8 DEF Typed
    <2>10. \A x \in Task : task'[x].pi_lock = task[x].pi_lock /\ task'[x].allowed = task[x].allowed
      BY <2>8, <2>9
    <2>11. Locks(c, f)
      <3>1. HoldsPi(f) => f.w \in Task
        BY <2>1, Names DEF FrameOK, HoldsPi
      <3> QED
        BY <1>3, <2>1, <2>6, <2>10, <3>1 DEF Locks
    <2>12. Keeps(c, f)
      BY <2>1, <2>5, <2>6, <2>9, <2>10, <2>11, Names DEF Keeps, SameStops
    <2>13. Core' /\ at'[c] = f /\ \A d \in CPU \ {c} : at'[d] = at[d]
      BY <1>1, <2>12, CoreStep
    <2>14. MayBlock(at[c]) => MayBlock(f)
      BY <1>1, <2>1 DEF MayBlock
    <2>15. /\ task'[t].cpu = o /\ task'[t].state = task[t].state /\ task'[t].on_rq = task[t].on_rq
           /\ ~ task'[t].on_cpu
      BY <1>3, <2>8, <2>9
    <2>16. Carried(t, r, o)
      BY <1>3, <2>6, <2>9, <2>15 DEF Carried
    <2>17. Calm(c, at'[c]) /\ at'[c].pc \in {"push", "pick"} /\ (MayBlock(at[c]) => MayBlock(at'[c]))
      BY <2>1, <2>13, <2>14
    <2> QED
      BY <1>1, <1>3, <2>13, <2>16, <2>17, MovedInv
  <1>5. CASE rq' = [rq EXCEPT ![o].lock = NONE] /\ task' = task
    BY <1>1, <1>2, <1>5, NothingMoved
  <1> QED
    BY <1>2, <1>4, <1>5 DEF PushMove

LEMMA PullMoveInv ==
    ASSUME IInv, NEW c \in CPU, PullMove(c)
    PROVE  IInv'
  <1>1. /\ Core /\ Typed /\ at[c] \in FrameType /\ FrameOK(at[c], c, rq[c].curr)
        /\ at[c].pc = "both" /\ at[c].t = NONE
        /\ at' = [at EXCEPT ![c].pc = "pick", ![c].r = NONE, ![c].o = NONE]
    BY InvFacts DEF PullMove
  <1>2. PICK r \in CPU, o \in CPU : r = at[c].r /\ o = at[c].o
    BY <1>1 DEF FrameOK
  <1>3. /\ r # o /\ rq[r].lock = c /\ rq[o].lock = c
    BY <1>1, <1>2, InvFacts DEF FrameOK, RqLocks
  <1>4. CASE \E p \in pushable_tasks(o) :
               /\ ~ task_running(p) /\ r \in task[p].allowed
               /\ rq' = [Moved(rq, p, o, r) EXCEPT ![o].lock = NONE]
               /\ task' = [task EXCEPT ![p].cpu = r]
    <2>0. PICK p \in pushable_tasks(o) :
               /\ ~ task_running(p)
               /\ rq' = [Moved(rq, p, o, r) EXCEPT ![o].lock = NONE]
               /\ task' = [task EXCEPT ![p].cpu = r]
      BY <1>4
    <2>0a. /\ p \in Task /\ p \in rq[o].queue /\ Cardinality(task[p].allowed) > 1 /\ ~ task[p].on_cpu
      <3>1. rq[o] \in RqType
        BY <1>1 DEF Typed
      <3> QED
        BY <2>0, <3>1 DEF pushable_tasks, RqType, task_running
    <2>0b. p \notin Worker
      <3>1. ASSUME p \in Worker PROVE FALSE
        <4>1. task[p].allowed = {FirstCPU} /\ Cardinality({FirstCPU}) = 1
          BY <1>1, <3>1, FS_Singleton DEF Core
        <4> QED
          BY <2>0a, <4>1
      <3> QED
        BY <3>1
    <2>1. PICK f \in FrameType :
             /\ at' = [at EXCEPT ![c] = f] /\ f.pc = "pick" /\ f.k = "none" /\ r = c
             /\ FrameOK(f, c, rq[c].curr) /\ Calm(c, f) /\ RqLocks(f, c) = {c} /\ ~ HoldsPi(f)
      BY <1>1, <1>2, PullFrame
    <2> DEFINE q == Moved(rq, p, o, r)
    <2>2. /\ q \in [CPU -> RqType] /\ SameStops(q, rq) /\ SameLocks(q, rq)
          /\ q[o].queue = rq[o].queue \ {p} /\ q[r].queue = rq[r].queue \cup {p}
          /\ \A d \in CPU \ {r, o} : q[d].queue = rq[d].queue
          /\ \A d \in CPU : q[d].curr = rq[d].curr /\ q[d].wake_list = rq[d].wake_list
      BY <1>1, <1>3, <2>0a, MovedFacts DEF Typed
    <2> HIDE DEF q
    <2>4. rq' = [q EXCEPT ![o].lock = NONE]
      BY <2>0 DEF q
    <2>5. /\ rq' \in [CPU -> RqType] /\ SameQueues(rq', q) /\ SameStops(rq', q)
          /\ rq'[o].lock = NONE /\ \A d \in CPU \ {o} : rq'[d] = q[d]
      <3>1. q \in [CPU -> RqType] /\ o \in CPU /\ NONE \in CPU \cup {NONE}
        BY <2>2
      <3>2. /\ [q EXCEPT ![o].lock = NONE] \in [CPU -> RqType]
            /\ SameQueues([q EXCEPT ![o].lock = NONE], q) /\ SameStops([q EXCEPT ![o].lock = NONE], q)
            /\ [q EXCEPT ![o].lock = NONE][o].lock = NONE
            /\ \A d \in CPU \ {o} : [q EXCEPT ![o].lock = NONE][d] = q[d]
        BY <3>1, LockEdit
      <3> QED
        BY <2>4, <3>2
    <2>6. /\ rq'[o].queue = rq[o].queue \ {p} /\ rq'[r].queue = rq[r].queue \cup {p}
          /\ \A d \in CPU \ {o, r} : rq'[d].queue = rq[d].queue
          /\ \A d \in CPU : rq'[d].curr = rq[d].curr /\ rq'[d].wake_list = rq[d].wake_list
          /\ SameStops(rq', rq) /\ \A d \in CPU \ {o} : rq'[d].lock = rq[d].lock
      BY <2>2, <2>5 DEF SameQueues, SameStops, SameLocks
    <2> DEFINE y == [task[p] EXCEPT !.cpu = r]
    <2>7. task[p] \in TaskType /\ task' = [task EXCEPT ![p] = y]
      BY <1>1, <2>0, <2>0a DEF Typed
    <2>8. /\ y \in TaskType /\ y.pi_lock = task[p].pi_lock /\ y.allowed = task[p].allowed /\ y.cpu = r
          /\ y.state = task[p].state /\ y.on_rq = task[p].on_rq /\ y.on_cpu = task[p].on_cpu
      BY <2>7 DEF TaskType
    <2> HIDE DEF y
    <2>9. task' \in [Task -> TaskType] /\ task'[p] = y /\ \A x \in Task \ {p} : task'[x] = task[x]
      BY <1>1, <2>0a, <2>7, <2>8 DEF Typed
    <2>10. \A x \in Task : task'[x].pi_lock = task[x].pi_lock /\ task'[x].allowed = task[x].allowed
      BY <2>8, <2>9
    <2>11. Locks(c, f)
      BY <1>3, <2>1, <2>6, <2>10 DEF Locks
    <2>12. Keeps(c, f)
      BY <2>1, <2>5, <2>6, <2>9, <2>10, <2>11, Names DEF Keeps, SameStops
    <2>13. Core' /\ at'[c] = f /\ \A d \in CPU \ {c} : at'[d] = at[d]
      BY <1>1, <2>12, CoreStep
    <2>14. Carried(p, o, r)
      BY <2>0a, <2>6, <2>8, <2>9 DEF Carried
    <2>15. Calm(c, at'[c]) /\ at'[c].pc \in {"push", "pick"} /\ (MayBlock(at[c]) => MayBlock(at'[c]))
      BY <2>1, <2>13 DEF MayBlock
    <2> QED
      BY <1>1, <1>3, <2>0a, <2>0b, <2>13, <2>14, <2>15, MovedInv
  <1>5. CASE rq' = [rq EXCEPT ![o].lock = NONE] /\ task' = task
    BY <1>1, <1>2, <1>5, NothingMoved
  <1> QED
    BY <1>2, <1>4, <1>5 DEF PullMove

-----------------------------------------------------------------------------
(* The pending wakeups are taken off the list *)

\* The wake_list of CPU c goes to its frame f.
ListTaken(c, f) ==
    /\ task' = task /\ rq' \in [CPU -> RqType] /\ at' = [at EXCEPT ![c] = f]
    /\ \A d \in CPU \ {c} : rq'[d] = rq[d]
    /\ rq'[c].queue = rq[c].queue /\ rq'[c].curr = rq[c].curr /\ rq'[c].lock = rq[c].lock
    /\ rq'[c].stop \subseteq rq[c].stop /\ rq'[c].wake_list = {}
    /\ f \in FrameType /\ f.wl = rq[c].wake_list /\ f.k = "none"
    /\ f.pc \in {"pending", "run", "lock", "mig_pi"} /\ FrameOK(f, c, rq[c].curr)

LEMMA ListTakenInv ==
    ASSUME IInv, NEW c \in CPU, at[c].pc \in {"run", "idle_pending"}, NEW f, ListTaken(c, f)
    PROVE  IInv'
  <1>1. /\ Core /\ Typed /\ at[c] \in FrameType /\ FrameOK(at[c], c, rq[c].curr)
    BY InvFacts
  <1>2. /\ at[c].wl = {} /\ at[c].k = "none" /\ ~ MayBlock(at[c])
        /\ ~ MayBlock(f) /\ RqLocks(f, c) = {} /\ ~ HoldsPi(f)
    BY <1>1 DEF FrameOK, MayBlock, RqLocks, HoldsPi, ListTaken
  <1>3. \A d \in CPU : /\ rq'[d].queue = rq[d].queue /\ rq'[d].curr = rq[d].curr
                       /\ rq'[d].lock = rq[d].lock /\ rq'[d].stop \subseteq rq[d].stop
    BY DEF ListTaken
  <1>4. Locks(c, f)
    BY <1>2, <1>3 DEF Locks, ListTaken
  <1>5. Keeps(c, f)
    BY <1>1, <1>3, <1>4 DEF Keeps, ListTaken, Typed
  <1>6. Core' /\ at'[c] = f /\ \A d \in CPU \ {c} : at'[d] = at[d]
    BY <1>1, <1>5, CoreStep
  <1>7. \A d \in CPU : InList(d)' = InList(d) /\ rq'[d].wake_list \cap at'[d].wl = {}
    <2>1. ASSUME NEW d \in CPU PROVE InList(d)' = InList(d) /\ rq'[d].wake_list \cap at'[d].wl = {}
      <3>1. CASE d = c
        BY <1>2, <1>6, <3>1 DEF ListTaken, InList
      <3>2. CASE d # c
        BY <1>6, <3>2 DEF ListTaken, InList, IInv, Places, ListsExact
      <3> QED
        BY <3>1, <3>2
    <2> QED
      BY <2>1
  <1>8. task' = task
    BY DEF ListTaken
  <1>9. QueueExact' /\ WorkersStay'
    BY <1>3, <1>8 DEF IInv, Places, QueueExact, WorkersStay
  <1>10. ListsExact'
    BY <1>7, <1>8 DEF IInv, Places, ListsExact
  <1>11. ASSUME NEW x \in Task PROVE WakingOK(x)'
    <2>1. \A d \in CPU : Bears(d, x) => Bears(d, x)'
      BY <1>6, <1>7 DEF Bears
    <2> QED
      BY <1>8, <2>1 DEF IInv, Places, WakingOK
  <1>12. StacksExact'
    <2>1. ASSUME NEW d \in CPU PROVE Stacks(d)' = Stacks(d)
      <3>1. CASE d = c
        BY <1>3, <1>6, <3>1 DEF Stacks, ListTaken
      <3>2. CASE d # c
        BY <1>3, <1>6, <3>2 DEF Stacks
      <3> QED
        BY <3>1, <3>2
    <2>2. ASSUME NEW d \in CPU, rq'[d].curr \in Task, ~ MayBlock(at'[d])
          PROVE  task'[rq'[d].curr].on_rq = "queued"
      BY <1>2, <1>3, <1>6, <1>8, <2>2 DEF IInv, Places, StacksExact
    <2> QED
      BY <1>8, <2>1, <2>2 DEF IInv, Places, StacksExact
  <1>13. ASSUME NEW d \in CPU PROVE Relies(at[d], d)'
    <2>1. CASE d = c
      BY <1>6, <2>1 DEF Relies, ListTaken
    <2>2. CASE d # c
      <3>1. Relies(at[d], d) /\ FrameOK(at[d], d, rq[d].curr) /\ at'[d] = at[d]
        BY <1>6, <2>2, InvFacts
      <3> QED
        BY <1>3, <1>7, <1>8, <3>1 DEF Relies, FrameOK
    <2> QED
      BY <2>1, <2>2
  <1> QED
    BY <1>6, <1>9, <1>10, <1>11, <1>12, <1>13 DEF IInv, Places

\* The list of CPU c goes to its frame f, and f goes on at ret; stops and flags are those of q.
Takes(q, c, f, ret) ==
    /\ ListTaken(c, f) /\ f.ret = ret /\ f.pc \in {"pending", ret}
    /\ rq'[c].stop = q.stop /\ rq'[c].resched = q.resched /\ rq'[c].idle = q.idle

LEMMA TakeWakeListTakes ==
    ASSUME NEW c \in CPU,
           NEW q \in [CPU -> RqType], \A d \in CPU \ {c} : q[d] = rq[d],
           q[c].queue = rq[c].queue, q[c].curr = rq[c].curr, q[c].lock = rq[c].lock,
           q[c].stop \subseteq rq[c].stop, q[c].wake_list = rq[c].wake_list,
           NEW ret \in {"run", "lock", "mig_pi"}, NEW g \in FrameType, g.k = "none", g.t = NONE,
           ret = "mig_pi" => g.w \in Task \ Worker /\ g.dst \in CPU /\ rq[c].curr = STOP,
           TakeWakeList(q, c, ret, g)
    PROVE  \E f : Takes(q[c], c, f, ret) /\ f.w = g.w /\ f.dst = g.dst
  <1> DEFINE z == [q[c] EXCEPT !.wake_list = {}]
             x == IF q[c].wake_list = {} THEN ret ELSE "pending"
             f == [g EXCEPT !.pc = x, !.wl = q[c].wake_list, !.ret = ret]
  <1>1. rq' = [q EXCEPT ![c] = z] /\ at' = [at EXCEPT ![c] = f] /\ task' = task
    BY DEF TakeWakeList
  <1>2. q[c] \in RqType /\ x \in Pcs /\ q[c].wake_list \in SUBSET Task
    BY PcNames DEF RqType
  <1>3. /\ z \in RqType /\ z.queue = q[c].queue /\ z.curr = q[c].curr /\ z.lock = q[c].lock
        /\ z.stop = q[c].stop /\ z.wake_list = {} /\ z.resched = q[c].resched /\ z.idle = q[c].idle
    BY <1>2 DEF RqType
  <1>4. x \in {"pending", "run", "lock", "mig_pi"} /\ (x = "pending" \/ q[c].wake_list = {})
        /\ (x = "mig_pi" => ret = "mig_pi") /\ x \in {"pending", ret}
    OBVIOUS
  <1> HIDE DEF x
  <1>5. /\ f \in FrameType /\ f.pc = x /\ f.wl = q[c].wake_list /\ f.ret = ret /\ f.k = "none"
        /\ f.t = NONE /\ f.w = g.w /\ f.dst = g.dst
    BY <1>2 DEF FrameType
  <1> HIDE DEF z, f
  <1>6. rq' \in [CPU -> RqType] /\ rq'[c] = z /\ \A d \in CPU \ {c} : rq'[d] = q[d]
    BY <1>1, <1>3
  <1>7. FrameOK(f, c, rq[c].curr)
    BY <1>4, <1>5, Names DEF FrameOK
  <1>8. ListTaken(c, f)
    BY <1>1, <1>3, <1>4, <1>5, <1>6, <1>7 DEF ListTaken
  <1>9. Takes(q[c], c, f, ret)
    BY <1>3, <1>4, <1>5, <1>6, <1>8 DEF Takes
  <1> QED
    BY <1>5, <1>9

LEMMA SchedulerIpiTakes ==
    ASSUME IInv, NEW c \in CPU, SchedulerIpi(c)
    PROVE  \E f, z : Takes(z, c, f, "run") /\ z.stop = rq[c].stop /\ z.resched = rq[c].resched
                     /\ z.idle \in {"off", "polling"} /\ (z.idle = "polling" => rq[c].idle = "polling")
  <1> DEFINE i == IF rq[c].idle = "halted" THEN "off" ELSE rq[c].idle
             z == [rq[c] EXCEPT !.idle = i, !.ipi = FALSE]
             q == [rq EXCEPT ![c] = z]
  <1>1. Typed /\ rq[c] \in RqType /\ at[c].pc = "run"
    BY InvFacts DEF SchedulerIpi
  <1>2. i \in {"off", "polling"} /\ (i = "polling" => rq[c].idle = "polling")
    BY <1>1 DEF RqType
  <1>3. q = [Unhalted(rq, c) EXCEPT ![c].ipi = FALSE]
    BY <1>1 DEF Unhalted, Typed
  <1> HIDE DEF i
  <1>4. /\ z \in RqType /\ z.queue = rq[c].queue /\ z.curr = rq[c].curr /\ z.lock = rq[c].lock
        /\ z.stop = rq[c].stop /\ z.wake_list = rq[c].wake_list /\ z.resched = rq[c].resched
        /\ z.idle = i
    BY <1>1, <1>2 DEF RqType
  <1> HIDE DEF z
  <1>5. q \in [CPU -> RqType] /\ q[c] = z /\ \A d \in CPU \ {c} : q[d] = rq[d]
    BY <1>1, <1>4 DEF Typed
  <1>6. TakeWakeList(q, c, "run", Run)
    BY <1>3 DEF SchedulerIpi
  <1> HIDE DEF q
  <1>7. Run.k = "none" /\ Run.t = NONE
    BY DEF Run
  <1>8. \E f : Takes(q[c], c, f, "run") /\ f.w = Run.w /\ f.dst = Run.dst
    BY <1>1, <1>4, <1>5, <1>6, <1>7, RunFrame, TakeWakeListTakes
  <1> QED
    BY <1>2, <1>4, <1>5, <1>8

LEMMA IdlePendingTakes ==
    ASSUME IInv, NEW c \in CPU, IdlePending(c)
    PROVE  \E f : Takes(rq[c], c, f, "lock")
  <1>1. Typed /\ at[c].pc = "idle_pending" /\ TakeWakeList(rq, c, "lock", Run)
    BY InvFacts DEF IdlePending
  <1>2. Run.k = "none" /\ Run.t = NONE
    BY DEF Run
  <1>3. rq \in [CPU -> RqType]
    BY <1>1 DEF Typed
  <1>4. \E f : Takes(rq[c], c, f, "lock") /\ f.w = Run.w /\ f.dst = Run.dst
    BY <1>1, <1>2, <1>3, RunFrame, TakeWakeListTakes
  <1> QED
    BY <1>4

LEMMA MigrationCpuStopTakes ==
    ASSUME IInv, NEW c \in CPU, MigrationCpuStop(c)
    PROVE  \E f, z : \E work \in rq[c].stop :
              /\ Takes(z, c, f, "mig_pi") /\ z.stop = rq[c].stop \ {work}
              /\ z.resched = rq[c].resched /\ z.idle = rq[c].idle
              /\ f.w = work[1] /\ f.dst = work[2]
  <1>1. Core /\ Typed /\ rq[c] \in RqType /\ at[c].pc = "run" /\ rq[c].curr = STOP
    BY InvFacts DEF MigrationCpuStop
  <1>2. PICK work \in rq[c].stop :
          TakeWakeList([rq EXCEPT ![c].stop = @ \ {work}], c, "mig_pi",
                       [Run EXCEPT !.w = work[1], !.dst = work[2]])
    BY DEF MigrationCpuStop
  <1>3. work \in Task \X CPU \X Task
    BY <1>1 DEF RqType
  <1>4. work[1] \in Task /\ work[1] \notin Worker /\ work[2] \in CPU
    BY <1>1, <1>3 DEF Core
  <1> DEFINE z == [rq[c] EXCEPT !.stop = rq[c].stop \ {work}]
             q == [rq EXCEPT ![c] = z]
             g == [Run EXCEPT !.w = work[1], !.dst = work[2]]
  <1>5. q = [rq EXCEPT ![c].stop = @ \ {work}]
    OBVIOUS
  <1>6. TakeWakeList(q, c, "mig_pi", g)
    BY <1>2, <1>5
  <1>7. /\ z \in RqType /\ z.queue = rq[c].queue /\ z.curr = rq[c].curr /\ z.lock = rq[c].lock
        /\ z.stop = rq[c].stop \ {work} /\ z.wake_list = rq[c].wake_list
        /\ z.resched = rq[c].resched /\ z.idle = rq[c].idle
    BY <1>1 DEF RqType
  <1> HIDE DEF z
  <1>8. q \in [CPU -> RqType] /\ q[c] = z /\ \A d \in CPU \ {c} : q[d] = rq[d]
    BY <1>1, <1>7 DEF Typed
  <1> HIDE DEF q
  <1>9. g \in FrameType /\ g.k = "none" /\ g.t = NONE /\ g.w = work[1] /\ g.dst = work[2]
    BY <1>4, PcNames DEF Run, FrameType
  <1> HIDE DEF g
  <1>9a. z.stop \subseteq rq[c].stop
    BY <1>7
  <1>10. \E f : Takes(q[c], c, f, "mig_pi") /\ f.w = g.w /\ f.dst = g.dst
    BY <1>1, <1>4, <1>6, <1>7, <1>8, <1>9, <1>9a, TakeWakeListTakes
  <1>11. PICK f : Takes(z, c, f, "mig_pi") /\ f.w = work[1] /\ f.dst = work[2]
    BY <1>8, <1>9, <1>10
  <1> QED
    BY <1>2, <1>7, <1>11

LEMMA SchedulerIpiInv ==
    ASSUME IInv, NEW c \in CPU, SchedulerIpi(c)
    PROVE  IInv'
  <1>1. at[c].pc = "run" /\ \E f : ListTaken(c, f)
    BY SchedulerIpiTakes DEF SchedulerIpi, Takes
  <1> QED
    BY <1>1, ListTakenInv

LEMMA IdlePendingInv ==
    ASSUME IInv, NEW c \in CPU, IdlePending(c)
    PROVE  IInv'
  <1>1. at[c].pc = "idle_pending" /\ \E f : ListTaken(c, f)
    BY IdlePendingTakes DEF IdlePending, Takes
  <1> QED
    BY <1>1, ListTakenInv

LEMMA MigrationCpuStopInv ==
    ASSUME IInv, NEW c \in CPU, MigrationCpuStop(c)
    PROVE  IInv'
  <1>1. at[c].pc = "run" /\ \E f : ListTaken(c, f)
    BY MigrationCpuStopTakes DEF MigrationCpuStop, Takes
  <1> QED
    BY <1>1, ListTakenInv

-----------------------------------------------------------------------------
(* The invariant *)

LEMMA IInvInit == Init => IInv
  <1> SUFFICES ASSUME Init PROVE IInv
    OBVIOUS
  <1> DEFINE t(p) == [state |-> SLEEP, on_rq |-> "no", cpu |-> FirstCPU,
                      on_cpu |-> FALSE, pi_lock |-> NONE,
                      allowed |-> IF p \in Worker THEN {FirstCPU} ELSE CPU,
                      cond |-> FALSE, step |-> "work", preempt_active |-> FALSE]
             q == [lock |-> NONE, queue |-> {}, curr |-> IDLE, resched |-> FALSE, idle |-> "off",
                   wake_list |-> {}, ipi |-> FALSE, stop |-> {}]
  <1>1. task = [p \in Task |-> t(p)] /\ rq = [c \in CPU |-> q] /\ at = [c \in CPU |-> Run]
    BY DEF Init
  <1>2. q \in RqType /\ q.lock = NONE /\ q.queue = {} /\ q.curr = IDLE /\ q.wake_list = {} /\ q.stop = {}
    BY DEF RqType
  <1>3. ASSUME NEW p \in Task
        PROVE  /\ t(p) \in TaskType /\ t(p).state = SLEEP /\ t(p).on_rq = "no" /\ t(p).cpu = FirstCPU
               /\ ~ t(p).on_cpu
               /\ p \in Worker => t(p).allowed = {FirstCPU}
    <2>1. (IF p \in Worker THEN {FirstCPU} ELSE CPU) \in (SUBSET CPU) \ {{}}
      BY Names
    <2> QED
      BY <2>1, Names DEF TaskType
  <1> HIDE DEF t, q
  <1>4. /\ \A p \in Task : task[p] = t(p)
        /\ \A c \in CPU : rq[c] = q /\ at[c] = Run
    BY <1>1
  <1>5. Typed
    BY <1>1, <1>2, <1>3, RunFrame DEF Typed
  <1>6. Core
    <2>1. TypeOK
      BY <1>5, Types
    <2>2. \A p \in Worker : task[p].allowed = {FirstCPU}
      BY <1>3, <1>4, Names
    <2>3. \A c \in CPU : \A work \in rq[c].stop : work[1] \notin Worker
      BY <1>2, <1>4
    <2>4. \A c \in CPU : /\ FrameOK(at[c], c, rq[c].curr)
                         /\ \A d \in RqLocks(at[c], c) : rq[d].lock = c
                         /\ HoldsPi(at[c]) => task[at[c].w].pi_lock = c
      BY <1>4, RunFrame
    <2> QED
      BY <2>1, <2>2, <2>3, <2>4 DEF Core
  <1>7. Run.pc = "run" /\ Run.wl = {} /\ Run.k = "none"
    BY DEF Run
  <1>8. QueueExact /\ WorkersStay
    BY <1>2, <1>3, <1>4, Names DEF QueueExact, WorkersStay
  <1>9. StacksExact
    <2>1. \A c \in CPU : Stacks(c) = {}
      BY <1>2, <1>4, <1>7, Names DEF Stacks
    <2> QED
      BY <1>2, <1>3, <1>4, <2>1, Names DEF StacksExact
  <1>10. ListsExact
    BY <1>2, <1>4, <1>7 DEF ListsExact, InList
  <1>11. \A p \in Task : WakingOK(p)
    BY <1>3, <1>4 DEF WakingOK, RUNNING, SLEEP, WAKING
  <1>12. \A c \in CPU : Relies(at[c], c)
    BY <1>4, <1>7 DEF Relies
  <1> QED
    BY <1>6, <1>8, <1>9, <1>10, <1>11, <1>12 DEF IInv, Places

LEMMA IInvStutters ==
    ASSUME IInv, UNCHANGED vars
    PROVE  IInv'
  <1>1. task' = task /\ rq' = rq /\ at' = at
    BY DEF vars
  <1>2. Core'
    BY <1>1 DEF IInv, Core, TypeOK
  <1>3. QueueExact' /\ WorkersStay'
    BY <1>1 DEF IInv, Places, QueueExact, WorkersStay
  <1>4. StacksExact'
    BY <1>1 DEF IInv, Places, StacksExact, Stacks
  <1>5. ListsExact'
    BY <1>1 DEF IInv, Places, ListsExact, InList
  <1>6. \A p \in Task : WakingOK(p)'
    BY <1>1 DEF IInv, Places, WakingOK, Bears, InList
  <1>7. \A c \in CPU : Relies(at[c], c)'
    BY <1>1 DEF IInv, Places, Relies, InList
  <1> QED
    BY <1>2, <1>3, <1>4, <1>5, <1>6, <1>7 DEF IInv, Places

LEMMA IInvNext == IInv /\ [Next]_vars => IInv'
  <1> SUFFICES ASSUME IInv, [Next]_vars PROVE IInv'
    OBVIOUS
  <1>1. CASE UNCHANGED vars
    BY <1>1, IInvStutters
  <1>2. ASSUME NEW c \in CPU, Background(c) \/ Preempt(c) \/ IdleHalt(c) \/ SchedulerIpi(c)
        PROVE  IInv'
    BY <1>2, BackgroundInv, SetCurrentStateInv, TestConditionInv, MigrationCpuStopInv, SchedulerIpiInv
       DEF Background, Waiter, IdleLoop
  <1>3. ASSUME NEW c \in CPU, Schedule(c) PROVE IInv'
    BY <1>3, ScheduleRunningInv, ScheduleSignalledInv, ScheduleBlocksInv, LocalTrylockInv,
       LocalPiLockInv, LocalWakeInv, PickNextTaskInv, FinishSwitchInv, FinishUnlockInv,
       PostScheduleInv DEF Schedule
  <1>4. ASSUME NEW c \in CPU, TryToWakeUp(c) \/ TtwuPending(c) PROVE IInv'
    BY <1>4, TtwuStateInv, TtwuOnRqInv, TtwuRemoteInv, TtwuSpinInv, TtwuSelectInv, TtwuQueueInv,
       TtwuListInv, TtwuKickInv, IdlePendingInv, PendingActivateInv DEF TryToWakeUp, TtwuPending
  <1>5. ASSUME NEW c \in CPU, Balance(c) PROVE IInv'
    BY <1>5, PushBeginInv, PushEndInv, PullBeginInv, BalTryInv, BalLowInv, BalHighInv, PushMoveInv,
       PullMoveInv DEF Balance
  <1>6. ASSUME NEW c \in CPU, Affinity(c) PROVE IInv'
    BY <1>6, AllowedPiLockInv, AllowedRqLockInv, StopOneCpuInv, JoinQueueInv, MigratePiLockInv,
       MigrateTaskInv DEF Affinity
  <1>7. ASSUME NEW c \in CPU, NEW p \in Task, WakeUpProcess(c, p) PROVE IInv'
    BY <1>7, WakeUpProcessInv
  <1>8. ASSUME NEW c \in CPU, NEW p \in Task, NEW mask \in Masks, SetCpusAllowed(c, p, mask)
        PROVE  IInv'
    BY <1>8, SetCpusAllowedInv
  <1> QED
    BY <1>1, <1>2, <1>3, <1>4, <1>5, <1>6, <1>7, <1>8 DEF Next, Section

-----------------------------------------------------------------------------
(* The theorems *)

LEMMA IInvAlways == Spec => []IInv
  BY IInvInit, IInvNext, PTL DEF Spec

\* The variables keep their types.
THEOREM SmpTypesHold == Spec => []TypeOK
  <1>1. IInv => TypeOK
    BY DEF IInv, Core
  <1> QED
    BY <1>1, IInvAlways, PTL

\* No task is executed by two CPUs, on any number of CPUs: neither the wakeup that
\* waits for p->on_cpu nor a push, pull or migration gives the stack of a task that
\* a CPU is still leaving to another one.
THEOREM OneStackHolds == Spec => []OneStack
  <1>1. IInv => OneStack
    <2> SUFFICES ASSUME IInv, NEW c \in CPU, NEW d \in CPU, c # d,
                        NEW p \in Stacks(c) \cap Stacks(d)
                 PROVE  FALSE
      BY DEF OneStack
    <2>1. p \in Task
      BY DEF Stacks
    <2>2. task[p].cpu = c /\ task[p].cpu = d
      BY <2>1 DEF IInv, Places, StacksExact
    <2> QED
      BY <2>2
  <1> QED
    BY <1>1, IInvAlways, PTL

\* Every task is on the run queue that ->cpu and ->on_rq say and on no other one,
\* although wakeups, pushes, pulls and migrations take only one of the two locks.
THEOREM QueueExactHolds == Spec => []QueueExact
  <1>1. IInv => QueueExact
    BY DEF IInv, Places
  <1> QED
    BY <1>1, IInvAlways, PTL

\* Where the waking task p is.
LEMMA WakingPlaces ==
    ASSUME IInv, NEW p \in Task
    PROVE  /\ \A c \in CPU : Listed(c) = InList(c)
           /\ \A c \in CPU : p \in InList(c) => c = task[p].cpu /\ task[p].state = WAKING
           /\ \A c \in Activating(p) : task[p].state = WAKING /\ \A d \in CPU : p \notin InList(d)
           /\ \A c, d \in Activating(p) : c = d
           /\ task[p].state = WAKING => \E c \in CPU : p \in InList(c) \/ c \in Activating(p)
  <1>1. ASSUME NEW c \in CPU PROVE Listed(c) = InList(c)
    <2>1. FrameOK(at[c], c, rq[c].curr)
      BY InvFacts
    <2>2. at[c].wl # {} => at[c].pc \in {"pending", "activate", "push", "bal_try", "bal_low",
                                         "bal_high", "both"}
      BY <2>1 DEF FrameOK
    <2> QED
      BY <2>2 DEF Listed, InList
  <1>2. \A c \in CPU : p \in InList(c) => c = task[p].cpu /\ task[p].state = WAKING
    BY DEF IInv, Places, ListsExact
  <1>3. ASSUME NEW c \in Activating(p)
        PROVE  task[p].state = WAKING /\ \A d \in CPU : p \notin InList(d)
    BY InvFacts DEF Activating, Relies
  <1>4. ASSUME NEW c \in Activating(p), NEW d \in Activating(p) PROVE c = d
    BY OnePi DEF Activating, HoldsPi
  <1>5. task[p].state = WAKING => \E c \in CPU : p \in InList(c) \/ c \in Activating(p)
    BY DEF IInv, Places, WakingOK, Bears, Activating
  <1> QED
    BY <1>1, <1>2, <1>3, <1>4, <1>5

\* A task in TASK_WAKING is in exactly one place, whatever the number of CPUs that
\* wake it: with one waker, or on one wake_list.
THEOREM WakingExactHolds == Spec => []WakingExact
  <1>1. IInv => WakingExact
    <2> SUFFICES ASSUME IInv, NEW p \in Task
                 PROVE  LET lists == {c \in CPU : p \in Listed(c)} IN
                        /\ task[p].state = WAKING <=>
                              Cardinality(lists) + Cardinality(Activating(p)) = 1
                        /\ lists \subseteq {task[p].cpu}
                        /\ task[p].state = WAKING => task[p].on_rq = "no"
                        /\ task[p].state = RUNNING => task[p].on_rq # "no"
      BY DEF WakingExact
    <2> DEFINE lists == {c \in CPU : p \in Listed(c)}
    <2>1. /\ \A c \in lists : c = task[p].cpu /\ task[p].state = WAKING
          /\ \A c \in Activating(p) : task[p].state = WAKING /\ lists = {}
          /\ \A c, d \in Activating(p) : c = d
          /\ task[p].state = WAKING => lists # {} \/ Activating(p) # {}
      BY WakingPlaces
    <2>2. /\ task[p].state = WAKING => task[p].on_rq = "no"
          /\ task[p].state = RUNNING => task[p].on_rq # "no"
      BY DEF IInv, Places, WakingOK
    <2> HIDE DEF lists
    <2>3. CASE task[p].state # WAKING
      <3>1. lists = {} /\ Activating(p) = {}
        BY <2>1, <2>3
      <3>2. Cardinality(lists) = 0 /\ Cardinality(Activating(p)) = 0
        BY <3>1, FS_EmptySet
      <3> QED
        BY <2>1, <2>2, <2>3, <3>2 DEF lists
    <2>4. CASE task[p].state = WAKING /\ Activating(p) = {}
      <3>1. lists = {task[p].cpu}
        BY <2>1, <2>4
      <3>2. Cardinality(lists) = 1 /\ Cardinality(Activating(p)) = 0
        BY <2>4, <3>1, FS_EmptySet, FS_Singleton
      <3> QED
        BY <2>2, <2>4, <3>1, <3>2 DEF lists
    <2>5. CASE task[p].state = WAKING /\ Activating(p) # {}
      <3>1. PICK c \in Activating(p) : Activating(p) = {c}
        BY <2>1, <2>5
      <3>2. lists = {}
        BY <2>1, <3>1
      <3>3. Cardinality(lists) = 0 /\ Cardinality(Activating(p)) = 1
        BY <3>1, <3>2, FS_EmptySet, FS_Singleton
      <3> QED
        BY <2>2, <2>5, <3>2, <3>3 DEF lists
    <2> QED
      BY <2>3, <2>4, <2>5
  <1> QED
    BY <1>1, IInvAlways, PTL
=============================================================================
