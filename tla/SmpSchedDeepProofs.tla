------------------------- MODULE SmpSchedDeepProofs -------------------------
(***************************************************************************)
(* The second layer of the proofs about SmpSched, on top of IInv: who is   *)
(* going to sleep and who will wake it, what an idle CPU has been told,    *)
(* who holds which lock, and who will move a task off a CPU it may not     *)
(* use.  Deep is inductive; DeepStep says what one step of a CPU may do to *)
(* each of the four parts, and there is one lemma per action that says it  *)
(* does no more.                                                           *)
(***************************************************************************)
EXTENDS SmpSchedProofs

USE DEF BalPcs, LocalPcs, MaskPcs, MigratePcs, ListPcs, SeenPcs, QueuePcs, WakePcs,
        InPending, Stopping

-----------------------------------------------------------------------------
(* Sleeping tasks, idle CPUs, owners of locks, places that are allowed *)

\* A wakeup of p that has not changed its state yet.
Waker(f, p) == f.w = p /\ f.pc \in {"ttwu"} \cup SeenPcs

\* A task that is going to sleep is still on its CPU, unless it was preempted; so is
\* one that has yet to test its CONDITION; after the test, a true CONDITION has a waker.
SleepOK(p) ==
    /\ task[p].on_rq # "no" /\ task[p].state = SLEEP /\ ~ task[p].preempt_active =>
          \E c \in CPU : rq[c].curr = p /\ (InTask(at[c]) \/ at[c].pc = "lock")
    /\ task[p].step = "test" =>
          task[p].preempt_active \/ \E c \in CPU : rq[c].curr = p /\ InTask(at[c])
    /\ task[p].cond /\ task[p].state = SLEEP /\ (task[p].on_rq = "no" \/ task[p].step = "work") =>
          \E c \in CPU : Waker(at[c], p)

\* The idle loop polls or halts outside __schedule(); a halted CPU is told by interrupt.
DozeOK(c) ==
    /\ rq[c].idle # "off" => rq[c].curr = IDLE /\ InTask(at[c])
    /\ rq[c].idle = "halted" => at[c].pc = "run" /\ (rq[c].resched => rq[c].ipi)

\* An idle CPU with a task on its queue has its flag set, once it has picked the idle
\* task; until it unlocks the queue there is none.
ToldOK(c) ==
    /\ rq[c].curr = IDLE /\ rq[c].queue # {} /\ ~ MayBlock(at[c]) => rq[c].resched
    /\ rq[c].curr = IDLE /\ at[c].pc \in {"switch", "unlock"} => rq[c].queue = {}

\* What WakeListServed says of one CPU.
ServedOK(c) ==
    rq[c].wake_list # {} =>
        \/ rq[c].ipi
        \/ rq[c].idle = "polling" /\ rq[c].resched
        \/ at[c].pc = "idle_pending"
        \/ \E d \in CPU : at[d].pc = "ttwu_kick" /\ at[d].r = c

\* A lock that is held is held by a CPU that is in a place where it holds it; a worker
\* does not wake itself.
OwnedOK(c) ==
    /\ \A d \in CPU : rq[d].lock = c => OwnedRq(at[c], c, d)
    /\ \A p \in Task : task[p].pi_lock = c => OwnedPi(at[c], p)
    /\ at[c].pc \in LocalPcs => at[c].w # rq[c].curr

\* The request to move p to CPU d: queued for the stopper, about to be, or in its hands.
Requested(p, d) ==
    \/ \E q \in Task : <<p, d, q>> \in rq[task[p].cpu].stop
    \/ \E b \in CPU : /\ at[b].pc = "sca_stop" /\ at[b].w = p
                      /\ at[b].r = task[p].cpu /\ at[b].dst = d
    \/ LET f == at[task[p].cpu] IN
       Stopping(f) /\ f.w = p /\ f.dst = d /\ (task[p].state = WAKING => p \in f.wl)

PlacedOK(p) ==
    /\ \/ task[p].cpu \in task[p].allowed
       \/ task[p].on_rq = "no" /\ task[p].state # WAKING
       \/ \E d \in task[p].allowed : Requested(p, d)
    /\ task[p].on_rq = "migrating" => task[p].cpu \in task[p].allowed

\* Where a push or a wakeup is about to put a task.
AimsOK(f) ==
    /\ f.pc \in {"bal_try", "both"} /\ f.t # NONE => f.o \in task[f.t].allowed
    /\ f.pc \in QueuePcs => f.r \in task[f.w].allowed

Sleepers == \A p \in Task : SleepOK(p)
Idlers == \A c \in CPU : DozeOK(c) /\ ToldOK(c) /\ ServedOK(c)
Owners == \A c \in CPU : OwnedOK(c)
Placed == (\A p \in Task : PlacedOK(p)) /\ \A c \in CPU : AimsOK(at[c])

Deep == IInv /\ Sleepers /\ Idlers /\ Owners /\ Placed

-----------------------------------------------------------------------------
(* What a step of CPU c may do to them *)

Elsewhere(c) ==
    \A d \in CPU \ {c} : at'[d] = at[d] /\ rq'[d].curr = rq[d].curr

\* p is on CPU c after the step, in its task.
RunsOn(c, p) == rq'[c].curr = p /\ InTask(at'[c])

SleepStep(c) ==
    /\ Elsewhere(c)
    /\ \A p \in Task :
        /\ task'[p].state = SLEEP /\ task[p].state # SLEEP =>
              RunsOn(c, p) /\ task'[p].step = "test" /\ task'[p].on_rq # "no"
        /\ task'[p].state = SLEEP /\ task'[p].on_rq # "no" =>
              task[p].on_rq # "no"
        /\ task'[p].on_rq = "no" /\ task[p].on_rq # "no" =>
              /\ rq[c].curr = p /\ ~ InTask(at[c]) /\ ~ task[p].preempt_active
              /\ task'[p].step = task[p].step
        /\ task[p].preempt_active => task'[p].preempt_active \/ RunsOn(c, p)
        /\ rq[c].curr = p /\ InTask(at[c]) =>
              \/ RunsOn(c, p) \/ task'[p].preempt_active
              \/ task'[p].step = "work" /\ rq'[c].curr = p /\ at'[c].pc = "lock"
        /\ rq[c].curr = p /\ at[c].pc = "lock" =>
              \/ task'[p].preempt_active \/ task'[p].state # SLEEP \/ task'[p].on_rq = "no"
        /\ task'[p].step = "test" /\ task[p].step # "test" => RunsOn(c, p)
        /\ task'[p].step # "test" /\ task[p].step = "test" =>
              ~ task'[p].cond \/ task'[p].state # SLEEP
        /\ task'[p].cond => task[p].cond \/ Waker(at'[c], p)
        /\ Waker(at[c], p) => Waker(at'[c], p) \/ task'[p].state # SLEEP
        /\ task'[p].cpu # task[p].cpu => task'[p].state # SLEEP \/ task[p].preempt_active

LEMMA SleepKept ==
    ASSUME IInv, IInv', Sleepers, NEW c \in CPU, SleepStep(c)
    PROVE  Sleepers'
  <1> SUFFICES ASSUME NEW p \in Task PROVE SleepOK(p)'
    BY DEF Sleepers
  <1>0. SleepOK(p) /\ Elsewhere(c)
    BY DEF Sleepers, SleepStep
  <1>1. ASSUME task'[p].on_rq # "no", task'[p].state = SLEEP, ~ task'[p].preempt_active
        PROVE  \E d \in CPU : rq'[d].curr = p /\ (InTask(at'[d]) \/ at'[d].pc = "lock")
    <2>1. CASE task[p].state # SLEEP \/ task[p].preempt_active
      BY <1>1, <2>1 DEF SleepStep, RunsOn
    <2>2. CASE task[p].state = SLEEP /\ ~ task[p].preempt_active
      <3>1. PICK d \in CPU : rq[d].curr = p /\ (InTask(at[d]) \/ at[d].pc = "lock")
        BY <1>0, <1>1, <2>2 DEF SleepOK, SleepStep
      <3>2. CASE d = c
        BY <1>1, <3>1, <3>2 DEF SleepStep, RunsOn
      <3>3. CASE d # c
        BY <1>0, <3>1, <3>3 DEF Elsewhere
      <3> QED
        BY <3>2, <3>3
    <2> QED
      BY <2>1, <2>2
  <1>2. ASSUME task'[p].step = "test", ~ task'[p].preempt_active
        PROVE  \E d \in CPU : rq'[d].curr = p /\ InTask(at'[d])
    <2>1. CASE task[p].step # "test" \/ task[p].preempt_active
      BY <1>2, <2>1 DEF SleepStep, RunsOn
    <2>2. CASE task[p].step = "test" /\ ~ task[p].preempt_active
      <3>1. PICK d \in CPU : rq[d].curr = p /\ InTask(at[d])
        BY <1>0, <2>2 DEF SleepOK
      <3>2. CASE d = c
        BY <1>2, <3>1, <3>2 DEF SleepStep, RunsOn
      <3>3. CASE d # c
        BY <1>0, <3>1, <3>3 DEF Elsewhere
      <3> QED
        BY <3>2, <3>3
    <2> QED
      BY <2>1, <2>2
  <1>3. ASSUME task'[p].cond, task'[p].state = SLEEP, task'[p].on_rq = "no" \/ task'[p].step = "work"
        PROVE  \E d \in CPU : Waker(at'[d], p)
    <2>0. task'[p].step = "work" <=> task'[p].step # "test"
      BY Types, TypesNext DEF IInv, Core, Typed, TaskType
    <2>1. task[p].step = "work" <=> task[p].step # "test"
      BY Types DEF IInv, Core, Typed, TaskType
    <2>2. task[p].state = SLEEP
      BY <1>3, <2>0 DEF SleepStep
    <2>3. CASE Waker(at'[c], p)
      BY <2>3
    <2>4. CASE ~ Waker(at'[c], p)
      <3>1. task[p].cond
        BY <1>3, <2>4 DEF SleepStep
      <3>2. task[p].on_rq = "no" \/ task[p].step = "work"
        <4>1. CASE task'[p].on_rq = "no" /\ task[p].on_rq # "no"
          <5>1. /\ rq[c].curr = p /\ ~ InTask(at[c]) /\ ~ task[p].preempt_active
            BY <4>1 DEF SleepStep
          <5>2. ASSUME NEW d \in CPU, rq[d].curr = p PROVE d = c
            BY <5>1, <5>2 DEF IInv, Places, StacksExact, Stacks
          <5> QED
            BY <1>0, <2>1, <5>1, <5>2 DEF SleepOK
        <4>2. CASE task'[p].on_rq # "no"
          BY <1>3, <2>0, <2>1, <4>2 DEF SleepStep
        <4> QED
          BY <4>1, <4>2
      <3>3. PICK d \in CPU : Waker(at[d], p)
        BY <1>0, <2>2, <3>1, <3>2 DEF SleepOK
      <3>4. CASE d = c
        BY <1>3, <3>3, <3>4 DEF SleepStep
      <3>5. CASE d # c
        BY <1>0, <3>3, <3>5 DEF Elsewhere
      <3> QED
        BY <3>4, <3>5
    <2> QED
      BY <2>3, <2>4
  <1> QED
    BY <1>1, <1>2, <1>3 DEF SleepOK

Kicks(f, d) == f.pc = "ttwu_kick" /\ f.r = d

\* Another CPU d may be told something, and is if it is idle and gets a task.
ToldElsewhere(c, d) ==
    /\ rq'[d].idle = rq[d].idle
    /\ rq[d].ipi => rq'[d].ipi
    /\ rq[d].resched => rq'[d].resched
    /\ rq[d].idle = "halted" /\ rq'[d].resched => rq[d].resched \/ rq'[d].ipi
    /\ \/ rq'[d].queue \subseteq rq[d].queue
       \/ rq[d].lock \in {c, NONE} /\ (rq[d].curr = IDLE => rq'[d].resched)

IdleStep(c) ==
    /\ Elsewhere(c)
    /\ \A d \in CPU \ {c} : ToldElsewhere(c, d)
    /\ DozeOK(c)' /\ ToldOK(c)'
    /\ \A d \in CPU :
        /\ rq'[d].wake_list # {} => rq[d].wake_list # {} \/ Kicks(at'[c], d)
        /\ Kicks(at[c], d) => \/ Kicks(at'[c], d) \/ rq'[d].ipi
                              \/ rq'[d].idle = "polling" /\ rq'[d].resched
    /\ rq'[c].wake_list # {} =>
        /\ rq[c].ipi => rq'[c].ipi
        /\ rq[c].idle = "polling" /\ rq[c].resched =>
              \/ rq'[c].idle = "polling" /\ rq'[c].resched
              \/ at'[c].pc = "idle_pending"
        /\ at[c].pc = "idle_pending" => at'[c].pc = "idle_pending"

LEMMA IdleKept ==
    ASSUME IInv, Idlers, NEW c \in CPU, IdleStep(c)
    PROVE  Idlers'
  <1> SUFFICES ASSUME NEW d \in CPU PROVE DozeOK(d)' /\ ToldOK(d)' /\ ServedOK(d)'
    BY DEF Idlers
  <1>0. /\ DozeOK(d) /\ ToldOK(d) /\ ServedOK(d) /\ Elsewhere(c)
        /\ d # c => ToldElsewhere(c, d)
    BY DEF Idlers, IdleStep
  <1>1. DozeOK(d)'
    BY <1>0 DEF DozeOK, IdleStep, Elsewhere, ToldElsewhere
  <1>2. ToldOK(d)'
    <2>1. CASE d # c
      <3>1. at[d].pc \in {"switch", "unlock"} => rq[d].lock = d /\ rq[d].lock \notin {c, NONE}
        <4>1. \A e \in RqLocks(at[d], d) : rq[e].lock = d
          BY InvFacts
        <4>2. at[d].pc \in {"switch", "unlock"} => d \in RqLocks(at[d], d)
          BY DEF RqLocks
        <4> QED
          BY <2>1, <4>1, <4>2, Names
      <3> QED
        BY <1>0, <2>1, <3>1 DEF ToldOK, Elsewhere, ToldElsewhere
    <2> QED
      BY <2>1 DEF IdleStep
  <1>3. ServedOK(d)'
    <2> SUFFICES ASSUME rq'[d].wake_list # {}
                 PROVE  \/ rq'[d].ipi
                        \/ rq'[d].idle = "polling" /\ rq'[d].resched
                        \/ at'[d].pc = "idle_pending"
                        \/ \E e \in CPU : Kicks(at'[e], d)
      BY DEF ServedOK, Kicks
    <2>1. CASE ~ Kicks(at'[c], d)
      <3>1. \/ rq[d].ipi
            \/ rq[d].idle = "polling" /\ rq[d].resched
            \/ at[d].pc = "idle_pending"
            \/ \E e \in CPU : Kicks(at[e], d)
        BY <1>0, <2>1 DEF IdleStep, ServedOK, Kicks
      <3>2. CASE \E e \in CPU : Kicks(at[e], d)
        BY <1>0, <3>2 DEF IdleStep, Elsewhere
      <3>3. CASE d = c
        BY <3>1, <3>2, <3>3 DEF IdleStep
      <3>4. CASE d # c
        BY <1>0, <3>1, <3>2, <3>4 DEF Elsewhere, ToldElsewhere
      <3> QED
        BY <3>3, <3>4
    <2> QED
      BY <2>1
  <1> QED
    BY <1>1, <1>2, <1>3

\* Only free locks and its own change hands, and it knows those it holds.
OwnStep(c) ==
    /\ Elsewhere(c)
    /\ OwnedOK(c)'
    /\ \A d \in CPU : rq'[d].lock \in {c, NONE} \/ rq'[d].lock = rq[d].lock
    /\ \A p \in Task : task'[p].pi_lock \in {c, NONE} \/ task'[p].pi_lock = task[p].pi_lock

LEMMA OwnersKept ==
    ASSUME Owners, NEW c \in CPU, OwnStep(c)
    PROVE  Owners'
  <1> SUFFICES ASSUME NEW d \in CPU, d # c PROVE OwnedOK(d)'
    BY DEF Owners, OwnStep
  <1>1. OwnedOK(d) /\ at'[d] = at[d] /\ rq'[d].curr = rq[d].curr
    BY DEF Owners, OwnStep, Elsewhere
  <1>2. \A e \in CPU : rq'[e].lock = d => rq[e].lock = d
    BY Names DEF OwnStep
  <1>3. \A p \in Task : task'[p].pi_lock = d => task[p].pi_lock = d
    BY Names DEF OwnStep
  <1> QED
    BY <1>1, <1>2, <1>3 DEF OwnedOK, OwnedRq, OwnedPi

\* The place and the mask of p stay, and so do the requests to move it.
Undisturbed(p) ==
    /\ task'[p].cpu = task[p].cpu /\ task'[p].allowed = task[p].allowed
    /\ task[p].on_rq = "no" /\ task[p].state # WAKING =>
          task'[p].on_rq = "no" /\ task'[p].state # WAKING
    /\ task'[p].state = WAKING => task[p].state = WAKING
    /\ \A d \in task[p].allowed : Requested(p, d) => Requested(p, d)'

PlaceStep(c) ==
    /\ Elsewhere(c)
    /\ \A p \in Task :
        /\ \/ Undisturbed(p)
           \/ task'[p].cpu \in task'[p].allowed
           \/ task'[p].on_rq = "no" /\ task'[p].state # WAKING
           \/ \E d \in task'[p].allowed : Requested(p, d)'
        /\ task'[p].on_rq = "migrating" =>
              \/ task'[p].cpu \in task'[p].allowed
              \/ /\ task[p].on_rq = "migrating"
                 /\ task'[p].cpu = task[p].cpu /\ task'[p].allowed = task[p].allowed
        /\ task'[p].allowed # task[p].allowed => task[p].pi_lock = c /\ Free(rq[task[p].cpu].lock)
    /\ AimsOK(at[c])'

LEMMA PlacesKept ==
    ASSUME IInv, Placed, NEW c \in CPU, PlaceStep(c)
    PROVE  Placed'
  <1>1. ASSUME NEW p \in Task PROVE PlacedOK(p)'
    <2>1. PlacedOK(p)
      BY DEF Placed
    <2> QED
      BY <2>1 DEF PlaceStep, PlacedOK, Undisturbed
  <1>2. ASSUME NEW d \in CPU, d # c PROVE AimsOK(at[d])'
    <2>1. at'[d] = at[d] /\ AimsOK(at[d])
      BY <1>2 DEF PlaceStep, Elsewhere, Placed
    <2>2. /\ at[d] \in FrameType /\ FrameOK(at[d], d, rq[d].curr) /\ Relies(at[d], d)
          /\ HoldsPi(at[d]) => task[at[d].w].pi_lock = d
      BY InvFacts
    <2>3. at[d].pc \in QueuePcs => at[d].w \in Task /\ task'[at[d].w].allowed = task[at[d].w].allowed
      BY <1>2, <2>2 DEF PlaceStep, HoldsPi, FrameOK
    <2>4. ASSUME at[d].pc \in {"bal_try", "both"}, at[d].t # NONE
          PROVE  at[d].t \in Task /\ task'[at[d].t].allowed = task[at[d].t].allowed
      <3>1. at[d].r \in CPU /\ rq[at[d].r].lock = d
        BY <2>4, BalLocked
      <3>2. at[d].t \in Task /\ task[at[d].t].cpu = at[d].r
        BY <2>2, <2>4, <3>1 DEF Relies, FrameType, IInv, Places, QueueExact
      <3> QED
        BY <3>1, <3>2, Names DEF PlaceStep, Free
    <2> QED
      BY <2>1, <2>3, <2>4 DEF AimsOK
  <1> QED
    BY <1>1, <1>2 DEF Placed, PlaceStep

DeepStep(c) == SleepStep(c) /\ IdleStep(c) /\ OwnStep(c) /\ PlaceStep(c)

LEMMA DeepKept ==
    ASSUME Deep, IInv', NEW c \in CPU, DeepStep(c)
    PROVE  Deep'
  BY SleepKept, IdleKept, OwnersKept, PlacesKept DEF Deep, DeepStep
-----------------------------------------------------------------------------
(* Plain steps: what most steps have in common *)

\* CPU c goes to frame f.
Into(c, f) ==
    /\ f \in FrameType /\ at' = [at EXCEPT ![c] = f]
    /\ \A d \in CPU \ {c} : rq'[d].curr = rq[d].curr

LEMMA IntoFrame ==
    ASSUME IInv, NEW c \in CPU, NEW f, Into(c, f)
    PROVE  at'[c] = f /\ Elsewhere(c)
  <1>1. Typed
    BY InvFacts
  <1> QED
    BY <1>1 DEF Into, Elsewhere, Typed

\* Nobody goes to sleep, the notes stay, and the task of CPU c stays in its task.
SleepPlain(c, f) ==
    /\ at[c].pc # "lock"
    /\ InTask(at[c]) => InTask(f) /\ rq'[c].curr = rq[c].curr
    /\ \A p \in Task :
        /\ task'[p].cond = task[p].cond /\ task'[p].step = task[p].step
        /\ task[p].preempt_active => task'[p].preempt_active \/ RunsOn(c, p)
        /\ task'[p].state = SLEEP => task[p].state = SLEEP /\ (task'[p].on_rq # "no" => task[p].on_rq # "no")
        /\ task'[p].on_rq = "no" => task[p].on_rq = "no"
        /\ Waker(at[c], p) => Waker(f, p) \/ task'[p].state # SLEEP
        /\ task'[p].cpu # task[p].cpu => task'[p].state # SLEEP \/ task[p].preempt_active

LEMMA PlainSleep ==
    ASSUME IInv, NEW c \in CPU, NEW f, Into(c, f), SleepPlain(c, f)
    PROVE  SleepStep(c)
  <1>1. at'[c] = f /\ Elsewhere(c)
    BY IntoFrame
  <1> QED
    BY <1>1 DEF SleepPlain, SleepStep, RunsOn

\* Flags are only set, a list that gets its first entry is announced, and an idle CPU
\* that gets a task is told.
IdlePlain(c, f) ==
    /\ rq[c].idle # "halted" /\ at[c].pc # "idle_pending" /\ f.pc \notin {"switch", "unlock"}
    /\ rq'[c].curr = rq[c].curr
    /\ InTask(at[c]) => InTask(f)
    /\ MayBlock(at[c]) => MayBlock(f)
    /\ \A d \in CPU :
        /\ rq'[d].idle = rq[d].idle
        /\ rq[d].ipi => rq'[d].ipi
        /\ rq[d].resched => rq'[d].resched
        /\ rq[d].idle = "halted" /\ rq'[d].resched => rq[d].resched \/ rq'[d].ipi
        /\ \/ rq'[d].queue \subseteq rq[d].queue
           \/ rq[d].lock \in {c, NONE} /\ (rq[d].curr = IDLE => rq'[d].resched)
           \/ d = c /\ MayBlock(f)
        /\ rq'[d].wake_list # {} => rq[d].wake_list # {} \/ Kicks(f, d)
        /\ Kicks(at[c], d) => rq'[d].ipi \/ (rq'[d].idle = "polling" /\ rq'[d].resched)

LEMMA PlainIdle ==
    ASSUME IInv, Idlers, NEW c \in CPU, NEW f, Into(c, f), IdlePlain(c, f)
    PROVE  IdleStep(c)
  <1>1. at'[c] = f /\ Elsewhere(c)
    BY IntoFrame
  <1>2. DozeOK(c) /\ ToldOK(c)
    BY DEF Idlers
  <1>3. DozeOK(c)' /\ ToldOK(c)'
    BY <1>1, <1>2 DEF IdlePlain, DozeOK, ToldOK
  <1>4. \A d \in CPU \ {c} : ToldElsewhere(c, d)
    BY DEF IdlePlain, ToldElsewhere
  <1> QED
    BY <1>1, <1>3, <1>4 DEF IdlePlain, IdleStep

\* Task p stays, or comes to a CPU it may use, or has somebody who will move it.
Settles(c, p) ==
    /\ task'[p].allowed # task[p].allowed => task[p].pi_lock = c /\ Free(rq[task[p].cpu].lock)
    /\ \/ /\ task'[p].cpu = task[p].cpu /\ task'[p].allowed = task[p].allowed
          /\ task[p].on_rq = "no" /\ task[p].state # WAKING =>
                task'[p].on_rq = "no" /\ task'[p].state # WAKING
          /\ task'[p].state = WAKING => task[p].state = WAKING
       \/ task'[p].cpu \in task'[p].allowed
       \/ task'[p].on_rq = "no" /\ task'[p].state # WAKING
       \/ \E d \in task'[p].allowed : Requested(p, d)'
    /\ task'[p].on_rq = "migrating" =>
          \/ task'[p].cpu \in task'[p].allowed
          \/ /\ task[p].on_rq = "migrating"
             /\ task'[p].cpu = task[p].cpu /\ task'[p].allowed = task[p].allowed

PlacePlain(c, f) ==
    /\ \A p \in Task : Settles(c, p)
    /\ \A d \in CPU : rq[d].stop \subseteq rq'[d].stop
    /\ at[c].pc = "sca_stop" =>
          \E q \in Task : <<at[c].w, at[c].dst, q>> \in rq'[at[c].r].stop
    /\ Stopping(at[c]) => /\ Stopping(f) /\ f.w = at[c].w /\ f.dst = at[c].dst
                          /\ \A p \in at[c].wl : p \in f.wl \/ task'[p].state # WAKING
    /\ f.pc \in {"bal_try", "both"} /\ f.t # NONE => f.o \in task'[f.t].allowed
    /\ f.pc \in QueuePcs => f.r \in task'[f.w].allowed

LEMMA PlainPlace ==
    ASSUME IInv, NEW c \in CPU, NEW f, Into(c, f), PlacePlain(c, f)
    PROVE  PlaceStep(c)
  <1>1. at'[c] = f /\ Elsewhere(c) /\ Typed
    BY IntoFrame, InvFacts
  <1>2. ASSUME NEW p \in Task, NEW d \in CPU, Requested(p, d), task'[p].cpu = task[p].cpu,
               task'[p].state = WAKING => task[p].state = WAKING
        PROVE  Requested(p, d)'
    <2>0. task[p].cpu \in CPU
      BY <1>1 DEF Typed, TaskType
    <2>1. CASE \E q \in Task : <<p, d, q>> \in rq[task[p].cpu].stop
      BY <1>2, <2>0, <2>1 DEF PlacePlain, Requested
    <2>2. CASE \E b \in CPU : /\ at[b].pc = "sca_stop" /\ at[b].w = p
                              /\ at[b].r = task[p].cpu /\ at[b].dst = d
      <3>1. PICK b \in CPU : /\ at[b].pc = "sca_stop" /\ at[b].w = p
                             /\ at[b].r = task[p].cpu /\ at[b].dst = d
        BY <2>2
      <3>2. CASE b = c
        BY <1>2, <3>1, <3>2 DEF PlacePlain, Requested
      <3>3. CASE b # c
        BY <1>1, <1>2, <3>1, <3>3 DEF Elsewhere, Requested
      <3> QED
        BY <3>2, <3>3
    <2>3. CASE LET g == at[task[p].cpu] IN
               Stopping(g) /\ g.w = p /\ g.dst = d /\ (task[p].state = WAKING => p \in g.wl)
      <3> DEFINE e == task[p].cpu
      <3>1. /\ Stopping(at[e]) /\ at[e].w = p /\ at[e].dst = d
            /\ task'[p].state = WAKING => p \in at[e].wl
        BY <1>2, <2>3
      <3> HIDE DEF e
      <3>2. CASE e = c
        <4>1. Stopping(at'[e]) /\ at'[e].w = p /\ at'[e].dst = d
          BY <1>1, <3>1, <3>2 DEF PlacePlain
        <4>2. task'[p].state = WAKING => p \in at'[e].wl
          BY <1>1, <3>1, <3>2 DEF PlacePlain
        <4>3. task'[p].cpu = e
          BY <1>2 DEF e
        <4> QED
          BY <4>1, <4>2, <4>3 DEF Requested
      <3>3. CASE e # c
        <4>1. at'[e] = at[e] /\ task'[p].cpu = e
          BY <1>1, <1>2, <2>0, <3>3 DEF Elsewhere, e
        <4> QED
          BY <3>1, <4>1 DEF Requested
      <3> QED
        BY <3>2, <3>3
    <2> QED
      BY <1>2, <2>1, <2>2, <2>3 DEF Requested
  <1>3. ASSUME NEW p \in Task, task'[p].cpu = task[p].cpu, task'[p].allowed = task[p].allowed,
               task[p].on_rq = "no" /\ task[p].state # WAKING =>
                  task'[p].on_rq = "no" /\ task'[p].state # WAKING,
               task'[p].state = WAKING => task[p].state = WAKING
        PROVE  Undisturbed(p)
    <2>1. task[p].allowed \subseteq CPU
      BY <1>1 DEF Typed, TaskType
    <2> QED
      BY <1>2, <1>3, <2>1 DEF Undisturbed
  <1>4. AimsOK(at[c])'
    BY <1>1 DEF PlacePlain, AimsOK
  <1> QED
    BY <1>1, <1>3, <1>4 DEF PlacePlain, Settles, PlaceStep

\* A lock of CPU c is released, taken for the new frame, or kept by both frames.
OwnPlain(c, f) ==
    /\ \A d \in CPU : \/ rq'[d].lock = NONE
                      \/ rq'[d].lock = c /\ OwnedRq(f, c, d)
                      \/ rq'[d].lock = rq[d].lock /\ (OwnedRq(at[c], c, d) => OwnedRq(f, c, d))
    /\ \A p \in Task : \/ task'[p].pi_lock = NONE
                       \/ task'[p].pi_lock = c /\ OwnedPi(f, p)
                       \/ task'[p].pi_lock = task[p].pi_lock /\ (OwnedPi(at[c], p) => OwnedPi(f, p))
    /\ f.pc \in LocalPcs => f.w # rq'[c].curr

LEMMA PlainOwn ==
    ASSUME IInv, Owners, NEW c \in CPU, NEW f, Into(c, f), OwnPlain(c, f)
    PROVE  OwnStep(c)
  <1>1. at'[c] = f /\ Elsewhere(c) /\ OwnedOK(c)
    BY IntoFrame DEF Owners
  <1>2. \A d \in CPU : rq'[d].lock \in {c, NONE} \/ rq'[d].lock = rq[d].lock
    BY DEF OwnPlain
  <1>3. \A p \in Task : task'[p].pi_lock \in {c, NONE} \/ task'[p].pi_lock = task[p].pi_lock
    BY DEF OwnPlain
  <1>4. OwnedOK(c)'
    <2>1. \A d \in CPU : rq'[d].lock = c => OwnedRq(f, c, d)
      BY <1>1, Names DEF OwnPlain, OwnedOK
    <2>2. \A p \in Task : task'[p].pi_lock = c => OwnedPi(f, p)
      BY <1>1, Names DEF OwnPlain, OwnedOK
    <2> QED
      BY <1>1, <2>1, <2>2 DEF OwnPlain, OwnedOK, OwnedRq, OwnedPi
  <1> QED
    BY <1>1, <1>2, <1>3, <1>4 DEF OwnStep

LEMMA PlainDeep ==
    ASSUME Deep, NEW c \in CPU, NEW f, Into(c, f), SleepPlain(c, f), IdlePlain(c, f),
           PlacePlain(c, f), OwnPlain(c, f)
    PROVE  DeepStep(c)
  BY PlainSleep, PlainIdle, PlainPlace, PlainOwn DEF Deep, DeepStep

-----------------------------------------------------------------------------
(* Steps of which only locks and the frame are left *)

OnlyLocks ==
    /\ SameTasks(task', task) /\ SameNotes(task', task)
    /\ SameQueues(rq', rq) /\ SameStops(rq', rq) /\ SameFlags(rq', rq)

\* The new frame f is on the same way as the old one.
Gentle(c, f) ==
    /\ at[c].pc \notin {"lock", "ttwu_kick", "idle_pending", "sca_stop"}
    /\ f.pc \notin {"switch", "unlock"} \cup QueuePcs
    /\ rq[c].idle # "halted"
    /\ InTask(at[c]) => InTask(f)
    /\ MayBlock(at[c]) => MayBlock(f)
    /\ \A p \in Task : Waker(at[c], p) => Waker(f, p) \/ task[p].state # SLEEP
    /\ Stopping(at[c]) => Stopping(f) /\ f.w = at[c].w /\ f.dst = at[c].dst /\ f.wl = at[c].wl
    /\ f.pc \in {"bal_try", "both"} /\ f.t # NONE => f.o \in task[f.t].allowed

LEMMA GentleDeep ==
    ASSUME Deep, NEW c \in CPU, NEW f \in FrameType, at' = [at EXCEPT ![c] = f], OnlyLocks,
           Gentle(c, f), OwnPlain(c, f)
    PROVE  DeepStep(c)
  <1>1. Into(c, f)
    BY DEF Into, OnlyLocks, SameQueues
  <1>2. SleepPlain(c, f)
    BY DEF OnlyLocks, SameTasks, SameNotes, SameQueues, Gentle, SleepPlain
  <1>3. IdlePlain(c, f)
    BY DEF OnlyLocks, SameQueues, SameFlags, Gentle, IdlePlain, Kicks
  <1>4. PlacePlain(c, f)
    <2>1. \A p \in Task : Settles(c, p)
      BY DEF OnlyLocks, SameTasks, Settles
    <2>2. f.t \in Task \cup {NONE}
      BY DEF FrameType
    <2> QED
      BY <2>1, <2>2 DEF OnlyLocks, SameTasks, SameStops, Gentle, PlacePlain
  <1> QED
    BY <1>1, <1>2, <1>3, <1>4, PlainDeep

\* What both frames own.
KeepsRq(c, f, D) == \A d \in D : OwnedRq(at[c], c, d) => OwnedRq(f, c, d)
KeepsPi(c, f, P) == \A p \in P : OwnedPi(at[c], p) => OwnedPi(f, p)

LEMMA GentleFrame ==
    ASSUME Deep, NEW c \in CPU, NEW f \in FrameType, at' = [at EXCEPT ![c] = f],
           task' = task, rq' = rq, Gentle(c, f), KeepsRq(c, f, CPU), KeepsPi(c, f, Task),
           f.pc \notin LocalPcs
    PROVE  DeepStep(c)
  <1>1. OnlyLocks
    BY DEF OnlyLocks, SameTasks, SameNotes, SameQueues, SameStops, SameFlags
  <1>2. OwnPlain(c, f)
    BY DEF OwnPlain, KeepsRq, KeepsPi
  <1> QED
    BY <1>1, <1>2, GentleDeep

LEMMA GentlePi ==
    ASSUME Deep, NEW c \in CPU, NEW f \in FrameType, at' = [at EXCEPT ![c] = f],
           NEW p \in Task, NEW v \in {c, NONE}, task' = [task EXCEPT ![p].pi_lock = v], rq' = rq,
           Gentle(c, f), KeepsRq(c, f, CPU), KeepsPi(c, f, Task \ {p}), v = c => OwnedPi(f, p),
           f.pc \in LocalPcs => f.w # rq[c].curr
    PROVE  DeepStep(c)
  <1>1. task \in [Task -> TaskType] /\ v \in CPU \cup {NONE}
    BY InvFacts DEF Deep, Typed
  <1>1a. PiLocked(task', task, p, v)
    BY DEF PiLocked
  <1>2. /\ SameTasks(task', task) /\ SameNotes(task', task) /\ task'[p].pi_lock = v
        /\ \A q \in Task \ {p} : task'[q] = task[q]
    BY <1>1, <1>1a, PiLockOnly
  <1>3. OnlyLocks
    BY <1>2 DEF OnlyLocks, SameNotes, SameQueues, SameStops, SameFlags
  <1>4. OwnPlain(c, f)
    BY <1>2 DEF OwnPlain, KeepsRq, KeepsPi
  <1> QED
    BY <1>3, <1>4, GentleDeep

LEMMA GentleRq ==
    ASSUME Deep, NEW c \in CPU, NEW f \in FrameType, at' = [at EXCEPT ![c] = f],
           NEW e \in CPU, NEW v \in {c, NONE}, rq' = [rq EXCEPT ![e].lock = v], task' = task,
           Gentle(c, f), KeepsRq(c, f, CPU \ {e}), v = c => OwnedRq(f, c, e), KeepsPi(c, f, Task),
           f.pc \in LocalPcs => f.w # rq[c].curr
    PROVE  DeepStep(c)
  <1>1. rq \in [CPU -> RqType] /\ v \in CPU \cup {NONE}
    BY InvFacts DEF Deep, Typed
  <1>1a. Locked(rq', rq, e, v)
    BY DEF Locked
  <1>2. /\ SameQueues(rq', rq) /\ SameStops(rq', rq) /\ SameFlags(rq', rq)
        /\ rq'[e].lock = v /\ \A d \in CPU \ {e} : rq'[d] = rq[d]
    BY <1>1, <1>1a, LockOnly
  <1>3. OnlyLocks
    BY <1>2 DEF OnlyLocks, SameNotes, SameTasks
  <1>4. OwnPlain(c, f)
    <2>1. rq'[c].curr = rq[c].curr
      BY <1>2 DEF SameQueues
    <2> QED
      BY <1>2, <2>1 DEF OwnPlain, KeepsRq, KeepsPi
  <1> QED
    BY <1>3, <1>4, GentleDeep

\* What the invariant says of CPU c.
LEMMA DeepFacts ==
    ASSUME Deep, NEW c \in CPU
    PROVE  /\ IInv /\ Core /\ Typed /\ at[c] \in FrameType /\ rq[c] \in RqType
           /\ FrameOK(at[c], c, rq[c].curr) /\ Relies(at[c], c)
           /\ \A d \in RqLocks(at[c], c) : rq[d].lock = c
           /\ HoldsPi(at[c]) => task[at[c].w].pi_lock = c
           /\ OwnedOK(c) /\ DozeOK(c) /\ ToldOK(c) /\ ServedOK(c) /\ AimsOK(at[c])
           /\ at[c].pc # "run" \/ rq[c].curr # IDLE => rq[c].idle # "halted"
  BY InvFacts DEF Deep, Owners, Idlers, Placed, DozeOK

LEMMA TtwuStateDeep ==
    ASSUME Deep, NEW c \in CPU, TtwuState(c)
    PROVE  DeepStep(c)
  <1> DEFINE p == at[c].w
  <1>1. /\ at[c] \in FrameType /\ FrameOK(at[c], c, rq[c].curr) /\ at[c].pc = "ttwu"
        /\ rq[c].idle # "halted" /\ rq' = rq
    BY DeepFacts DEF TtwuState
  <1>2. p \in Task
    BY <1>1 DEF FrameOK
  <1>3. CASE task[p].state # SLEEP
    <2>1. at' = [at EXCEPT ![c] = Run] /\ task' = task
      BY <1>3 DEF TtwuState
    <2>2. Gentle(c, Run)
      BY <1>1, <1>3 DEF Gentle, InTask, MayBlock, Waker, FrameOK, Run
    <2>3. KeepsRq(c, Run, CPU) /\ KeepsPi(c, Run, Task)
      BY <1>1 DEF KeepsRq, KeepsPi, OwnedRq, OwnedPi, RqLocks, HoldsPi, FrameOK
    <2> QED
      BY <1>1, <2>1, <2>2, <2>3, RunFrame, GentleFrame DEF Run
  <1>4. CASE task[p].state = SLEEP
    <2>1. task' = [task EXCEPT ![p].pi_lock = c] /\ Goto(c, "ttwu_on_rq")
      BY <1>4 DEF TtwuState
    <2>2. PICK f \in FrameType :
            f.pc = "ttwu_on_rq" /\ SameFrame(f, at[c]) /\ at' = [at EXCEPT ![c] = f]
      BY <1>1, <2>1, GotoFacts, PcNames
    <2>3. Gentle(c, f)
      BY <1>1, <2>2 DEF Gentle, InTask, MayBlock, Waker, FrameOK, SameFrame
    <2>4. KeepsRq(c, f, CPU) /\ KeepsPi(c, f, Task \ {p}) /\ OwnedPi(f, p)
      BY <1>1, <2>2 DEF KeepsRq, KeepsPi, OwnedRq, OwnedPi, RqLocks, HoldsPi, FrameOK, SameFrame
    <2> QED
      BY <1>1, <1>2, <2>1, <2>2, <2>3, <2>4, GentlePi
  <1> QED
    BY <1>3, <1>4

LEMMA TtwuOnRqDeep ==
    ASSUME Deep, NEW c \in CPU, TtwuOnRq(c) \/ TtwuSpin(c)
    PROVE  DeepStep(c)
  <1>1. /\ Typed /\ at[c] \in FrameType /\ FrameOK(at[c], c, rq[c].curr)
        /\ at[c].pc \in {"ttwu_on_rq", "remote_spin"}
        /\ rq[c].idle # "halted" /\ rq' = rq /\ task' = task
    BY DeepFacts DEF TtwuOnRq, TtwuSpin
  <1>2. PICK x \in {"ttwu_on_cpu", "remote_lock"} :
            at' = [at EXCEPT ![c] = [at[c] EXCEPT !.pc = x, !.r = task[at[c].w].cpu]]
    BY DEF TtwuOnRq, TtwuSpin
  <1> DEFINE f == [at[c] EXCEPT !.pc = x, !.r = task[at[c].w].cpu]
  <1>3. task[at[c].w].cpu \in CPU
    BY <1>1 DEF FrameOK, Typed, TaskType
  <1>4. f \in FrameType /\ f.pc = x /\ f.w = at[c].w /\ f.k = at[c].k /\ f.t = at[c].t
        /\ f.ret = at[c].ret
    BY <1>1, <1>3, PcNames DEF FrameType
  <1>5. at' = [at EXCEPT ![c] = f]
    BY <1>2
  <1> HIDE DEF f
  <1>6. Gentle(c, f)
    BY <1>1, <1>4 DEF Gentle, InTask, MayBlock, Waker, FrameOK
  <1>7. KeepsRq(c, f, CPU) /\ KeepsPi(c, f, Task)
    BY <1>1, <1>4 DEF KeepsRq, KeepsPi, OwnedRq, OwnedPi, RqLocks, HoldsPi, FrameOK
  <1> QED
    BY <1>1, <1>4, <1>5, <1>6, <1>7, GentleFrame

LEMMA TtwuMissesDeep ==
    ASSUME Deep, NEW c \in CPU, at[c].pc = "remote_lock", task' = task, rq' = rq,
           NEW x \in {"remote_spin", "ttwu_on_cpu"}, Goto(c, x)
    PROVE  DeepStep(c)
  <1>1. /\ at[c] \in FrameType /\ FrameOK(at[c], c, rq[c].curr) /\ rq[c].idle # "halted"
    BY DeepFacts
  <1>2. PICK f \in FrameType : f.pc = x /\ SameFrame(f, at[c]) /\ at' = [at EXCEPT ![c] = f]
    BY <1>1, GotoFacts, PcNames
  <1>3. Gentle(c, f)
    BY <1>1, <1>2 DEF Gentle, InTask, MayBlock, Waker, FrameOK, SameFrame
  <1>4. KeepsRq(c, f, CPU) /\ KeepsPi(c, f, Task)
    BY <1>1, <1>2 DEF KeepsRq, KeepsPi, OwnedRq, OwnedPi, RqLocks, HoldsPi, FrameOK, SameFrame
  <1> QED
    BY <1>1, <1>2, <1>3, <1>4, GentleFrame

LEMMA LocalTrylockDeep ==
    ASSUME Deep, NEW c \in CPU, LocalTrylock(c) \/ LocalPiLock(c)
    PROVE  DeepStep(c)
  <1> DEFINE q == at[c].w
  <1>1. /\ at[c] \in FrameType /\ FrameOK(at[c], c, rq[c].curr) /\ rq[c].idle # "halted"
        /\ at[c].pc \in {"local", "local_pi"} /\ OwnedOK(c)
    BY DeepFacts DEF LocalTrylock, LocalPiLock
  <1>2. q \in Task /\ q # rq[c].curr
    BY <1>1, Names DEF FrameOK, OwnedOK
  <1>3. CASE task' = [task EXCEPT ![q].pi_lock = c] /\ Goto(c, "local_rq") /\ rq' = rq
    <2>1. PICK f \in FrameType : f.pc = "local_rq" /\ SameFrame(f, at[c]) /\ at' = [at EXCEPT ![c] = f]
      BY <1>1, <1>3, GotoFacts, PcNames
    <2>2. Gentle(c, f)
      BY <1>1, <2>1 DEF Gentle, InTask, MayBlock, Waker, FrameOK, SameFrame
    <2>3. KeepsRq(c, f, CPU) /\ KeepsPi(c, f, Task \ {q}) /\ OwnedPi(f, q) /\ f.w # rq[c].curr
      BY <1>1, <1>2, <2>1
         DEF KeepsRq, KeepsPi, OwnedRq, OwnedPi, RqLocks, HoldsPi, FrameOK, SameFrame
    <2> QED
      BY <1>1, <1>2, <1>3, <2>1, <2>2, <2>3, GentlePi
  <1>4. CASE /\ rq' = [rq EXCEPT ![c].lock = NONE] /\ Goto(c, "local_pi") /\ task' = task
             /\ at[c].pc = "local"
    <2>1. PICK f \in FrameType : f.pc = "local_pi" /\ SameFrame(f, at[c]) /\ at' = [at EXCEPT ![c] = f]
      BY <1>1, <1>4, GotoFacts, PcNames
    <2>2. Gentle(c, f)
      BY <1>1, <2>1 DEF Gentle, InTask, MayBlock, Waker, FrameOK, SameFrame
    <2>3. KeepsRq(c, f, CPU \ {c}) /\ KeepsPi(c, f, Task) /\ f.w # rq[c].curr
      BY <1>1, <1>2, <1>4, <2>1
         DEF KeepsRq, KeepsPi, OwnedRq, OwnedPi, RqLocks, HoldsPi, FrameOK, SameFrame
    <2>4. NONE # c
      BY Names
    <2> QED
      BY <1>1, <1>4, <2>1, <2>2, <2>3, <2>4, GentleRq
  <1> QED
    BY <1>3, <1>4 DEF LocalTrylock, LocalPiLock

LEMMA PushBeginDeep ==
    ASSUME Deep, NEW c \in CPU, PushBegin(c)
    PROVE  DeepStep(c)
  <1>1. /\ Typed /\ at[c] \in FrameType /\ FrameOK(at[c], c, rq[c].curr) /\ rq[c].idle # "halted"
        /\ at[c].pc = "push" /\ task' = task /\ rq' = rq
    BY DeepFacts DEF PushBegin
  <1>2. PICK t \in pushable_tasks(at[c].r) : \E o \in task[t].allowed \ {at[c].r} :
            at' = [at EXCEPT ![c].pc = "bal_try", ![c].t = t, ![c].o = o]
    BY DEF PushBegin
  <1>3. PICK o \in task[t].allowed \ {at[c].r} :
            at' = [at EXCEPT ![c].pc = "bal_try", ![c].t = t, ![c].o = o]
    BY <1>2
  <1> DEFINE f == [at[c] EXCEPT !.pc = "bal_try", !.t = t, !.o = o]
  <1>4. t \in Task
    <2>1. at[c].r \in CPU
      BY <1>1 DEF FrameOK
    <2>2. rq[at[c].r] \in RqType
      BY <1>1, <2>1 DEF Typed
    <2> QED
      BY <2>2 DEF pushable_tasks, RqType
  <1>5. o \in CPU
    <2>1. task[t] \in TaskType
      BY <1>1, <1>4 DEF Typed
    <2> QED
      BY <2>1 DEF TaskType
  <1>6. /\ f \in FrameType /\ f.pc = "bal_try" /\ f.w = at[c].w /\ f.t = t /\ f.o = o
        /\ f.k = at[c].k /\ f.wl = at[c].wl /\ f.dst = at[c].dst /\ f.ret = at[c].ret /\ f.r = at[c].r
    BY <1>1, <1>4, <1>5, PcNames DEF FrameType
  <1>7. at' = [at EXCEPT ![c] = f]
    BY <1>3
  <1> HIDE DEF f
  <1>8. Gentle(c, f)
    BY <1>1, <1>6 DEF Gentle, InTask, MayBlock, Waker, FrameOK
  <1>9. KeepsRq(c, f, CPU) /\ KeepsPi(c, f, Task)
    BY <1>1, <1>6 DEF KeepsRq, KeepsPi, OwnedRq, OwnedPi, RqLocks, HoldsPi, FrameOK
  <1> QED
    BY <1>1, <1>6, <1>7, <1>8, <1>9, GentleFrame

LEMMA PullBeginDeep ==
    ASSUME Deep, NEW c \in CPU, PullBegin(c)
    PROVE  DeepStep(c)
  <1>1. /\ at[c] \in FrameType /\ FrameOK(at[c], c, rq[c].curr) /\ rq[c].idle # "halted"
        /\ at[c].pc = "pick" /\ task' = task /\ rq' = rq
    BY DeepFacts DEF PullBegin
  <1>2. PICK o \in at[c].scan :
            at' = [at EXCEPT ![c] = [at[c] EXCEPT !.pc = "bal_try", !.r = c, !.o = o,
                                                  !.scan = at[c].scan \ {o}]]
    BY DEF PullBegin
  <1> DEFINE f == [at[c] EXCEPT !.pc = "bal_try", !.r = c, !.o = o, !.scan = at[c].scan \ {o}]
  <1>3. o \in CPU
    BY <1>1 DEF FrameType
  <1>4. /\ f \in FrameType /\ f.pc = "bal_try" /\ f.w = at[c].w /\ f.t = at[c].t
        /\ f.r = c /\ f.k = at[c].k /\ f.ret = at[c].ret
    BY <1>1, <1>3, PcNames DEF FrameType
  <1>5. at' = [at EXCEPT ![c] = f]
    BY <1>2
  <1> HIDE DEF f
  <1>6. Gentle(c, f)
    BY <1>1, <1>4 DEF Gentle, InTask, MayBlock, Waker, FrameOK
  <1>7. KeepsRq(c, f, CPU) /\ KeepsPi(c, f, Task)
    BY <1>1, <1>4 DEF KeepsRq, KeepsPi, OwnedRq, OwnedPi, RqLocks, HoldsPi, FrameOK
  <1> QED
    BY <1>1, <1>4, <1>5, <1>6, <1>7, GentleFrame

\* double_lock_balance(): the next frame has the same fields.
LEMMA BalGentle ==
    ASSUME Deep, NEW c \in CPU, at[c].pc \in {"bal_try", "bal_low", "bal_high"},
           NEW f \in FrameType, f.pc \in {"bal_low", "bal_high", "both"}, SameFrame(f, at[c]),
           f.pc = "both" /\ f.t # NONE => f.o \in task[f.t].allowed
    PROVE  /\ Gentle(c, f) /\ KeepsPi(c, f, Task)
           /\ f.r = at[c].r /\ f.o = at[c].o /\ f.r \in CPU /\ f.o \in CPU /\ f.r # f.o
  <1>1. /\ at[c] \in FrameType /\ FrameOK(at[c], c, rq[c].curr) /\ rq[c].idle # "halted"
    BY DeepFacts
  <1>2. Gentle(c, f)
    BY <1>1 DEF Gentle, InTask, MayBlock, Waker, FrameOK, SameFrame
  <1>3. KeepsPi(c, f, Task)
    BY <1>1 DEF KeepsPi, OwnedPi, HoldsPi, SameFrame
  <1> QED
    BY <1>1, <1>2, <1>3 DEF FrameOK, SameFrame

LEMMA BalTryDeep ==
    ASSUME Deep, NEW c \in CPU, BalTry(c)
    PROVE  DeepStep(c)
  <1> DEFINE r == at[c].r
             o == at[c].o
  <1>1. /\ at[c] \in FrameType /\ at[c].pc = "bal_try" /\ task' = task
        /\ FrameOK(at[c], c, rq[c].curr) /\ AimsOK(at[c])
    BY DeepFacts DEF BalTry
  <1>2. CASE rq' = [rq EXCEPT ![o].lock = c] /\ Goto(c, "both")
    <2>1. PICK f \in FrameType : f.pc = "both" /\ SameFrame(f, at[c]) /\ at' = [at EXCEPT ![c] = f]
      BY <1>1, <1>2, GotoFacts, PcNames
    <2>2. f.t # NONE => f.o \in task[f.t].allowed
      BY <1>1, <2>1 DEF AimsOK, SameFrame
    <2>3. /\ Gentle(c, f) /\ KeepsPi(c, f, Task)
          /\ f.r = r /\ f.o = o /\ f.r \in CPU /\ f.o \in CPU /\ f.r # f.o
      BY <1>1, <2>1, <2>2, BalGentle
    <2>4. KeepsRq(c, f, CPU \ {o}) /\ OwnedRq(f, c, o)
      BY <1>1, <2>1, <2>3 DEF KeepsRq, OwnedRq, RqLocks
    <2> QED
      BY <1>1, <1>2, <2>1, <2>3, <2>4, GentleRq
  <1>3. CASE rq' = [rq EXCEPT ![r].lock = NONE] /\ Goto(c, "bal_low")
    <2>1. PICK f \in FrameType : f.pc = "bal_low" /\ SameFrame(f, at[c]) /\ at' = [at EXCEPT ![c] = f]
      BY <1>1, <1>3, GotoFacts, PcNames
    <2>2. Gentle(c, f) /\ KeepsPi(c, f, Task) /\ f.r = r /\ f.r \in CPU
      BY <1>1, <2>1, BalGentle
    <2>3. KeepsRq(c, f, CPU \ {r})
      BY <1>1, <2>1, <2>2 DEF KeepsRq, OwnedRq, RqLocks
    <2>4. NONE # c
      BY Names
    <2> QED
      BY <1>1, <1>3, <2>1, <2>2, <2>3, <2>4, GentleRq
  <1> QED
    BY <1>2, <1>3 DEF BalTry

LEMMA BalLowDeep ==
    ASSUME Deep, NEW c \in CPU, BalLow(c)
    PROVE  DeepStep(c)
  <1> DEFINE d == LowerOf(c)
  <1>1. at[c].pc = "bal_low" /\ task' = task /\ rq' = [rq EXCEPT ![d].lock = c]
    BY DEF BalLow
  <1>2. PICK f \in FrameType :
            f.pc = "bal_high" /\ SameFrame(f, at[c]) /\ at' = [at EXCEPT ![c] = f]
    BY DeepFacts, PcNames, GotoFacts DEF BalLow
  <1>3. /\ Gentle(c, f) /\ KeepsPi(c, f, Task)
        /\ f.r = at[c].r /\ f.o = at[c].o /\ f.r \in CPU /\ f.o \in CPU
    BY <1>1, <1>2, BalGentle
  <1>4. d \in CPU /\ d = Lower(f)
    BY <1>3 DEF LowerOf, Lower
  <1> HIDE DEF d
  <1>5. KeepsRq(c, f, CPU \ {d}) /\ OwnedRq(f, c, d)
    BY <1>1, <1>2, <1>4 DEF KeepsRq, OwnedRq, RqLocks
  <1> QED
    BY <1>1, <1>2, <1>3, <1>4, <1>5, GentleRq

\* After the second lock, or a task that nobody moved: only r stays locked.
LEMMA PushAgain ==
    ASSUME Deep, NEW c \in CPU, at[c].pc \in {"bal_high", "both"}, at[c].t # NONE,
           at' = [at EXCEPT ![c].pc = "push", ![c].t = NONE, ![c].o = NONE]
    PROVE  \E f \in FrameType :
             /\ at' = [at EXCEPT ![c] = f] /\ f.pc = "push" /\ f.r = at[c].r /\ f.r \in CPU
             /\ Gentle(c, f) /\ KeepsPi(c, f, Task) /\ OwnedRq(f, c, f.r)
             /\ f.w = at[c].w /\ f.k = at[c].k /\ f.k \notin {"none"}
  <1>1. IInv /\ FrameOK(at[c], c, rq[c].curr) /\ rq[c].idle # "halted"
    BY DeepFacts
  <1>2. PICK f \in FrameType :
             /\ at' = [at EXCEPT ![c] = f] /\ f.pc = "push" /\ f.r = at[c].r /\ f.r \in CPU
             /\ f.w = at[c].w /\ f.k = at[c].k /\ f.wl = at[c].wl /\ f.ret = at[c].ret
             /\ f.dst = at[c].dst /\ RqLocks(f, c) = {at[c].r}
    BY <1>1, PushFrame
  <1>3. Gentle(c, f)
    BY <1>1, <1>2 DEF Gentle, InTask, MayBlock, Waker, FrameOK
  <1>4. KeepsPi(c, f, Task) /\ OwnedRq(f, c, f.r)
    BY <1>1, <1>2 DEF KeepsPi, OwnedPi, OwnedRq, HoldsPi
  <1>5. f.k \notin {"none"}
    BY <1>1, <1>2 DEF FrameOK
  <1> QED
    BY <1>2, <1>3, <1>4, <1>5

LEMMA BalHighDeep ==
    ASSUME Deep, NEW c \in CPU, BalHigh(c)
    PROVE  DeepStep(c)
  <1> DEFINE r == at[c].r
             o == at[c].o
             t == at[c].t
             h == HigherOf(c)
             both == [rq EXCEPT ![h].lock = c]
  <1>1. /\ Typed /\ at[c] \in FrameType /\ FrameOK(at[c], c, rq[c].curr)
        /\ at[c].pc = "bal_high" /\ task' = task /\ r \in CPU /\ o \in CPU /\ r # o
    BY DeepFacts DEF BalHigh, FrameOK
  <1>2. Lower(at[c]) \in CPU /\ rq[Lower(at[c])].lock = c
    BY <1>1, DeepFacts DEF RqLocks, Lower
  <1>3. \/ h = r /\ Lower(at[c]) = o
        \/ h = o /\ Lower(at[c]) = r
    BY DEF HigherOf, Lower
  <1>4. CASE /\ ~ (t # NONE /\ ~ still_pushable(t, r, o)) /\ rq' = both /\ Goto(c, "both")
    <2>1. PICK f \in FrameType : f.pc = "both" /\ SameFrame(f, at[c]) /\ at' = [at EXCEPT ![c] = f]
      BY <1>1, <1>4, GotoFacts, PcNames
    <2>2. f.t # NONE => f.o \in task[f.t].allowed
      BY <1>4, <2>1 DEF still_pushable, SameFrame
    <2>3. /\ Gentle(c, f) /\ KeepsPi(c, f, Task)
          /\ f.r = r /\ f.o = o /\ f.r \in CPU /\ f.o \in CPU
      BY <1>1, <2>1, <2>2, BalGentle
    <2>4. h \in CPU /\ KeepsRq(c, f, CPU \ {h}) /\ OwnedRq(f, c, h)
      BY <1>1, <1>2, <1>3, <2>1, <2>3 DEF KeepsRq, OwnedRq, RqLocks
    <2> HIDE DEF h
    <2> QED
      BY <1>1, <1>4, <2>1, <2>3, <2>4, GentleRq
  <1>5. CASE /\ t # NONE /\ rq' = [both EXCEPT ![o].lock = NONE]
             /\ at' = [at EXCEPT ![c].pc = "push", ![c].t = NONE, ![c].o = NONE]
    <2>1. PICK f \in FrameType :
             /\ at' = [at EXCEPT ![c] = f] /\ f.pc = "push" /\ f.r = r /\ f.r \in CPU
             /\ Gentle(c, f) /\ KeepsPi(c, f, Task) /\ OwnedRq(f, c, f.r)
      BY <1>1, <1>5, PushAgain
    <2>2. h \in CPU /\ rq \in [CPU -> RqType] /\ c \in CPU \cup {NONE} /\ NONE \in CPU \cup {NONE}
      BY <1>1, <1>3 DEF Typed
    <2>3. PICK b : Locked(b, rq, h, c) /\ Locked(rq', b, o, NONE)
      BY <1>5 DEF Locked
    <2> HIDE DEF h
    <2>4. /\ b \in [CPU -> RqType] /\ SameQueues(b, rq) /\ SameStops(b, rq)
          /\ SameFlags(b, rq) /\ b[h].lock = c /\ \A d \in CPU \ {h} : b[d] = rq[d]
      BY <2>2, <2>3, LockOnly
    <2>5. /\ SameQueues(rq', b) /\ SameStops(rq', b)
          /\ SameFlags(rq', b) /\ rq'[o].lock = NONE /\ \A d \in CPU \ {o} : rq'[d] = b[d]
      <3>1. PICK x \in CPU, v \in CPU \cup {NONE} : x = o /\ v = NONE
        BY <1>1
      <3>2. b \in [CPU -> RqType] /\ Locked(rq', b, x, v)
        BY <2>3, <2>4, <3>1
      <3>3. SameQueues(rq', b) /\ SameStops(rq', b) /\ SameFlags(rq', b)
        BY <3>2, LockOnly
      <3>4. rq'[x].lock = v /\ \A d \in CPU \ {x} : rq'[d] = b[d]
        BY <3>2, LockOnly
      <3> QED
        BY <3>1, <3>3, <3>4
    <2>6. OnlyLocks
      BY <1>1, <2>4, <2>5
         DEF OnlyLocks, SameTasks, SameNotes, SameQueues, SameStops, SameFlags
    <2>7. OwnPlain(c, f)
      <3>1. \A d \in CPU : rq'[d].lock = NONE \/ d = r \/ (d # r /\ d # o /\ rq'[d].lock = rq[d].lock)
        BY <1>1, <1>3, <2>4, <2>5
      <3>2. rq'[r].lock = c
        BY <1>1, <1>2, <1>3, <2>4, <2>5
      <3>3. \A d \in CPU \ {r, o} : ~ OwnedRq(at[c], c, d)
        BY <1>1, <1>2, <1>3 DEF OwnedRq, RqLocks
      <3> QED
        BY <1>1, <2>1, <3>1, <3>2, <3>3 DEF OwnPlain, KeepsPi
    <2> QED
      BY <1>1, <2>1, <2>6, <2>7, GentleDeep
  <1> QED
    BY <1>4, <1>5 DEF BalHigh

\* The balancing is over and the lock of o released.
Unbalances(c) ==
    \/ /\ at[c].t # NONE
       /\ at' = [at EXCEPT ![c].pc = "push", ![c].t = NONE, ![c].o = NONE]
    \/ /\ at[c].t = NONE
       /\ at' = [at EXCEPT ![c].pc = "pick", ![c].r = NONE, ![c].o = NONE]

LEMMA UnbalancedFrame ==
    ASSUME Deep, NEW c \in CPU, at[c].pc = "both", Unbalances(c)
    PROVE  \E f \in FrameType :
             /\ at' = [at EXCEPT ![c] = f] /\ f.pc \in {"push", "pick"}
             /\ Gentle(c, f) /\ KeepsPi(c, f, Task) /\ OwnedRq(f, c, at[c].r)
             /\ KeepsRq(c, f, CPU \ {at[c].o})
             /\ at[c].t = NONE => at[c].r = c /\ f.pc = "pick"
  <1> DEFINE r == at[c].r
             o == at[c].o
  <1>1. /\ IInv /\ at[c] \in FrameType /\ FrameOK(at[c], c, rq[c].curr) /\ rq[c].idle # "halted"
        /\ r \in CPU /\ o \in CPU /\ r # o
    BY DeepFacts DEF FrameOK
  <1>2. PICK f \in FrameType :
             /\ at' = [at EXCEPT ![c] = f] /\ f.pc \in {"push", "pick"}
             /\ Gentle(c, f) /\ KeepsPi(c, f, Task) /\ OwnedRq(f, c, r)
             /\ at[c].t = NONE => r = c /\ f.pc = "pick"
    <2>1. CASE at[c].t # NONE
      <3>1. at' = [at EXCEPT ![c].pc = "push", ![c].t = NONE, ![c].o = NONE]
        BY <2>1 DEF Unbalances
      <3>2. PICK f \in FrameType :
               /\ at' = [at EXCEPT ![c] = f] /\ f.pc = "push" /\ f.r = at[c].r /\ f.r \in CPU
               /\ Gentle(c, f) /\ KeepsPi(c, f, Task) /\ OwnedRq(f, c, f.r)
        BY <2>1, <3>1, PushAgain
      <3> QED
        BY <2>1, <3>2
    <2>2. CASE at[c].t = NONE
      <3>1. at' = [at EXCEPT ![c].pc = "pick", ![c].r = NONE, ![c].o = NONE]
        BY <2>2 DEF Unbalances
      <3>2. PICK f \in FrameType :
               /\ at' = [at EXCEPT ![c] = f] /\ f.pc = "pick" /\ f.k = "none" /\ r = c
               /\ RqLocks(f, c) = {c}
        BY <1>1, <2>2, <3>1, PullFrame, ZenonT(60)
      <3>3. at[c].k = "none"
        BY <1>1, <2>2 DEF FrameOK
      <3>4. Gentle(c, f)
        BY <1>1, <3>2, <3>3 DEF Gentle, InTask, MayBlock, Waker
      <3>5. KeepsPi(c, f, Task) /\ OwnedRq(f, c, r)
        BY <3>2, <3>3 DEF KeepsPi, OwnedPi, OwnedRq, HoldsPi
      <3> QED
        BY <3>2, <3>4, <3>5
    <2> QED
      BY <2>1, <2>2
  <1>3. KeepsRq(c, f, CPU \ {o})
    BY <1>1, <1>2 DEF KeepsRq, OwnedRq, RqLocks
  <1> QED
    BY <1>2, <1>3

LEMMA NothingMovedDeep ==
    ASSUME Deep, NEW c \in CPU, at[c].pc = "both", task' = task,
           rq' = [rq EXCEPT ![at[c].o].lock = NONE], Unbalances(c)
    PROVE  DeepStep(c)
  <1> DEFINE r == at[c].r
             o == at[c].o
  <1>1. o \in CPU
    BY DeepFacts DEF FrameOK
  <1>2. PICK f \in FrameType :
             /\ at' = [at EXCEPT ![c] = f] /\ f.pc \in {"push", "pick"}
             /\ Gentle(c, f) /\ KeepsPi(c, f, Task) /\ KeepsRq(c, f, CPU \ {o})
    BY UnbalancedFrame
  <1>4. NONE # c
    BY Names
  <1> QED
    BY <1>1, <1>2, <1>4, GentleRq

LEMMA PostScheduleDeep ==
    ASSUME Deep, NEW c \in CPU, PostSchedule(c)
    PROVE  DeepStep(c)
  <1> DEFINE f == [at[c] EXCEPT !.pc = "push", !.r = c, !.k = "post"]
  <1>1. /\ at[c] \in FrameType /\ FrameOK(at[c], c, rq[c].curr) /\ rq[c].idle # "halted"
        /\ at[c].pc = "post" /\ at' = [at EXCEPT ![c] = f] /\ task' = task
        /\ rq' = [rq EXCEPT ![c].lock = c]
    BY DeepFacts DEF PostSchedule
  <1>2. /\ f \in FrameType /\ f.pc = "push" /\ f.w = at[c].w /\ f.r = c /\ f.k = "post"
    BY <1>1, PcNames DEF FrameType
  <1> HIDE DEF f
  <1>3. Gentle(c, f)
    BY <1>1, <1>2 DEF Gentle, InTask, MayBlock, Waker, FrameOK
  <1>4. KeepsRq(c, f, CPU \ {c}) /\ OwnedRq(f, c, c) /\ KeepsPi(c, f, Task)
    BY <1>1, <1>2 DEF KeepsRq, KeepsPi, OwnedRq, OwnedPi, RqLocks, HoldsPi, FrameOK
  <1> QED
    BY <1>1, <1>2, <1>3, <1>4, GentleRq

LEMMA SetCpusAllowedDeep ==
    ASSUME Deep, NEW c \in CPU, NEW p \in Task, NEW mask \in Masks, SetCpusAllowed(c, p, mask)
    PROVE  DeepStep(c)
  <1> DEFINE f == [at[c] EXCEPT !.pc = "sca_pi", !.w = p, !.scan = mask]
  <1>1. /\ at[c] \in FrameType /\ FrameOK(at[c], c, rq[c].curr) /\ at[c].pc = "run"
        /\ rq[c].idle # "halted" /\ task' = task /\ rq' = rq
    <2>1. at[c].pc = "run" /\ rq[c].curr # IDLE /\ task' = task /\ rq' = rq
      BY Names DEF SetCpusAllowed
    <2> QED
      BY <2>1, DeepFacts
  <1>2. at' = [at EXCEPT ![c] = f]
    BY DEF SetCpusAllowed
  <1>3. mask \in SUBSET CPU
    BY SmpAssumption
  <1>4. /\ f \in FrameType /\ f.pc = "sca_pi" /\ f.w = p /\ f.t = at[c].t /\ f.k = at[c].k
        /\ f.wl = at[c].wl /\ f.ret = at[c].ret
    BY <1>1, <1>3, PcNames DEF FrameType
  <1> HIDE DEF f
  <1>5. Gentle(c, f)
    BY <1>1, <1>4 DEF Gentle, InTask, MayBlock, Waker, FrameOK
  <1>6. KeepsRq(c, f, CPU) /\ KeepsPi(c, f, Task)
    BY <1>1, <1>4 DEF KeepsRq, KeepsPi, OwnedRq, OwnedPi, RqLocks, HoldsPi, FrameOK
  <1> QED
    BY <1>1, <1>2, <1>4, <1>5, <1>6, GentleFrame

LEMMA AllowedPiLockDeep ==
    ASSUME Deep, NEW c \in CPU, AllowedPiLock(c)
    PROVE  DeepStep(c)
  <1> DEFINE p == at[c].w
             f == [at[c] EXCEPT !.pc = "sca_rq", !.r = task[p].cpu]
  <1>1. /\ Typed /\ at[c] \in FrameType /\ FrameOK(at[c], c, rq[c].curr) /\ at[c].pc = "sca_pi"
        /\ rq[c].idle # "halted" /\ rq' = rq /\ task' = [task EXCEPT ![p].pi_lock = c]
        /\ at' = [at EXCEPT ![c] = f]
    BY DeepFacts DEF AllowedPiLock
  <1>2. p \in Task /\ task[p].cpu \in CPU
    BY <1>1 DEF FrameOK, Typed, TaskType
  <1>3. /\ f \in FrameType /\ f.pc = "sca_rq" /\ f.w = p /\ f.t = at[c].t /\ f.k = at[c].k
        /\ f.wl = at[c].wl /\ f.ret = at[c].ret
    BY <1>1, <1>2, PcNames DEF FrameType
  <1> HIDE DEF f
  <1>4. Gentle(c, f)
    BY <1>1, <1>3 DEF Gentle, InTask, MayBlock, Waker, FrameOK
  <1>5. KeepsRq(c, f, CPU) /\ KeepsPi(c, f, Task \ {p}) /\ OwnedPi(f, p)
    BY <1>1, <1>3 DEF KeepsRq, KeepsPi, OwnedRq, OwnedPi, RqLocks, HoldsPi, FrameOK
  <1>6. f.pc \notin LocalPcs
    BY <1>3
  <1> QED
    BY <1>1, <1>2, <1>3, <1>4, <1>5, <1>6, GentlePi

LEMMA MigratePiLockDeep ==
    ASSUME Deep, NEW c \in CPU, MigratePiLock(c)
    PROVE  DeepStep(c)
  <1> DEFINE p == at[c].w
  <1>1. /\ at[c] \in FrameType /\ FrameOK(at[c], c, rq[c].curr) /\ at[c].pc = "mig_pi"
        /\ rq[c].idle # "halted" /\ rq' = rq /\ task' = [task EXCEPT ![p].pi_lock = c]
        /\ Goto(c, "mig_rq")
    BY DeepFacts DEF MigratePiLock
  <1>2. p \in Task
    BY <1>1 DEF FrameOK
  <1>3. PICK f \in FrameType :
             f.pc = "mig_rq" /\ SameFrame(f, at[c]) /\ at' = [at EXCEPT ![c] = f]
    BY <1>1, GotoFacts, PcNames
  <1>4. Gentle(c, f)
    BY <1>1, <1>3 DEF Gentle, InTask, MayBlock, Waker, FrameOK, SameFrame
  <1>5. KeepsRq(c, f, CPU) /\ KeepsPi(c, f, Task \ {p}) /\ OwnedPi(f, p)
    BY <1>1, <1>3 DEF KeepsRq, KeepsPi, OwnedRq, OwnedPi, RqLocks, HoldsPi, FrameOK, SameFrame
  <1>6. f.pc \notin LocalPcs
    BY <1>3
  <1> QED
    BY <1>1, <1>2, <1>3, <1>4, <1>5, <1>6, GentlePi

LEMMA AllowedAgainDeep ==
    ASSUME Deep, NEW c \in CPU, at[c].pc = "sca_rq", rq' = rq,
           task' = [task EXCEPT ![at[c].w].pi_lock = NONE], Goto(c, "sca_pi")
    PROVE  DeepStep(c)
  <1> DEFINE p == at[c].w
  <1>1. /\ at[c] \in FrameType /\ FrameOK(at[c], c, rq[c].curr) /\ rq[c].idle # "halted"
    BY DeepFacts
  <1>2. p \in Task
    BY <1>1 DEF FrameOK
  <1>3. PICK f \in FrameType :
             f.pc = "sca_pi" /\ SameFrame(f, at[c]) /\ at' = [at EXCEPT ![c] = f]
    BY <1>1, GotoFacts, PcNames
  <1>4. Gentle(c, f)
    BY <1>1, <1>3 DEF Gentle, InTask, MayBlock, Waker, FrameOK, SameFrame
  <1>5. KeepsRq(c, f, CPU) /\ KeepsPi(c, f, Task \ {p})
    BY <1>1, <1>3 DEF KeepsRq, KeepsPi, OwnedRq, OwnedPi, RqLocks, HoldsPi, FrameOK, SameFrame
  <1>6. f.pc \notin LocalPcs /\ NONE # c
    BY <1>3, Names
  <1> QED
    BY <1>1, <1>2, <1>3, <1>4, <1>5, <1>6, GentlePi

-----------------------------------------------------------------------------
(* Ends of wakeups *)

\* CPU c is about to end a wakeup on queue r; q and tk are the queues and tasks it has
\* made, wl is what is left of its list.
Approach(c, r, q, tk, k, wl) ==
    /\ r \in CPU /\ rq[r].lock \in {c, NONE} /\ (MayBlock(at[c]) => k = "local")
    /\ at[c].pc \in {"remote_lock", "ttwu_queue", "pending", "activate", "local_rq", "push"}
    /\ k = "local" => at[c].pc = "local_rq" \/ at[c].k = "local"
    /\ InPending(at[c]) => k = "pend"
    /\ \A d \in CPU : OwnedRq(at[c], c, d) => d = r
    /\ Tells(q, rq, c, r)
    /\ q[r].curr = rq[r].curr /\ q[r].wake_list = rq[r].wake_list /\ q[r].stop = rq[r].stop
    /\ q[r].queue = rq[r].queue \/ (rq[r].curr = IDLE => q[r].resched)
    /\ SameNotes(tk, task)
    /\ \A x \in Task :
        /\ tk[x].cpu = task[x].cpu /\ tk[x].allowed = task[x].allowed /\ tk[x].pi_lock = task[x].pi_lock
        /\ \/ tk[x].state = task[x].state /\ tk[x].on_rq = task[x].on_rq
           \/ /\ tk[x].state = RUNNING /\ tk[x].on_rq = "queued"
              /\ task[x].on_rq # "no" \/ task[x].state = WAKING \/ task[x].cpu \in task[x].allowed
        /\ x \in at[c].wl => x \in wl \/ tk[x].state # WAKING
        /\ Waker(at[c], x) => tk[x].state # SLEEP

LEMMA EndedDeep ==
    ASSUME Deep, NEW c \in CPU, NEW r, NEW q, NEW tk, NEW k, NEW wl, NEW f,
           Approach(c, r, q, tk, k, wl), Ending(c, r, q, tk, k), Ended(c, r, q, tk, k, wl, f)
    PROVE  DeepStep(c)
  <1>1. /\ Typed /\ at[c] \in FrameType /\ FrameOK(at[c], c, rq[c].curr) /\ rq[c].idle # "halted"
    <2>1. at[c].pc # "run"
      BY DEF Approach
    <2> QED
      BY <2>1, DeepFacts
  <1>2. /\ f \in FrameType /\ at' = [at EXCEPT ![c] = f] /\ SameTasks(task', tk) /\ SameNotes(task', tk)
        /\ SameQueues(rq', q) /\ SameStops(rq', q) /\ SameFlags(rq', q) /\ f.wl = wl
        /\ f.pc \in {"run", "lock", "mig_pi", "pick", "activate", "push"}
        /\ MayBlock(f) <=> k = "local"
        /\ k = "ttwu" \/ (k = "pend" /\ InTask(at[c])) => InTask(f)
        /\ k = "pend" /\ Stopping(at[c]) => Stopping(f) /\ f.w = at[c].w /\ f.dst = at[c].dst
    BY DEF Ended, EndNotes
  <1>3. /\ r \in CPU /\ k \in {"ttwu", "local", "pend"} /\ (k = "pend" => r = c /\ InPending(at[c]))
        /\ q[r].lock = c /\ at[c].t = NONE
    BY DEF Ending
  <1>4. InTask(at[c]) => InTask(f)
    <2>1. k = "local" => ~ InTask(at[c])
      BY DEF Approach, InTask
    <2> QED
      BY <1>2, <1>3, <2>1
  <1>5. Into(c, f)
    <2>1. \A d \in CPU : q[d].curr = rq[d].curr
      BY DEF Approach, Tells
    <2> QED
      BY <1>2, <2>1 DEF Into, SameQueues
  <1>6. SleepPlain(c, f)
    <2>1. at[c].pc # "lock" /\ rq'[c].curr = rq[c].curr
      BY <1>2, <1>3 DEF Approach, Tells, SameQueues
    <2>2. ASSUME NEW x \in Task
          PROVE  /\ task'[x].cond = task[x].cond /\ task'[x].step = task[x].step
                 /\ task'[x].preempt_active = task[x].preempt_active /\ task'[x].cpu = task[x].cpu
      BY <1>2 DEF Approach, SameTasks, SameNotes
    <2>3. ASSUME NEW x \in Task
          PROVE  /\ task'[x].state = SLEEP => task[x].state = SLEEP /\ (task'[x].on_rq # "no" => task[x].on_rq # "no")
                 /\ task'[x].on_rq = "no" => task[x].on_rq = "no"
                 /\ Waker(at[c], x) => task'[x].state # SLEEP
      BY <1>2 DEF Approach, SameTasks, RUNNING, SLEEP
    <2> QED
      BY <1>4, <2>1, <2>2, <2>3 DEF SleepPlain
  <1>7. IdlePlain(c, f)
    <2>1. /\ at[c].pc # "idle_pending" /\ f.pc \notin {"switch", "unlock"} /\ (MayBlock(at[c]) => MayBlock(f))
      BY <1>2 DEF Approach
    <2>2. ASSUME NEW d \in CPU
          PROVE  /\ rq'[d].curr = rq[d].curr /\ rq'[d].wake_list = rq[d].wake_list
                 /\ rq'[d].idle = rq[d].idle
                 /\ rq[d].ipi => rq'[d].ipi
                 /\ rq[d].resched => rq'[d].resched
                 /\ rq[d].idle = "halted" /\ rq'[d].resched => rq[d].resched \/ rq'[d].ipi
      <3>1. CASE d = r
        BY <1>1, <1>2, <3>1 DEF Approach, Tells, SameQueues, SameFlags
      <3>2. CASE d # r
        BY <1>2, <3>2 DEF Approach, Tells, SameQueues, SameFlags
      <3> QED
        BY <3>1, <3>2
    <2>3. ASSUME NEW d \in CPU
          PROVE  \/ rq'[d].queue \subseteq rq[d].queue
                 \/ rq[d].lock \in {c, NONE} /\ (rq[d].curr = IDLE => rq'[d].resched)
      <3>1. CASE d = r
        BY <1>2, <3>1 DEF Approach, SameQueues, SameFlags
      <3>2. CASE d # r
        BY <1>2, <3>2 DEF Approach, Tells, SameQueues, SameFlags
      <3> QED
        BY <3>1, <3>2
    <2>4. \A d \in CPU : ~ Kicks(at[c], d)
      BY DEF Approach, Kicks
    <2> QED
      BY <1>1, <1>4, <2>1, <2>2, <2>3, <2>4 DEF IdlePlain
  <1>8. PlacePlain(c, f)
    <2>1. ASSUME NEW x \in Task PROVE Settles(c, x)
      <3>1. /\ task'[x].cpu = task[x].cpu /\ task'[x].allowed = task[x].allowed
            /\ \/ task'[x].state = task[x].state /\ task'[x].on_rq = task[x].on_rq
               \/ /\ task'[x].state = RUNNING /\ task'[x].on_rq = "queued"
                  /\ task[x].on_rq # "no" \/ task[x].state = WAKING \/ task[x].cpu \in task[x].allowed
        BY <1>2 DEF Approach, SameTasks
      <3> QED
        BY <3>1 DEF Settles, RUNNING, WAKING
    <2>2. \A d \in CPU : rq'[d].stop = rq[d].stop
      BY <1>2 DEF Approach, Tells, SameStops
    <2>3. at[c].pc # "sca_stop" /\ (Stopping(at[c]) => k = "pend")
      BY DEF Approach
    <2>4. \A x \in at[c].wl : x \in f.wl \/ task'[x].state # WAKING
      BY <1>1, <1>2 DEF Approach, SameTasks, FrameType
    <2> QED
      BY <1>2, <2>1, <2>2, <2>3, <2>4 DEF PlacePlain
  <1>9. OwnPlain(c, f)
    <2>1. ASSUME NEW d \in CPU
          PROVE  \/ rq'[d].lock = NONE
                 \/ rq'[d].lock = c /\ OwnedRq(f, c, d)
                 \/ rq'[d].lock = rq[d].lock /\ (OwnedRq(at[c], c, d) => OwnedRq(f, c, d))
      <3>1. CASE d = r
        BY <1>3, <3>1 DEF Ended, EndNotes
      <3>2. CASE d # r
        BY <3>2 DEF Ended, Approach, Tells
      <3> QED
        BY <3>1, <3>2
    <2>2. ASSUME NEW x \in Task
          PROVE  \/ task'[x].pi_lock = NONE
                 \/ task'[x].pi_lock = task[x].pi_lock /\ (OwnedPi(at[c], x) => OwnedPi(f, x))
      BY DEF Ended, EndNotes, Approach
    <2> QED
      BY <1>2, <2>1, <2>2 DEF OwnPlain
  <1> QED
    BY <1>5, <1>6, <1>7, <1>8, <1>9, PlainDeep

LEMMA EndsQuietlyDeep ==
    ASSUME Deep, NEW c \in CPU, NEW r, NEW k, NEW f, EndsQuietly(c, r, k, f),
           MayBlock(at[c]) => k = "local", InPending(at[c]) => k = "pend",
           \/ at[c].pc = "local_rq" /\ k = "local"
           \/ at[c].pc = "push" /\ r = at[c].r /\ k = at[c].k
    PROVE  DeepStep(c)
  <1>1. PICK q : /\ Relocked(q, c) /\ Tells(q, rq, c, r) /\ rq[r].lock \in {c, NONE}
                 /\ Ending(c, r, q, task, k) /\ Ended(c, r, q, task, k, at[c].wl, f)
    BY DEF EndsQuietly
  <1>2. r \in CPU /\ (k = "local" => r = c)
    BY <1>1 DEF Ending
  <1>3. q[r].curr = rq[r].curr /\ q[r].wake_list = rq[r].wake_list /\ q[r].stop = rq[r].stop
        /\ q[r].queue = rq[r].queue
    BY <1>1, <1>2 DEF Relocked, SameQueues, SameStops
  <1>4. \A x \in Task : ~ Waker(at[c], x)
    BY DEF Waker
  <1>5. \A d \in CPU : OwnedRq(at[c], c, d) => d = r
    BY <1>2 DEF OwnedRq, RqLocks
  <1>6. Approach(c, r, q, task, k, at[c].wl)
    BY <1>1, <1>2, <1>3, <1>4, <1>5 DEF Approach, SameNotes
  <1> QED
    BY <1>1, <1>6, EndedDeep

LEMMA WakesDeep ==
    ASSUME Deep, NEW c \in CPU, NEW r, NEW p, NEW k, NEW q, NEW tk, Wakes(c, r, p, k, q, tk),
           at[c].pc \in {"remote_lock", "ttwu_queue", "pending", "activate", "local_rq"},
           k = "local" <=> at[c].pc = "local_rq", InPending(at[c]) => k = "pend",
           k # "pend" => p = at[c].w,
           task[p].on_rq # "no" \/ task[p].state = WAKING \/ task[p].cpu \in task[p].allowed
    PROVE  DeepStep(c)
  <1> DEFINE tk2 == [tk EXCEPT ![p].state = RUNNING]
             y == [tk[p] EXCEPT !.state = RUNNING]
  <1>1. /\ Typed /\ at[c] \in FrameType /\ FrameOK(at[c], c, rq[c].curr)
    BY DeepFacts
  <1>2. /\ r \in CPU /\ p \in Task /\ Enqueued(q, tk, c, r, p) /\ Ending(c, r, q, tk, k)
        /\ task[p].cpu = r /\ rq[r].lock \in {c, NONE}
        /\ MayBlock(at[c]) => k = "local"
        /\ ttwu_do_wakeup(q, tk, r, p, c, k)
    BY DEF Wakes
  <1>3. q \in [CPU -> RqType] /\ tk \in [Task -> TaskType] /\ (k # "pend" => at[c].wl = {})
    BY <1>2 DEF Ending
  <1>4. PICK f, q2 : /\ q2 \in check_preempt_curr(q, r, p, c)
                     /\ Ended(c, r, q2, tk2, k, at[c].wl \ {p}, f)
    BY <1>1, <1>2, <1>3, DoWakeupFacts
  <1>5. /\ q2 \in [CPU -> RqType] /\ SameQueues(q2, q) /\ SameStops(q2, q) /\ SameLocks(q2, q)
        /\ Tells(q2, q, c, r) /\ (q[r].curr = IDLE => q2[r].resched)
    BY <1>2, <1>3, <1>4, PreemptFacts DEF Tells
  <1>6. /\ tk2 \in [Task -> TaskType] /\ tk2[p].state = RUNNING /\ tk2[p].on_rq = "queued"
        /\ tk2[p].cpu = task[p].cpu /\ tk2[p].allowed = task[p].allowed
        /\ tk2[p].pi_lock = task[p].pi_lock /\ SameNotes(tk2, task)
        /\ \A x \in Task \ {p} : tk2[x] = task[x]
    <2>1. /\ y \in TaskType /\ y.state = RUNNING /\ y.on_rq = "queued" /\ y.cpu = task[p].cpu
          /\ y.allowed = task[p].allowed /\ y.pi_lock = task[p].pi_lock
          /\ y.cond = tk[p].cond /\ y.step = tk[p].step /\ y.preempt_active = tk[p].preempt_active
      BY <1>2, <1>3 DEF TaskType, Enqueued, RUNNING
    <2>2. tk2 = [tk EXCEPT ![p] = y]
      OBVIOUS
    <2> HIDE DEF y
    <2>3. SameNotes(tk, task) /\ \A x \in Task \ {p} : tk[x] = task[x]
      BY <1>2 DEF Enqueued
    <2>4. /\ tk2 \in [Task -> TaskType] /\ tk2[p] = y /\ \A x \in Task \ {p} : tk2[x] = task[x]
      BY <1>2, <1>3, <2>1, <2>2, <2>3
    <2> QED
      BY <2>1, <2>3, <2>4 DEF SameNotes
  <1> HIDE DEF tk2
  <1>7. Tells(q2, rq, c, r) /\ q2[r].lock = c
    BY <1>2, <1>5 DEF Enqueued, Tells, SameFlags, SameLocks, Ending
  <1>8. /\ q2[r].curr = rq[r].curr /\ q2[r].wake_list = rq[r].wake_list /\ q2[r].stop = rq[r].stop
        /\ (rq[r].curr = IDLE => q2[r].resched)
    BY <1>2, <1>5 DEF Enqueued, SameQueues, SameStops
  <1>9. \A d \in CPU : OwnedRq(at[c], c, d) => d = r
    BY <1>2 DEF OwnedRq, RqLocks, Ending
  <1>10. Ending(c, r, q2, tk2, k)
    <2>1. \A x \in Task : tk2[x].pi_lock = tk[x].pi_lock
      BY <1>2, <1>6 DEF Enqueued
    <2> QED
      BY <1>2, <1>5, <1>6, <1>7, <2>1 DEF Ending
  <1>11. Approach(c, r, q2, tk2, k, at[c].wl \ {p})
    <2>1. ASSUME NEW x \in Task
          PROVE  /\ tk2[x].cpu = task[x].cpu /\ tk2[x].allowed = task[x].allowed
                 /\ tk2[x].pi_lock = task[x].pi_lock
                 /\ \/ tk2[x].state = task[x].state /\ tk2[x].on_rq = task[x].on_rq
                    \/ /\ tk2[x].state = RUNNING /\ tk2[x].on_rq = "queued"
                       /\ task[x].on_rq # "no" \/ task[x].state = WAKING \/ task[x].cpu \in task[x].allowed
                 /\ x \in at[c].wl => x \in at[c].wl \ {p} \/ tk2[x].state # WAKING
      BY <1>6 DEF RUNNING, WAKING
    <2>2. ASSUME NEW x \in Task, Waker(at[c], x) PROVE tk2[x].state # SLEEP
      <3>1. x = p
        BY <1>1, <1>2, <2>2 DEF Waker, Ending, FrameOK
      <3> QED
        BY <1>6, <3>1 DEF RUNNING, SLEEP
    <2> QED
      BY <1>2, <1>6, <1>7, <1>8, <1>9, <2>1, <2>2 DEF Approach
  <1> QED
    BY <1>4, <1>10, <1>11, EndedDeep

LEMMA TtwuQueueDeep ==
    ASSUME Deep, NEW c \in CPU, TtwuQueue(c)
    PROVE  DeepStep(c)
  <1>1. /\ IInv /\ at[c].pc = "ttwu_queue" /\ FrameOK(at[c], c, rq[c].curr) /\ Relies(at[c], c)
    BY DeepFacts DEF TtwuQueue
  <1>2. PICK q, tk : Wakes(c, at[c].r, at[c].w, "ttwu", q, tk)
    BY <1>1, TtwuQueueWakes
  <1>3. ~ InPending(at[c]) /\ task[at[c].w].state = WAKING
    BY <1>1 DEF FrameOK, Relies
  <1> QED
    BY <1>1, <1>2, <1>3, WakesDeep

LEMMA TtwuRemoteDeep ==
    ASSUME Deep, NEW c \in CPU, TtwuRemote(c)
    PROVE  DeepStep(c)
  <1>1. /\ IInv /\ FrameOK(at[c], c, rq[c].curr)
    BY DeepFacts
  <1>2. CASE /\ at[c].pc = "remote_lock" /\ task' = task /\ rq' = rq
             /\ Goto(c, "remote_spin") \/ Goto(c, "ttwu_on_cpu")
    BY <1>2, TtwuMissesDeep
  <1>3. CASE /\ at[c].pc = "remote_lock" /\ task[at[c].w].on_rq = "queued"
             /\ \E q, tk : Wakes(c, at[c].r, at[c].w, "ttwu", q, tk)
    <2>1. PICK q, tk : Wakes(c, at[c].r, at[c].w, "ttwu", q, tk)
      BY <1>3
    <2>2. ~ InPending(at[c])
      BY <1>1, <1>3 DEF FrameOK
    <2> QED
      BY <1>3, <2>1, <2>2, WakesDeep
  <1> QED
    BY <1>1, <1>2, <1>3, TtwuRemoteWakes

LEMMA PendingActivateDeep ==
    ASSUME Deep, NEW c \in CPU, PendingActivate(c)
    PROVE  DeepStep(c)
  <1>1. IInv /\ FrameOK(at[c], c, rq[c].curr)
    BY DeepFacts
  <1>2. PICK p \in Task : /\ at[c].pc \in {"pending", "activate"} /\ task[p].state = WAKING
                          /\ \E q, tk : Wakes(c, c, p, "pend", q, tk)
    BY <1>1, PendingActivateWakes
  <1> QED
    BY <1>1, <1>2, WakesDeep

LEMMA LocalWakeDeep ==
    ASSUME Deep, NEW c \in CPU, LocalWake(c)
    PROVE  DeepStep(c)
  <1>1. IInv /\ Core /\ FrameOK(at[c], c, rq[c].curr)
    BY DeepFacts
  <1>2. /\ at[c].pc = "local_rq" /\ rq[c].lock \in {c, NONE}
        /\ \/ WokenEnd([rq EXCEPT ![c].lock = c], task, c, c, "local")
           \/ at[c].w \in Worker /\ \E q, tk : Wakes(c, c, at[c].w, "local", q, tk)
    BY <1>1, LocalWakeWakes
  <1>3. ~ InPending(at[c])
    BY <1>1, <1>2 DEF FrameOK
  <1>4. CASE WokenEnd([rq EXCEPT ![c].lock = c], task, c, c, "local")
    <2>1. PICK f : EndsQuietly(c, c, "local", f)
      BY <1>1, <1>2, <1>4, LocalWakeNot
    <2>2. PICK k : k = "local"
      OBVIOUS
    <2>3. EndsQuietly(c, c, k, f) /\ (MayBlock(at[c]) => k = "local")
      BY <2>1, <2>2
    <2> QED
      BY <1>2, <1>3, <2>2, <2>3, EndsQuietlyDeep
  <1>5. CASE at[c].w \in Worker /\ \E q, tk : Wakes(c, c, at[c].w, "local", q, tk)
    <2>1. task[at[c].w].cpu \in task[at[c].w].allowed
      BY <1>1, <1>5 DEF Core, IInv, Places, WorkersStay
    <2> QED
      BY <1>2, <1>3, <1>5, <2>1, WakesDeep
  <1> QED
    BY <1>2, <1>4, <1>5

LEMMA PushEndDeep ==
    ASSUME Deep, NEW c \in CPU, PushEnd(c), at[c].k # "post"
    PROVE  DeepStep(c)
  <1>1. IInv /\ FrameOK(at[c], c, rq[c].curr) /\ at[c].pc = "push"
    BY DeepFacts DEF PushEnd
  <1>2. PICK f : EndsQuietly(c, at[c].r, at[c].k, f) /\ (MayBlock(at[c]) => at[c].k = "local")
    <2>1. ~ \E q : EndsPost(c, q)
      BY DEF EndsPost
    <2> QED
      BY <1>1, <2>1, PushEndFacts
  <1>3. InPending(at[c]) => at[c].k = "pend"
    BY <1>1
  <1> QED
    BY <1>1, <1>2, <1>3, EndsQuietlyDeep

-----------------------------------------------------------------------------
(* The end of __schedule() *)

\* CPU c has unlocked its queue in q, and was not told to.
Leaves(c, q) ==
    /\ \/ at[c].pc \in {"pick", "unlock"}
       \/ at[c].pc = "push" /\ at[c].k = "post"
    /\ Relocked(q, c) /\ \A d \in CPU \ {c} : q[d] = rq[d]
    /\ q[c].lock = NONE /\ q[c].idle = rq[c].idle /\ q[c].ipi = rq[c].ipi
    /\ rq[c].curr = IDLE /\ rq[c].queue # {} => q[c].resched

LEMMA LeavesDeep ==
    ASSUME Deep, NEW c \in CPU, NEW q, Leaves(c, q), rq' = q, NEW x \in {"run", "lock", "post"},
           at' = [at EXCEPT ![c] = [Run EXCEPT !.pc = x]],
           SameTasks(task', task), SamePi(task', task),
           \A p \in Task : /\ task'[p].cond = task[p].cond /\ task'[p].step = task[p].step
                           /\ task[p].preempt_active =>
                                 task'[p].preempt_active \/ (x = "run" /\ p = rq[c].curr)
    PROVE  DeepStep(c)
  <1> DEFINE f == [Run EXCEPT !.pc = x]
  <1>1. /\ f \in FrameType /\ f.pc = x /\ f.wl = {} /\ f.k = "none" /\ f.ret = "run"
        /\ RqLocks(f, c) = {} /\ ~ HoldsPi(f)
    BY BareFrame DEF Run
  <1>2. at' = [at EXCEPT ![c] = f]
    OBVIOUS
  <1> HIDE DEF f
  <1>3. /\ Typed /\ FrameOK(at[c], c, rq[c].curr) /\ DozeOK(c) /\ ToldOK(c) /\ Deep
        /\ rq[c] \in RqType
    BY DeepFacts
  <1>4. /\ SameQueues(rq', rq) /\ SameStops(rq', rq) /\ \A d \in CPU \ {c} : rq'[d] = rq[d]
        /\ rq'[c].lock = NONE /\ rq'[c].idle = rq[c].idle /\ rq'[c].ipi = rq[c].ipi
    BY DEF Leaves, Relocked
  <1>5. ~ InTask(at[c]) /\ ~ HoldsPi(at[c]) /\ ~ Stopping(at[c])
    BY <1>3 DEF Leaves, InTask, HoldsPi, FrameOK
  <1>6. \A d \in CPU : OwnedRq(at[c], c, d) => d = c
    BY <1>3 DEF Leaves, OwnedRq, RqLocks, FrameOK
  <1>7. Into(c, f)
    BY <1>1, <1>2, <1>4 DEF Into
  <1>8. at'[c] = f /\ Elsewhere(c)
    BY <1>3, <1>7, IntoFrame DEF Deep
  <1>9. SleepStep(c)
    <2>1. x = "run" => InTask(f)
      BY <1>1 DEF InTask
    <2>2. \A p \in Task : ~ Waker(at[c], p)
      BY DEF Leaves, Waker
    <2>3. at[c].pc # "lock" /\ rq'[c].curr = rq[c].curr
      BY <1>4 DEF Leaves, SameQueues
    <2>4. SleepPlain(c, f)
      BY <1>5, <1>8, <2>1, <2>2, <2>3 DEF SleepPlain, RunsOn, SameTasks
    <2> QED
      BY <1>3, <1>7, <2>4, PlainSleep DEF Deep
  <1>10. IdleStep(c)
    <2>1. rq[c].idle = "off" /\ rq'[c].idle = "off"
      BY <1>3, <1>4, <1>5 DEF DozeOK
    <2>2. DozeOK(c)'
      BY <2>1 DEF DozeOK
    <2>3. ToldOK(c)'
      BY <1>1, <1>4, <1>8 DEF ToldOK, Leaves, SameQueues
    <2>4. \A d \in CPU \ {c} : ToldElsewhere(c, d)
      <3>1. \A d \in CPU \ {c} : rq[d] \in RqType
        BY <1>3 DEF Typed
      <3> QED
        BY <1>4, <3>1 DEF ToldElsewhere
    <2>5. \A d \in CPU : rq'[d].wake_list = rq[d].wake_list /\ ~ Kicks(at[c], d)
      BY <1>4 DEF SameQueues, Leaves, Kicks
    <2>6. at[c].pc # "idle_pending" /\ (rq[c].ipi => rq'[c].ipi) /\ rq[c].idle # "polling"
      BY <1>4, <2>1 DEF Leaves
    <2> QED
      BY <1>8, <2>2, <2>3, <2>4, <2>5, <2>6 DEF IdleStep
  <1>11. PlaceStep(c)
    <2>1. \A p \in Task : Settles(c, p)
      BY DEF SameTasks, Settles
    <2>2. \A d \in CPU : rq[d].stop \subseteq rq'[d].stop
      BY <1>4 DEF SameStops
    <2>3. at[c].pc # "sca_stop"
      BY DEF Leaves
    <2>4. PlacePlain(c, f)
      BY <1>1, <1>5, <2>1, <2>2, <2>3 DEF PlacePlain
    <2> QED
      BY <1>3, <1>7, <2>4, PlainPlace DEF Deep
  <1>12. OwnStep(c)
    <2>1. OwnPlain(c, f)
      BY <1>1, <1>4, <1>5, <1>6 DEF OwnPlain, OwnedPi, SamePi
    <2> QED
      BY <1>3, <1>7, <2>1, PlainOwn DEF Deep
  <1> QED
    BY <1>9, <1>10, <1>11, <1>12 DEF DeepStep

LEMMA ScheduleEndDeep ==
    ASSUME Deep, NEW c \in CPU, NEW q, Leaves(c, q), ScheduleEnd(q, c)
    PROVE  DeepStep(c)
  <1> DEFINE g == [p \in Task |-> IF p = q[c].curr /\ ~ q[c].resched
                                  THEN [task[p] EXCEPT !.preempt_active = FALSE]
                                  ELSE task[p]]
  <1>1. rq' = q /\ task' = g
    BY DEF ScheduleEnd
  <1>2. PICK x \in {"run", "lock"} :
            at' = [at EXCEPT ![c] = [Run EXCEPT !.pc = x]] /\ (~ q[c].resched => x = "run")
    BY DEF ScheduleEnd, Run
  <1>2a. q[c].curr = rq[c].curr
    BY DEF Leaves, Relocked, SameQueues
  <1>3. ASSUME NEW p \in Task
        PROVE  /\ g[p].state = task[p].state /\ g[p].on_rq = task[p].on_rq
               /\ g[p].cpu = task[p].cpu /\ g[p].on_cpu = task[p].on_cpu
               /\ g[p].allowed = task[p].allowed /\ g[p].pi_lock = task[p].pi_lock
               /\ g[p].cond = task[p].cond /\ g[p].step = task[p].step
    <2>1. task[p] \in TaskType
      BY DeepFacts DEF Typed
    <2>2. g[p] = task[p] \/ g[p] = [task[p] EXCEPT !.preempt_active = FALSE]
      OBVIOUS
    <2> QED
      BY <2>1, <2>2 DEF TaskType
  <1>4. ASSUME NEW p \in Task, task[p].preempt_active
        PROVE  g[p].preempt_active \/ (x = "run" /\ p = rq[c].curr)
    BY <1>2, <1>2a, <1>4
  <1>5. SameTasks(g, task) /\ SamePi(g, task)
    BY <1>3 DEF SameTasks, SamePi
  <1> HIDE DEF g
  <1> QED
    BY <1>1, <1>2, <1>3, <1>4, <1>5, LeavesDeep

LEMMA UnlockedDeep ==
    ASSUME Deep, NEW c \in CPU, NEW q, Leaves(c, q), Unlocked(q, c)
    PROVE  DeepStep(c)
  <1>1. CASE ScheduleEnd(q, c)
    BY <1>1, ScheduleEndDeep
  <1>2. CASE /\ rq' = q /\ at' = [at EXCEPT ![c] = [Run EXCEPT !.pc = "post"]]
             /\ UNCHANGED task
    BY <1>2, NothingEdited, LeavesDeep
  <1> QED
    BY <1>1, <1>2 DEF Unlocked

LEMMA PostEndDeep ==
    ASSUME Deep, NEW c \in CPU, PushEnd(c), at[c].k = "post"
    PROVE  DeepStep(c)
  <1>1. IInv /\ at[c].pc = "push" /\ ToldOK(c)
    BY DeepFacts DEF PushEnd
  <1>2. PICK q : EndsPost(c, q)
    <2>1. ~ \E f : EndsQuietly(c, at[c].r, at[c].k, f)
      BY DEF EndsQuietly, Ending
    <2> QED
      BY <1>1, <2>1, PushEndFacts
  <1>3. rq[c].curr = IDLE /\ rq[c].queue # {} => q[c].resched
    BY <1>1, <1>2 DEF ToldOK, MayBlock, EndsPost
  <1>4. Leaves(c, q)
    BY <1>1, <1>2, <1>3 DEF Leaves, EndsPost
  <1> QED
    BY <1>2, <1>4, ScheduleEndDeep DEF EndsPost

LEMMA FinishUnlockDeep ==
    ASSUME Deep, NEW c \in CPU, FinishUnlock(c)
    PROVE  DeepStep(c)
  <1> DEFINE q == [rq EXCEPT ![c].lock = NONE]
  <1>1. /\ Typed /\ at[c].pc = "unlock" /\ rq[c].lock = c /\ ToldOK(c) /\ Unlocked(q, c)
    BY DeepFacts DEF FinishUnlock, RqLocks
  <1>2. /\ q \in [CPU -> RqType] /\ SameQueues(q, rq) /\ SameStops(q, rq) /\ SameFlags(q, rq)
        /\ q[c].lock = NONE /\ \A d \in CPU \ {c} : q[d] = rq[d]
    BY <1>1, UnlockOnly DEF Locked, Typed
  <1> HIDE DEF q
  <1>3. Leaves(c, q)
    BY <1>1, <1>2 DEF Leaves, Relocked, SameFlags, ToldOK
  <1> QED
    BY <1>1, <1>3, UnlockedDeep

LEMMA PickSameDeep ==
    ASSUME Deep, NEW c \in CPU, at[c].pc = "pick", rq[c].curr = IDLE => rq[c].queue = {},
           Unlocked([rq EXCEPT ![c].resched = FALSE, ![c].lock = NONE], c)
    PROVE  DeepStep(c)
  <1> DEFINE y == [rq[c] EXCEPT !.resched = FALSE, !.lock = NONE]
             q == [rq EXCEPT ![c] = y]
  <1>1. Typed /\ rq[c] \in RqType /\ rq[c].lock = c
    BY DeepFacts DEF RqLocks
  <1>1a. Unlocked(q, c)
    <2>1. [rq EXCEPT ![c].resched = FALSE, ![c].lock = NONE] = q
      OBVIOUS
    <2> QED
      BY <2>1 DEF Unlocked, ScheduleEnd
  <1>2. /\ y \in RqType /\ y.queue = rq[c].queue /\ y.curr = rq[c].curr
        /\ y.wake_list = rq[c].wake_list /\ y.stop = rq[c].stop
        /\ y.idle = rq[c].idle /\ y.ipi = rq[c].ipi /\ y.lock = NONE
    BY <1>1 DEF RqType
  <1> HIDE DEF y
  <1>3. Leaves(c, q)
    BY <1>1, <1>2 DEF Typed, Leaves, Relocked, SameQueues, SameStops
  <1> HIDE DEF q
  <1> QED
    BY <1>1a, <1>3, UnlockedDeep

-----------------------------------------------------------------------------
(* The switch *)

\* CPU c goes on in __schedule() with its lock; the idle task is taken for want of others.
Switches(c, f) ==
    /\ at[c].pc \in {"pick", "switch"} /\ f.pc \in {"switch", "unlock"} /\ f.wl = {} /\ f.k = "none"
    /\ at' = [at EXCEPT ![c] = f] /\ f \in FrameType
    /\ \A d \in CPU \ {c} : rq'[d] = rq[d]
    /\ rq'[c].queue = rq[c].queue /\ rq'[c].wake_list = rq[c].wake_list /\ rq'[c].stop = rq[c].stop
    /\ rq'[c].lock = c /\ rq'[c].idle = rq[c].idle /\ rq'[c].ipi = rq[c].ipi
    /\ rq'[c].curr = IDLE => rq'[c].queue = {}
    /\ SameNotes(task', task) /\ SamePi(task', task)
    /\ \A x \in Task : /\ task'[x].state = task[x].state /\ task'[x].on_rq = task[x].on_rq
                       /\ task'[x].cpu = task[x].cpu /\ task'[x].allowed = task[x].allowed

LEMMA SwitchDeep ==
    ASSUME Deep, NEW c \in CPU, NEW f, Switches(c, f)
    PROVE  DeepStep(c)
  <1>1. /\ IInv /\ Typed /\ FrameOK(at[c], c, rq[c].curr) /\ DozeOK(c)
    BY DeepFacts
  <1>2. ~ InTask(at[c]) /\ ~ HoldsPi(at[c]) /\ ~ Stopping(at[c]) /\ ~ MayBlock(f)
    BY <1>1 DEF Switches, InTask, HoldsPi, FrameOK, MayBlock
  <1>3. Into(c, f)
    BY DEF Switches, Into
  <1>4. at'[c] = f /\ Elsewhere(c)
    BY <1>1, <1>3, IntoFrame
  <1>5. SleepStep(c)
    <2>1. SleepPlain(c, f)
      BY <1>2 DEF Switches, SleepPlain, SameNotes, Waker
    <2> QED
      BY <1>1, <1>3, <2>1, PlainSleep
  <1>6. IdleStep(c)
    <2>1. rq[c].idle = "off" /\ rq'[c].idle = "off"
      BY <1>1, <1>2 DEF DozeOK, Switches
    <2>2. DozeOK(c)' /\ ToldOK(c)'
      BY <1>4, <2>1 DEF DozeOK, ToldOK, Switches
    <2>3. \A d \in CPU \ {c} : ToldElsewhere(c, d)
      <3>1. \A d \in CPU \ {c} : rq[d] \in RqType
        BY <1>1 DEF Typed
      <3> QED
        BY <3>1 DEF ToldElsewhere, Switches
    <2>4. \A d \in CPU : rq'[d].wake_list = rq[d].wake_list /\ ~ Kicks(at[c], d)
      BY DEF Switches, Kicks
    <2>5. at[c].pc # "idle_pending" /\ (rq[c].ipi => rq'[c].ipi) /\ rq[c].idle # "polling"
      BY <2>1 DEF Switches
    <2> QED
      BY <1>4, <2>2, <2>3, <2>4, <2>5 DEF IdleStep
  <1>7. PlaceStep(c)
    <2>1. \A p \in Task : Settles(c, p)
      BY DEF Switches, Settles
    <2>2. \A d \in CPU : rq[d].stop \subseteq rq'[d].stop
      BY DEF Switches
    <2>3. at[c].pc # "sca_stop" /\ f.pc \notin {"bal_try", "both"} \cup QueuePcs
      BY DEF Switches
    <2>4. PlacePlain(c, f)
      BY <1>2, <2>1, <2>2, <2>3 DEF PlacePlain
    <2> QED
      BY <1>1, <1>3, <2>4, PlainPlace
  <1>8. OwnStep(c)
    <2>1. \A d \in CPU : OwnedRq(at[c], c, d) => d = c
      BY DEF Switches, OwnedRq, RqLocks
    <2>2. OwnedRq(f, c, c)
      BY DEF Switches, OwnedRq, RqLocks
    <2>3. OwnPlain(c, f)
      BY <1>2, <2>1, <2>2 DEF OwnPlain, OwnedPi, SamePi, Switches
    <2> QED
      BY <1>1, <1>3, <2>3, PlainOwn DEF Deep
  <1> QED
    BY <1>5, <1>6, <1>7, <1>8 DEF DeepStep

LEMMA PickOtherDeep ==
    ASSUME Deep, NEW c \in CPU, at[c].pc = "pick", NEW p,
           p \in rq[c].queue \cup {IDLE, STOP}, p = IDLE => rq[c].queue = {}, PicksOther(c, p)
    PROVE  DeepStep(c)
  <1> DEFINE g == [x \in Task |-> IF x = p THEN [task[x] EXCEPT !.on_cpu = TRUE] ELSE task[x]]
             z == [rq[c] EXCEPT !.resched = FALSE, !.curr = p]
             f == [Run EXCEPT !.pc = "switch", !.prev = rq[c].curr]
  <1>1. Typed /\ rq[c] \in RqType /\ rq[c].lock = c
    BY DeepFacts DEF RqLocks
  <1>2. task' = g /\ rq' = [rq EXCEPT ![c] = z] /\ at' = [at EXCEPT ![c] = f]
    BY DEF PicksOther
  <1>3. rq[c].curr \in Task \cup {IDLE, STOP}
    BY <1>1 DEF RqType
  <1>4. ASSUME NEW x \in Task
        PROVE  /\ g[x].state = task[x].state /\ g[x].on_rq = task[x].on_rq
               /\ g[x].cpu = task[x].cpu /\ g[x].allowed = task[x].allowed
               /\ g[x].pi_lock = task[x].pi_lock /\ g[x].cond = task[x].cond
               /\ g[x].step = task[x].step /\ g[x].preempt_active = task[x].preempt_active
    <2>1. task[x] \in TaskType
      BY <1>1 DEF Typed
    <2>2. g[x] = task[x] \/ g[x] = [task[x] EXCEPT !.on_cpu = TRUE]
      OBVIOUS
    <2> QED
      BY <2>1, <2>2 DEF TaskType
  <1>5. /\ z.queue = rq[c].queue /\ z.curr = p /\ z.wake_list = rq[c].wake_list
        /\ z.stop = rq[c].stop /\ z.lock = rq[c].lock /\ z.idle = rq[c].idle /\ z.ipi = rq[c].ipi
    BY <1>1 DEF RqType
  <1>6. f \in FrameType /\ f.pc = "switch" /\ f.wl = {} /\ f.k = "none"
    BY <1>3, PcNames DEF Run, FrameType
  <1> HIDE DEF f, g, z
  <1>7. rq'[c] = z /\ \A d \in CPU \ {c} : rq'[d] = rq[d]
    BY <1>1, <1>2 DEF Typed
  <1>8. SameNotes(task', task) /\ SamePi(task', task)
    BY <1>2, <1>4 DEF SameNotes, SamePi
  <1>9. Switches(c, f)
    BY <1>1, <1>2, <1>4, <1>5, <1>6, <1>7, <1>8 DEF Switches
  <1> QED
    BY <1>9, SwitchDeep

LEMMA PickNextTaskDeep ==
    ASSUME Deep, NEW c \in CPU, PickNextTask(c)
    PROVE  DeepStep(c)
  <1> DEFINE classes == IF rq[c].stop # {} THEN {STOP}
                        ELSE IF rq[c].queue # {} THEN rq[c].queue ELSE {IDLE}
  <1>1. at[c].pc = "pick" /\ rq[c] \in RqType
    BY DeepFacts DEF PickNextTask
  <1>2. PICK p \in classes :
          \/ /\ p = rq[c].curr
             /\ Unlocked([rq EXCEPT ![c].resched = FALSE, ![c].lock = NONE], c)
          \/ p # rq[c].curr /\ PicksOther(c, p)
    BY DEF PickNextTask, PicksOther
  <1>3. p \in rq[c].queue \cup {IDLE, STOP} /\ (p = IDLE => rq[c].queue = {})
    <2>1. rq[c].queue \subseteq Task
      BY <1>1 DEF RqType
    <2> QED
      BY <2>1, Names
  <1>4. CASE /\ p = rq[c].curr
             /\ Unlocked([rq EXCEPT ![c].resched = FALSE, ![c].lock = NONE], c)
    BY <1>1, <1>3, <1>4, PickSameDeep
  <1>5. CASE p # rq[c].curr /\ PicksOther(c, p)
    BY <1>1, <1>3, <1>5, PickOtherDeep
  <1> QED
    BY <1>2, <1>4, <1>5

LEMMA FinishSwitchDeep ==
    ASSUME Deep, NEW c \in CPU, FinishSwitch(c)
    PROVE  DeepStep(c)
  <1> DEFINE p == at[c].prev
             g == [x \in Task |-> IF x = p THEN [task[x] EXCEPT !.on_cpu = FALSE] ELSE task[x]]
  <1>1. /\ Typed /\ at[c] \in FrameType /\ FrameOK(at[c], c, rq[c].curr) /\ rq' = rq
        /\ at[c].pc = "switch" /\ rq[c].lock = c /\ task' = g /\ ToldOK(c)
    BY DeepFacts DEF FinishSwitch, RqLocks
  <1>2. PICK f \in FrameType : f.pc = "unlock" /\ SameFrame(f, at[c]) /\ at' = [at EXCEPT ![c] = f]
    BY <1>1, PcNames, GotoFacts DEF FinishSwitch
  <1>3. f.k = "none" /\ f.wl = {}
    BY <1>1, <1>2 DEF SameFrame, FrameOK
  <1>4. ASSUME NEW x \in Task
        PROVE  /\ g[x].state = task[x].state /\ g[x].on_rq = task[x].on_rq
               /\ g[x].cpu = task[x].cpu /\ g[x].allowed = task[x].allowed
               /\ g[x].pi_lock = task[x].pi_lock /\ g[x].cond = task[x].cond
               /\ g[x].step = task[x].step /\ g[x].preempt_active = task[x].preempt_active
    <2>1. task[x] \in TaskType
      BY <1>1 DEF Typed
    <2>2. g[x] = task[x] \/ g[x] = [task[x] EXCEPT !.on_cpu = FALSE]
      OBVIOUS
    <2> QED
      BY <2>1, <2>2 DEF TaskType
  <1> HIDE DEF g
  <1>5. SameNotes(task', task) /\ SamePi(task', task)
    BY <1>1, <1>4 DEF SameNotes, SamePi
  <1>6. rq[c].curr = IDLE => rq[c].queue = {}
    BY <1>1 DEF ToldOK
  <1>7. Switches(c, f)
    BY <1>1, <1>2, <1>3, <1>4, <1>5, <1>6 DEF Switches
  <1> QED
    BY <1>7, SwitchDeep

-----------------------------------------------------------------------------
(* The rest of a wakeup *)

LEMMA TtwuKickDeep ==
    ASSUME Deep, NEW c \in CPU, TtwuKick(c)
    PROVE  DeepStep(c)
  <1>0. PICK p \in Task, r \in CPU : p = at[c].w /\ r = at[c].r
    BY DeepFacts DEF TtwuKick, FrameOK
  <1> DEFINE y == IF rq[r].idle = "polling" THEN [rq[r] EXCEPT !.resched = TRUE]
                  ELSE [rq[r] EXCEPT !.ipi = TRUE]
  <1>1. /\ Typed /\ FrameOK(at[c], c, rq[c].curr) /\ at[c].pc = "ttwu_kick"
        /\ rq[c].idle # "halted" /\ at' = [at EXCEPT ![c] = Run]
        /\ PiLocked(task', task, p, NONE) /\ rq' = [rq EXCEPT ![r] = y]
    BY <1>0, DeepFacts DEF TtwuKick, PiLocked
  <1>2. rq[r] \in RqType
    BY <1>1 DEF Typed
  <1>3. /\ y.queue = rq[r].queue /\ y.curr = rq[r].curr /\ y.idle = rq[r].idle
        /\ y.wake_list = rq[r].wake_list /\ y.stop = rq[r].stop /\ y.lock = rq[r].lock
        /\ (rq[r].ipi => y.ipi) /\ (rq[r].resched => y.resched)
        /\ rq[r].idle = "polling" => y.resched
        /\ rq[r].idle # "polling" => y.ipi
    BY <1>2 DEF RqType
  <1> HIDE DEF y
  <1>4. rq'[r] = y /\ \A d \in CPU \ {r} : rq'[d] = rq[d]
    BY <1>1 DEF Typed
  <1>5. SameTasks(task', task) /\ SameNotes(task', task)
    BY <1>1, PiUnlockOnly DEF Typed
  <1>6. task'[p].pi_lock = NONE /\ \A x \in Task \ {p} : task'[x] = task[x]
    BY <1>1, PiUnlockOnly DEF Typed
  <1>7. Into(c, Run)
    BY <1>1, <1>3, <1>4, RunFrame DEF Into
  <1>8. SleepPlain(c, Run)
    BY <1>1, <1>3, <1>4, <1>5 DEF SleepPlain, SameTasks, SameNotes, InTask, Run, Waker
  <1>9. IdlePlain(c, Run)
    <2>1. Run.pc = "run" /\ InTask(Run) /\ ~ MayBlock(at[c])
      BY <1>1 DEF Run, InTask, MayBlock, FrameOK
    <2>2. rq'[c].curr = rq[c].curr
      BY <1>3, <1>4
    <2>3. ASSUME NEW d \in CPU, d # r
          PROVE  rq'[d] = rq[d] /\ ~ Kicks(at[c], d) /\ rq[d] \in RqType
      BY <1>0, <1>1, <1>4, <2>3 DEF Kicks, Typed
    <2> QED
      BY <1>1, <1>3, <1>4, <2>1, <2>2, <2>3 DEF IdlePlain
  <1>10. PlacePlain(c, Run)
    <2>1. \A x \in Task : Settles(c, x)
      BY <1>5 DEF SameTasks, Settles
    <2>2. \A d \in CPU : rq[d].stop \subseteq rq'[d].stop
      BY <1>3, <1>4
    <2> QED
      BY <1>1, <2>1, <2>2 DEF PlacePlain, Run, FrameOK
  <1>11. OwnPlain(c, Run)
    <2>1. \A d \in CPU : rq'[d].lock = rq[d].lock /\ ~ OwnedRq(at[c], c, d)
      BY <1>1, <1>3, <1>4 DEF OwnedRq, RqLocks
    <2>2. \A x \in Task \ {p} : ~ OwnedPi(at[c], x)
      BY <1>0 DEF OwnedPi
    <2> QED
      BY <1>6, <2>1, <2>2 DEF OwnPlain, Run
  <1> QED
    BY <1>7, <1>8, <1>9, <1>10, <1>11, PlainDeep

LEMMA StopOneCpuDeep ==
    ASSUME Deep, NEW c \in CPU, StopOneCpu(c)
    PROVE  DeepStep(c)
  <1>0. PICK r \in CPU : r = at[c].r
    BY DeepFacts DEF StopOneCpu, FrameOK
  <1> DEFINE z == <<at[c].w, at[c].dst, rq[c].curr>>
             x == [rq[r] EXCEPT !.stop = rq[r].stop \cup {z}]
             q == [rq EXCEPT ![r] = x]
  <1>1. /\ Typed /\ FrameOK(at[c], c, rq[c].curr) /\ at[c].pc = "sca_stop"
        /\ at[c].w \in Task \ Worker /\ at[c].dst \in CPU /\ rq[c].curr \in Task /\ task' = task
        /\ at' = [at EXCEPT ![c] = Run] /\ rq[c].idle # "halted"
    BY DeepFacts DEF StopOneCpu, FrameOK
  <1>2. rq' = resched_curr(q, r, c)
    <2>1. [rq EXCEPT ![r].stop = @ \cup {z}] = q
      OBVIOUS
    <2> QED
      BY <1>0, <2>1 DEF StopOneCpu
  <1>3. rq[r] \in RqType /\ z \in Task \X CPU \X Task
    BY <1>1 DEF Typed
  <1> HIDE DEF z
  <1>4. /\ x \in RqType /\ x.queue = rq[r].queue /\ x.curr = rq[r].curr
        /\ x.wake_list = rq[r].wake_list /\ x.stop = rq[r].stop \cup {z} /\ x.lock = rq[r].lock
        /\ x.resched = rq[r].resched /\ x.idle = rq[r].idle /\ x.ipi = rq[r].ipi
    BY <1>3 DEF RqType
  <1> HIDE DEF x
  <1>5. /\ q \in [CPU -> RqType] /\ q[r] = x /\ \A d \in CPU \ {r} : q[d] = rq[d]
    BY <1>1, <1>4 DEF Typed
  <1> HIDE DEF q
  <1>6. /\ SameQueues(rq', q) /\ SameStops(rq', q) /\ SameLocks(rq', q)
        /\ \A d \in CPU \ {r} : rq'[d] = q[d]
    BY <1>1, <1>2, <1>5, ReschedFacts
  <1>6a. /\ rq'[r].idle = q[r].idle /\ rq'[r].resched /\ (q[r].ipi => rq'[r].ipi)
         /\ q[r].resched \/ rq'[r].ipi \/ r = c \/ q[r].idle = "polling"
    BY <1>1, <1>2, <1>5, ReschedFacts
  <1>7. /\ \A d \in CPU \ {r} : rq'[d] = rq[d]
        /\ rq'[r].queue = rq[r].queue /\ rq'[r].curr = rq[r].curr /\ rq'[r].wake_list = rq[r].wake_list
        /\ rq'[r].stop = rq[r].stop \cup {z} /\ rq'[r].lock = rq[r].lock /\ rq'[r].idle = rq[r].idle
    BY <1>4, <1>5, <1>6, <1>6a DEF SameQueues, SameStops, SameLocks
  <1>8. Into(c, Run)
    BY <1>1, <1>7, RunFrame DEF Into
  <1>9. SleepPlain(c, Run)
    BY <1>1, <1>7 DEF SleepPlain, InTask, Run, Waker
  <1>10. IdlePlain(c, Run)
    <2>1. Run.pc = "run" /\ InTask(Run) /\ ~ MayBlock(at[c]) /\ \A d \in CPU : ~ Kicks(at[c], d)
      BY <1>1 DEF Run, InTask, MayBlock, FrameOK, Kicks
    <2>2. rq'[c].curr = rq[c].curr
      BY <1>7
    <2>3. (rq[r].ipi => rq'[r].ipi) /\ (rq[r].idle = "halted" => rq[r].resched \/ rq'[r].ipi)
      BY <1>1, <1>4, <1>5, <1>6a
    <2>4. \A d \in CPU : rq[d] \in RqType
      BY <1>1 DEF Typed
    <2> QED
      BY <1>1, <1>6a, <1>7, <2>1, <2>2, <2>3, <2>4 DEF IdlePlain
  <1>11. PlacePlain(c, Run)
    <2>1. \A y \in Task : Settles(c, y)
      BY <1>1 DEF Settles
    <2>2. \A d \in CPU : rq[d].stop \subseteq rq'[d].stop
      BY <1>7
    <2>3. \E y \in Task : <<at[c].w, at[c].dst, y>> \in rq'[at[c].r].stop
      BY <1>0, <1>1, <1>7 DEF z
    <2> QED
      BY <1>1, <2>1, <2>2, <2>3 DEF PlacePlain, Run, FrameOK
  <1>12. OwnPlain(c, Run)
    <2>1. \A d \in CPU : rq'[d].lock = rq[d].lock /\ ~ OwnedRq(at[c], c, d)
      BY <1>1, <1>7 DEF OwnedRq, RqLocks
    <2>2. \A y \in Task : ~ OwnedPi(at[c], y)
      BY <1>1 DEF OwnedPi, HoldsPi, FrameOK
    <2> QED
      BY <1>1, <2>1, <2>2 DEF OwnPlain, Run
  <1> QED
    BY <1>8, <1>9, <1>10, <1>11, <1>12, PlainDeep

LEMMA TtwuListDeep ==
    ASSUME Deep, NEW c \in CPU, TtwuList(c)
    PROVE  DeepStep(c)
  <1>0. PICK p \in Task, r \in CPU : p = at[c].w /\ r = at[c].r
    BY DeepFacts DEF TtwuList, FrameOK
  <1> DEFINE z == [rq[r] EXCEPT !.wake_list = rq[r].wake_list \cup {p}]
  <1>1. /\ Typed /\ at[c] \in FrameType /\ FrameOK(at[c], c, rq[c].curr)
        /\ at[c].pc = "ttwu_list" /\ rq[c].idle # "halted"
        /\ rq[r] \in RqType /\ rq' = [rq EXCEPT ![r] = z]
    BY <1>0, DeepFacts DEF TtwuList, Typed
  <1>2. /\ z.queue = rq[r].queue /\ z.curr = rq[r].curr /\ z.lock = rq[r].lock
        /\ z.stop = rq[r].stop /\ z.resched = rq[r].resched /\ z.ipi = rq[r].ipi
        /\ z.idle = rq[r].idle
    BY <1>1 DEF RqType
  <1> HIDE DEF z
  <1>3. rq'[r] = z /\ \A d \in CPU \ {r} : rq'[d] = rq[d]
    BY <1>1 DEF Typed
  <1>4. PICK f \in FrameType :
          /\ at' = [at EXCEPT ![c] = f] /\ f.pc \in {"run", "ttwu_kick"} /\ f.k = "none"
          /\ f.ret = "run" \/ f.wl = {}
          /\ rq[r].wake_list = {} => Kicks(f, r)
          /\ SameTasks(task', task) /\ SameNotes(task', task)
          /\ \A x \in Task \ {p} : task'[x] = task[x]
          /\ task'[p].pi_lock = NONE \/ (task'[p].pi_lock = task[p].pi_lock /\ OwnedPi(f, p))
    <2>1. CASE Goto(c, "ttwu_kick") /\ task' = task
      <3>1. PICK f \in FrameType :
              f.pc = "ttwu_kick" /\ SameFrame(f, at[c]) /\ at' = [at EXCEPT ![c] = f]
        BY <1>1, <2>1, PcNames, GotoFacts
      <3>2. f.w = p /\ f.r = r /\ f.k = "none" /\ f.wl = {}
        BY <1>0, <1>1, <3>1 DEF SameFrame, FrameOK
      <3> QED
        BY <2>1, <3>1, <3>2 DEF SameTasks, SameNotes, OwnedPi, HoldsPi, Kicks
    <2>2. CASE /\ PiLocked(task', task, p, NONE) /\ at' = [at EXCEPT ![c] = Run]
               /\ rq[r].wake_list # {}
      <3>1. SameTasks(task', task) /\ SameNotes(task', task)
        BY <1>1, <2>2, PiUnlockOnly DEF Typed
      <3>2. task'[p].pi_lock = NONE /\ \A x \in Task \ {p} : task'[x] = task[x]
        BY <1>1, <2>2, PiUnlockOnly DEF Typed
      <3> QED
        BY <2>2, <3>1, <3>2, RunFrame DEF Run
    <2> QED
      BY <1>0, <2>1, <2>2 DEF TtwuList, PiLocked
  <1>5. ~ MayBlock(at[c]) /\ InTask(f) /\ ~ Stopping(at[c])
    BY <1>1, <1>4 DEF FrameOK, MayBlock, InTask
  <1>6. Into(c, f)
    BY <1>2, <1>3, <1>4 DEF Into
  <1>7. SleepPlain(c, f)
    BY <1>1, <1>2, <1>3, <1>4, <1>5 DEF SleepPlain, SameTasks, SameNotes, Waker
  <1>8. IdlePlain(c, f)
    <2>1. \A d \in CPU : ~ Kicks(at[c], d) /\ rq[d] \in RqType
      BY <1>1 DEF Kicks, Typed
    <2> QED
      BY <1>1, <1>2, <1>3, <1>4, <1>5, <2>1 DEF IdlePlain
  <1>9. PlacePlain(c, f)
    <2>1. \A x \in Task : Settles(c, x)
      BY <1>4 DEF SameTasks, Settles
    <2>2. \A d \in CPU : rq[d].stop \subseteq rq'[d].stop
      BY <1>2, <1>3
    <2> QED
      BY <1>1, <1>4, <1>5, <2>1, <2>2 DEF PlacePlain
  <1>10. OwnPlain(c, f)
    <2>1. \A d \in CPU : rq'[d].lock = rq[d].lock /\ ~ OwnedRq(at[c], c, d)
      BY <1>1, <1>2, <1>3 DEF OwnedRq, RqLocks
    <2>2. \A x \in Task \ {p} : ~ OwnedPi(at[c], x)
      BY <1>0 DEF OwnedPi
    <2> QED
      BY <1>4, <2>1, <2>2 DEF OwnPlain
  <1> QED
    BY <1>6, <1>7, <1>8, <1>9, <1>10, PlainDeep

LEMMA TtwuSelectDeep ==
    ASSUME Deep, NEW c \in CPU, TtwuSelect(c)
    PROVE  DeepStep(c)
  <1>0. PICK p \in Task : p = at[c].w
    BY DeepFacts DEF TtwuSelect, FrameOK
  <1>1. /\ Typed /\ at[c] \in FrameType /\ FrameOK(at[c], c, rq[c].curr) /\ rq[c].idle # "halted"
        /\ Relies(at[c], c) /\ at[c].pc = "ttwu_on_cpu" /\ task[p] \in TaskType /\ rq' = rq
    BY <1>0, DeepFacts DEF TtwuSelect, Typed
  <1>2. PICK e \in task[p].allowed, x \in QueuePcs :
          /\ task' = [task EXCEPT ![p].state = WAKING, ![p].cpu = e]
          /\ at' = [at EXCEPT ![c].pc = x, ![c].r = e]
    BY <1>0 DEF TtwuSelect
  <1> DEFINE y == [task[p] EXCEPT !.state = WAKING, !.cpu = e]
             f == [at[c] EXCEPT !.pc = x, !.r = e]
  <1>3. task' = [task EXCEPT ![p] = y] /\ at' = [at EXCEPT ![c] = f]
    BY <1>2
  <1>4. e \in CPU /\ x \in Pcs
    BY <1>1, PcNames DEF TaskType
  <1>5. /\ y.state = WAKING /\ y.on_rq = task[p].on_rq /\ y.cpu = e
        /\ y.allowed = task[p].allowed /\ y.pi_lock = task[p].pi_lock
        /\ y.cond = task[p].cond /\ y.step = task[p].step
        /\ y.preempt_active = task[p].preempt_active
    BY <1>1 DEF TaskType
  <1>6. /\ f \in FrameType /\ f.pc = x /\ f.w = p /\ f.r = e /\ f.t = at[c].t
        /\ f.k = at[c].k /\ f.wl = at[c].wl
    BY <1>0, <1>1, <1>4 DEF FrameType
  <1> HIDE DEF y, f
  <1>7. task'[p] = y /\ \A v \in Task \ {p} : task'[v] = task[v]
    BY <1>1, <1>3 DEF Typed
  <1>8. ~ MayBlock(at[c]) /\ InTask(f) /\ ~ Stopping(at[c]) /\ f.k = "none"
    BY <1>1, <1>6 DEF FrameOK, MayBlock, InTask
  <1>9. Into(c, f)
    BY <1>1, <1>3, <1>6 DEF Into
  <1>10. SleepPlain(c, f)
    <2>1. y.state # SLEEP
      BY <1>5 DEF SLEEP, WAKING
    <2>2. \A v \in Task \ {p} : ~ Waker(at[c], v)
      BY <1>0 DEF Waker
    <2> QED
      BY <1>1, <1>5, <1>7, <1>8, <2>1, <2>2 DEF SleepPlain
  <1>11. IdlePlain(c, f)
    <2>1. \A d \in CPU : ~ Kicks(at[c], d) /\ rq[d] \in RqType
      BY <1>1 DEF Kicks, Typed
    <2> QED
      BY <1>1, <1>6, <1>8, <2>1 DEF IdlePlain
  <1>12. PlacePlain(c, f)
    <2>1. \A v \in Task : Settles(c, v)
      <3>1. task[p].on_rq = "no"
        BY <1>0, <1>1 DEF Relies
      <3> QED
        BY <1>5, <1>7, <3>1 DEF Settles
    <2>2. f.r \in task'[f.w].allowed
      BY <1>5, <1>6, <1>7
    <2> QED
      BY <1>1, <1>6, <1>8, <2>1, <2>2 DEF PlacePlain
  <1>13. OwnPlain(c, f)
    <2>1. \A d \in CPU : ~ OwnedRq(at[c], c, d)
      BY <1>1 DEF OwnedRq, RqLocks
    <2>2. \A v \in Task : task'[v].pi_lock = task[v].pi_lock /\ (OwnedPi(at[c], v) => OwnedPi(f, v))
      BY <1>0, <1>5, <1>6, <1>7 DEF OwnedPi, HoldsPi
    <2> QED
      BY <1>1, <1>6, <2>1, <2>2 DEF OwnPlain
  <1> QED
    BY <1>9, <1>10, <1>11, <1>12, <1>13, PlainDeep

LEMMA JoinQueueDeep ==
    ASSUME Deep, NEW c \in CPU, JoinQueue(c)
    PROVE  DeepStep(c)
  <1>0. PICK p \in Task, r \in CPU : p = at[c].w /\ r = at[c].dst
    BY DeepFacts DEF JoinQueue, FrameOK
  <1> DEFINE z == [rq[r] EXCEPT !.queue = rq[r].queue \cup {p}]
             q == [rq EXCEPT ![r] = z]
             y == [task[p] EXCEPT !.on_rq = "queued", !.pi_lock = NONE]
  <1>1. /\ Typed /\ at[c] \in FrameType /\ FrameOK(at[c], c, rq[c].curr)
        /\ Relies(at[c], c) /\ at[c].pc = "move_dst" /\ Free(rq[r].lock) /\ rq[c].idle # "halted"
        /\ rq[r] \in RqType /\ task[p] \in TaskType /\ task' = [task EXCEPT ![p] = y]
        /\ at' = [at EXCEPT ![c] = Run]
    BY <1>0, DeepFacts DEF JoinQueue, Typed
  <1>2. rq' \in check_preempt_curr(q, r, p, c)
    <2>1. q = [rq EXCEPT ![r].queue = @ \cup {p}]
      OBVIOUS
    <2> QED
      BY <1>0, <2>1 DEF JoinQueue
  <1>3. /\ z \in RqType /\ z.curr = rq[r].curr /\ z.lock = rq[r].lock
        /\ z.wake_list = rq[r].wake_list /\ z.stop = rq[r].stop /\ z.resched = rq[r].resched
        /\ z.ipi = rq[r].ipi /\ z.idle = rq[r].idle
    BY <1>1 DEF RqType
  <1>4. /\ y.state = task[p].state /\ y.on_rq = "queued" /\ y.cpu = task[p].cpu
        /\ y.allowed = task[p].allowed /\ y.pi_lock = NONE
        /\ y.cond = task[p].cond /\ y.step = task[p].step
        /\ y.preempt_active = task[p].preempt_active
    BY <1>1 DEF TaskType
  <1> HIDE DEF y, z
  <1>5. /\ q \in [CPU -> RqType] /\ q[r] = z /\ \A d \in CPU \ {r} : q[d] = rq[d]
    BY <1>1, <1>3 DEF Typed
  <1>6. task'[p] = y /\ \A x \in Task \ {p} : task'[x] = task[x]
    BY <1>1 DEF Typed
  <1> HIDE DEF q
  <1>7. /\ SameQueues(rq', q) /\ SameStops(rq', q) /\ SameLocks(rq', q)
        /\ \A d \in CPU \ {r} : rq'[d] = q[d]
    BY <1>2, <1>5, PreemptFacts
  <1>8. /\ rq'[r].idle = q[r].idle /\ (q[r].ipi => rq'[r].ipi) /\ (q[r].resched => rq'[r].resched)
        /\ q[r].curr = IDLE => rq'[r].resched
        /\ rq'[r].resched => q[r].resched \/ rq'[r].ipi \/ r = c \/ q[r].idle = "polling"
    BY <1>2, <1>5, PreemptFacts
  <1>9. /\ \A d \in CPU : /\ rq'[d].curr = rq[d].curr /\ rq'[d].wake_list = rq[d].wake_list
                          /\ rq'[d].stop = rq[d].stop /\ rq'[d].lock = rq[d].lock
        /\ \A d \in CPU \ {r} : rq'[d] = rq[d]
    BY <1>3, <1>5, <1>7 DEF SameQueues, SameStops, SameLocks
  <1>10. /\ rq'[r].idle = rq[r].idle /\ (rq[r].ipi => rq'[r].ipi) /\ (rq[r].resched => rq'[r].resched)
         /\ rq[r].curr = IDLE => rq'[r].resched
         /\ rq[r].idle = "halted" /\ rq'[r].resched => rq[r].resched \/ rq'[r].ipi
    BY <1>1, <1>3, <1>5, <1>8
  <1>11. ~ MayBlock(at[c]) /\ InTask(Run) /\ ~ Stopping(at[c]) /\ Run.pc = "run"
    BY <1>1 DEF FrameOK, MayBlock, InTask, Run
  <1>12. task[p].on_rq = "migrating" /\ task[p].cpu \in task[p].allowed
    <2>1. PlacedOK(p)
      BY DEF Deep, Placed
    <2> QED
      BY <1>0, <1>1, <2>1 DEF PlacedOK, Relies
  <1>13. Into(c, Run)
    BY <1>1, <1>9, RunFrame DEF Into
  <1>14. SleepPlain(c, Run)
    <2>1. \A x \in Task : ~ Waker(at[c], x)
      BY <1>1 DEF Waker
    <2> QED
      BY <1>1, <1>4, <1>6, <1>9, <1>11, <1>12, <2>1 DEF SleepPlain
  <1>15. IdlePlain(c, Run)
    <2>1. \A d \in CPU : ~ Kicks(at[c], d) /\ rq[d] \in RqType
      BY <1>1 DEF Kicks, Typed
    <2> QED
      BY <1>1, <1>9, <1>10, <1>11, <2>1 DEF IdlePlain, Free
  <1>16. PlacePlain(c, Run)
    <2>1. \A x \in Task : Settles(c, x)
      BY <1>4, <1>6, <1>12 DEF Settles
    <2> QED
      BY <1>1, <1>9, <1>11, <2>1 DEF PlacePlain
  <1>17. OwnPlain(c, Run)
    <2>1. \A d \in CPU : ~ OwnedRq(at[c], c, d)
      BY <1>1 DEF OwnedRq, RqLocks
    <2>2. \A x \in Task \ {p} : ~ OwnedPi(at[c], x)
      BY <1>0 DEF OwnedPi
    <2> QED
      BY <1>4, <1>6, <1>9, <1>11, <2>1, <2>2 DEF OwnPlain
  <1> QED
    BY <1>13, <1>14, <1>15, <1>16, <1>17, PlainDeep

-----------------------------------------------------------------------------
(* Moved tasks *)

\* A queued task that does not run does not sleep either, unless it was preempted.
LEMMA QueuedSleeps ==
    ASSUME Deep, NEW p \in Task, task[p].on_rq # "no", ~ task[p].on_cpu
    PROVE  task[p].state # SLEEP \/ task[p].preempt_active
  <1>1. SleepOK(p)
    BY DEF Deep, Sleepers
  <1>2. ASSUME NEW d \in CPU PROVE rq[d].curr # p
    BY DEF Deep, IInv, Places, StacksExact, Stacks
  <1> QED
    BY <1>1, <1>2 DEF SleepOK

\* CPU c moves p from queue a to queue b with both locks, and tells b or looks itself.
Moves(c, p, a, b) ==
    /\ p \in Task /\ a \in CPU /\ b \in CPU /\ at[c].pc = "both"
    /\ p \in rq[a].queue /\ ~ task[p].on_cpu /\ b \in task[p].allowed
    /\ b = at[c].o \/ (b = at[c].r /\ at[c].t = NONE)
    /\ Unbalances(c)
    /\ \A d \in CPU : /\ rq'[d].curr = rq[d].curr /\ rq'[d].wake_list = rq[d].wake_list
                      /\ rq'[d].stop = rq[d].stop /\ rq'[d].idle = rq[d].idle
                      /\ d = b \/ rq'[d].queue \subseteq rq[d].queue
                      /\ (rq[d].ipi => rq'[d].ipi) /\ (rq[d].resched => rq'[d].resched)
                      /\ rq[d].idle = "halted" /\ rq'[d].resched => rq[d].resched \/ rq'[d].ipi
                      /\ rq'[d].lock = IF d = at[c].o THEN NONE ELSE rq[d].lock
    /\ b = at[c].o => rq'[b].resched
    /\ task' = [task EXCEPT ![p].cpu = b]

LEMMA MovesDeep ==
    ASSUME Deep, NEW c \in CPU, NEW p, NEW a, NEW b, Moves(c, p, a, b)
    PROVE  DeepStep(c)
  <1> DEFINE y == [task[p] EXCEPT !.cpu = b]
  <1>1. /\ IInv /\ Typed /\ at[c] \in FrameType /\ FrameOK(at[c], c, rq[c].curr)
        /\ rq[c].idle # "halted" /\ at[c].pc = "both" /\ p \in Task /\ b \in CPU
        /\ \A d \in RqLocks(at[c], c) : rq[d].lock = c
    BY DeepFacts DEF Moves
  <1>2. /\ at[c].r \in CPU /\ at[c].o \in CPU /\ rq[at[c].r].lock = c /\ rq[at[c].o].lock = c
    BY <1>1 DEF FrameOK, RqLocks
  <1>3. PICK f \in FrameType :
             /\ at' = [at EXCEPT ![c] = f] /\ f.pc \in {"push", "pick"}
             /\ Gentle(c, f) /\ KeepsPi(c, f, Task) /\ KeepsRq(c, f, CPU \ {at[c].o})
             /\ at[c].t = NONE => at[c].r = c /\ f.pc = "pick"
    BY <1>1, UnbalancedFrame DEF Moves
  <1>4. task[p] \in TaskType /\ task' = [task EXCEPT ![p] = y]
    BY <1>1 DEF Typed, Moves
  <1>5. /\ y.state = task[p].state /\ y.on_rq = task[p].on_rq /\ y.cpu = b
        /\ y.allowed = task[p].allowed /\ y.pi_lock = task[p].pi_lock
        /\ y.cond = task[p].cond /\ y.step = task[p].step
        /\ y.preempt_active = task[p].preempt_active
    BY <1>4 DEF TaskType
  <1> HIDE DEF y
  <1>6. task'[p] = y /\ \A x \in Task \ {p} : task'[x] = task[x]
    BY <1>1, <1>4 DEF Typed
  <1>7. task[p].on_rq = "queued"
    BY <1>1 DEF Moves, IInv, Places, QueueExact
  <1>8. task[p].state # SLEEP \/ task[p].preempt_active
    BY <1>1, <1>7, QueuedSleeps DEF Moves
  <1>9. Into(c, f)
    BY <1>3 DEF Into, Moves
  <1>10. SleepPlain(c, f)
    <2>1. rq'[c].curr = rq[c].curr /\ (InTask(at[c]) => InTask(f)) /\ \A x \in Task : ~ Waker(at[c], x)
      BY <1>1, <1>3 DEF Moves, Gentle, Waker
    <2>2. \A x \in Task : task[x].preempt_active => task'[x].preempt_active
      BY <1>5, <1>6
    <2> QED
      BY <1>1, <1>5, <1>6, <1>8, <2>1, <2>2 DEF SleepPlain
  <1>11. IdlePlain(c, f)
    <2>1. ASSUME NEW d \in CPU
          PROVE  \/ rq'[d].queue \subseteq rq[d].queue
                 \/ rq[d].lock \in {c, NONE} /\ (rq[d].curr = IDLE => rq'[d].resched)
                 \/ d = c /\ MayBlock(f)
      <3>1. CASE d # b
        BY <3>1 DEF Moves
      <3>2. CASE d = b /\ b = at[c].o
        BY <1>2, <3>2 DEF Moves
      <3>3. CASE d = b /\ b = at[c].r /\ at[c].t = NONE
        BY <1>3, <3>3 DEF MayBlock
      <3> QED
        BY <3>1, <3>2, <3>3 DEF Moves
    <2>2. \A d \in CPU : ~ Kicks(at[c], d)
      BY <1>1 DEF Kicks
    <2>3. rq'[c].curr = rq[c].curr /\ (InTask(at[c]) => InTask(f)) /\ (MayBlock(at[c]) => MayBlock(f))
          /\ f.pc \notin {"switch", "unlock"} /\ at[c].pc # "idle_pending"
      BY <1>1, <1>3 DEF Moves, Gentle
    <2>4. \A d \in CPU :
            /\ rq'[d].idle = rq[d].idle /\ rq'[d].wake_list = rq[d].wake_list
            /\ (rq[d].ipi => rq'[d].ipi) /\ (rq[d].resched => rq'[d].resched)
            /\ rq[d].idle = "halted" /\ rq'[d].resched => rq[d].resched \/ rq'[d].ipi
      BY DEF Moves
    <2> QED
      BY <1>1, <2>1, <2>2, <2>3, <2>4 DEF IdlePlain
  <1>12. PlacePlain(c, f)
    <2>1. \A x \in Task : Settles(c, x)
      BY <1>5, <1>6, <1>7 DEF Settles, Moves
    <2>2. \A d \in CPU : rq'[d].stop = rq[d].stop
      BY DEF Moves
    <2>3. Stopping(at[c]) => Stopping(f) /\ f.w = at[c].w /\ f.dst = at[c].dst /\ f.wl = at[c].wl
      BY <1>3 DEF Gentle
    <2> QED
      BY <1>1, <1>3, <2>1, <2>2, <2>3 DEF PlacePlain
  <1>13. OwnPlain(c, f)
    <2>1. \A x \in Task : task'[x].pi_lock = task[x].pi_lock /\ (OwnedPi(at[c], x) => OwnedPi(f, x))
      BY <1>3, <1>5, <1>6 DEF KeepsPi
    <2>2. \A d \in CPU : \/ rq'[d].lock = NONE
                         \/ rq'[d].lock = rq[d].lock /\ (OwnedRq(at[c], c, d) => OwnedRq(f, c, d))
      BY <1>3 DEF KeepsRq, Moves
    <2> QED
      BY <1>3, <2>1, <2>2 DEF OwnPlain
  <1> QED
    BY <1>9, <1>10, <1>11, <1>12, <1>13, PlainDeep

LEMMA PushMoveDeep ==
    ASSUME Deep, NEW c \in CPU, PushMove(c)
    PROVE  DeepStep(c)
  <1>1. /\ Typed /\ at[c] \in FrameType /\ FrameOK(at[c], c, rq[c].curr)
        /\ at[c].pc = "both" /\ Relies(at[c], c) /\ at[c].t # NONE /\ Unbalances(c) /\ AimsOK(at[c])
    BY DeepFacts DEF PushMove, Unbalances
  <1>2. PICK r \in CPU, o \in CPU, t \in Task : r = at[c].r /\ o = at[c].o /\ t = at[c].t
    BY <1>1 DEF FrameOK, FrameType
  <1>3. r # o /\ t \in rq[r].queue /\ ~ task[t].on_cpu /\ o \in task[t].allowed
    BY <1>1, <1>2 DEF FrameOK, Relies, AimsOK
  <1>4. CASE /\ Locked(rq', resched_curr(Moved(rq, t, r, o), o, c), o, NONE)
             /\ task' = [task EXCEPT ![t].cpu = o]
    <2> DEFINE q == Moved(rq, t, r, o)
               e == resched_curr(q, o, c)
    <2>1. /\ q \in [CPU -> RqType] /\ SameStops(q, rq) /\ SameLocks(q, rq) /\ SameFlags(q, rq)
          /\ q[r].queue = rq[r].queue \ {t}
          /\ \A d \in CPU \ {r, o} : q[d].queue = rq[d].queue
          /\ \A d \in CPU : q[d].curr = rq[d].curr /\ q[d].wake_list = rq[d].wake_list
      BY <1>1, <1>3, MovedFacts DEF Typed
    <2> HIDE DEF q
    <2>2. /\ e \in [CPU -> RqType] /\ SameQueues(e, q) /\ SameStops(e, q) /\ SameLocks(e, q)
          /\ \A d \in CPU \ {o} : e[d] = q[d]
      BY <2>1, ReschedFacts
    <2>3. /\ e[o].idle = q[o].idle /\ e[o].resched /\ (q[o].ipi => e[o].ipi)
          /\ q[o].resched \/ e[o].ipi \/ o = c \/ q[o].idle = "polling"
      BY <2>1, ReschedFacts
    <2> HIDE DEF e
    <2>4. Locked(rq', e, o, NONE)
      BY <1>4 DEF e, q
    <2>5. SameQueues(rq', e) /\ SameStops(rq', e) /\ SameFlags(rq', e)
      BY <2>2, <2>4, UnlockOnly
    <2>6. rq'[o].lock = NONE /\ \A d \in CPU \ {o} : rq'[d] = e[d]
      BY <2>2, <2>4, UnlockOnly
    <2>7. o = c => rq[o].idle # "halted"
      BY <1>1, DeepFacts
    <2>8. ASSUME NEW d \in CPU
          PROVE  /\ rq'[d].curr = rq[d].curr /\ rq'[d].wake_list = rq[d].wake_list
                 /\ rq'[d].stop = rq[d].stop /\ rq'[d].idle = rq[d].idle
                 /\ d = o \/ rq'[d].queue \subseteq rq[d].queue
                 /\ rq'[d].lock = IF d = o THEN NONE ELSE rq[d].lock
      BY <2>1, <2>2, <2>3, <2>5, <2>6 DEF SameQueues, SameStops, SameLocks, SameFlags
    <2>9. ASSUME NEW d \in CPU
          PROVE  /\ (rq[d].ipi => rq'[d].ipi) /\ (rq[d].resched => rq'[d].resched)
                 /\ rq[d].idle = "halted" /\ rq'[d].resched => rq[d].resched \/ rq'[d].ipi
      <3>1. CASE d = o
        BY <2>1, <2>3, <2>5, <2>7, <3>1 DEF SameFlags
      <3>2. CASE d # o
        BY <2>1, <2>2, <2>6, <3>2 DEF SameFlags
      <3> QED
        BY <3>1, <3>2
    <2>10. rq'[o].resched
      BY <2>3, <2>5 DEF SameFlags
    <2>11. Moves(c, t, r, o)
      BY <1>1, <1>2, <1>3, <1>4, <2>8, <2>9, <2>10 DEF Moves
    <2> QED
      BY <2>11, MovesDeep
  <1>5. CASE rq' = [rq EXCEPT ![o].lock = NONE] /\ task' = task
    BY <1>1, <1>2, <1>5, NothingMovedDeep
  <1> QED
    BY <1>2, <1>4, <1>5 DEF PushMove, Locked

LEMMA PullMoveDeep ==
    ASSUME Deep, NEW c \in CPU, PullMove(c)
    PROVE  DeepStep(c)
  <1>1. /\ Typed /\ at[c] \in FrameType /\ FrameOK(at[c], c, rq[c].curr)
        /\ at[c].pc = "both" /\ at[c].t = NONE /\ Unbalances(c)
    BY DeepFacts DEF PullMove, Unbalances
  <1>2. PICK r \in CPU, o \in CPU : r = at[c].r /\ o = at[c].o
    BY <1>1 DEF FrameOK
  <1>3. r # o
    BY <1>1, <1>2 DEF FrameOK
  <1>4. CASE \E p \in pushable_tasks(o) :
               /\ ~ task_running(p) /\ r \in task[p].allowed
               /\ Locked(rq', Moved(rq, p, o, r), o, NONE)
               /\ task' = [task EXCEPT ![p].cpu = r]
    <2>1. PICK p \in pushable_tasks(o) :
               /\ ~ task_running(p) /\ r \in task[p].allowed
               /\ Locked(rq', Moved(rq, p, o, r), o, NONE)
               /\ task' = [task EXCEPT ![p].cpu = r]
      BY <1>4
    <2>2. p \in Task /\ p \in rq[o].queue /\ ~ task[p].on_cpu
      <3>1. rq[o] \in RqType
        BY <1>1 DEF Typed
      <3> QED
        BY <2>1, <3>1 DEF pushable_tasks, RqType, task_running
    <2> DEFINE q == Moved(rq, p, o, r)
    <2>3. /\ q \in [CPU -> RqType] /\ SameStops(q, rq) /\ SameLocks(q, rq) /\ SameFlags(q, rq)
          /\ q[o].queue = rq[o].queue \ {p}
          /\ \A d \in CPU \ {r, o} : q[d].queue = rq[d].queue
          /\ \A d \in CPU : q[d].curr = rq[d].curr /\ q[d].wake_list = rq[d].wake_list
      BY <1>1, <1>3, <2>2, MovedFacts DEF Typed
    <2> HIDE DEF q
    <2>4. Locked(rq', q, o, NONE)
      BY <2>1 DEF q
    <2>5. SameQueues(rq', q) /\ SameStops(rq', q) /\ SameFlags(rq', q)
      BY <2>3, <2>4, UnlockOnly
    <2>6. rq'[o].lock = NONE /\ \A d \in CPU \ {o} : rq'[d] = q[d]
      BY <2>3, <2>4, UnlockOnly
    <2>7. ASSUME NEW d \in CPU
          PROVE  /\ rq'[d].curr = rq[d].curr /\ rq'[d].wake_list = rq[d].wake_list
                 /\ rq'[d].stop = rq[d].stop /\ rq'[d].idle = rq[d].idle
                 /\ d = r \/ rq'[d].queue \subseteq rq[d].queue
                 /\ rq'[d].lock = IF d = o THEN NONE ELSE rq[d].lock
      BY <2>3, <2>5, <2>6 DEF SameQueues, SameStops, SameLocks, SameFlags
    <2>8. \A d \in CPU : (rq'[d].ipi <=> rq[d].ipi) /\ (rq'[d].resched <=> rq[d].resched)
      BY <2>3, <2>5 DEF SameFlags
    <2>9. Moves(c, p, o, r)
      BY <1>1, <1>2, <1>3, <2>1, <2>2, <2>7, <2>8 DEF Moves
    <2> QED
      BY <2>9, MovesDeep
  <1>5. CASE rq' = [rq EXCEPT ![o].lock = NONE] /\ task' = task
    BY <1>1, <1>2, <1>5, NothingMovedDeep
  <1> QED
    BY <1>2, <1>4, <1>5 DEF PullMove, Locked

-----------------------------------------------------------------------------
(* Requests to move a task *)

\* The stopper with frame f is about to move p to CPU d.
Serves(f, p, d) ==
    Stopping(f) /\ f.w = p /\ f.dst = d /\ (task[p].state = WAKING => p \in f.wl)

\* A request stays, unless it is the one CPU c is dealing with.
LEMMA RequestKept ==
    ASSUME Typed, NEW c \in CPU, Elsewhere(c), NEW p \in Task, NEW d \in CPU, Requested(p, d),
           task'[p].cpu = task[p].cpu, task'[p].state = WAKING => task[p].state = WAKING,
           \A e \in CPU : rq[e].stop \subseteq rq'[e].stop,
           at[c].pc # "sca_stop", task[p].cpu = c => ~ Serves(at[c], p, d)
    PROVE  Requested(p, d)'
  <1>0. PICK e \in CPU : e = task[p].cpu
    BY DEF Typed, TaskType
  <1>1. CASE \E q \in Task : <<p, d, q>> \in rq[e].stop
    BY <1>0, <1>1 DEF Requested
  <1>2. CASE \E b \in CPU : /\ at[b].pc = "sca_stop" /\ at[b].w = p
                            /\ at[b].r = e /\ at[b].dst = d
    <2>1. PICK b \in CPU : at[b].pc = "sca_stop" /\ at[b].w = p /\ at[b].r = e /\ at[b].dst = d
      BY <1>2
    <2>2. at'[b] = at[b]
      BY <2>1 DEF Elsewhere
    <2> QED
      BY <1>0, <2>1, <2>2 DEF Requested
  <1>3. CASE Serves(at[e], p, d)
    <2>1. at'[e] = at[e]
      BY <1>0, <1>3 DEF Elsewhere
    <2> QED
      BY <1>0, <1>3, <2>1 DEF Requested, Serves
  <1> QED
    BY <1>0, <1>1, <1>2, <1>3 DEF Requested, Serves

LEMMA LeaveQueueDeep ==
    ASSUME Deep, NEW c \in CPU, NEW p \in Task, NEW r \in CPU, NEW e \in CPU, p = at[c].w,
           at[c].pc \in {"sca_rq", "mig_rq"}, Free(rq[r].lock), task[p].on_rq = "queued",
           task[p].cpu = r, ~ task[p].on_cpu, LeaveQueue(c, p, r, e),
           at[c].pc = "sca_rq" => e \in at[c].scan, at[c].pc = "mig_rq" => e \in task[p].allowed
    PROVE  DeepStep(c)
  <1> DEFINE mask == IF at[c].pc = "sca_rq" THEN at[c].scan ELSE task[p].allowed
             z == [rq[r] EXCEPT !.queue = rq[r].queue \ {p}]
             y == [task[p] EXCEPT !.on_rq = "migrating", !.cpu = e, !.allowed = mask]
             f == [Run EXCEPT !.pc = "move_dst", !.w = p, !.dst = e]
  <1>1. /\ IInv /\ Typed /\ at[c] \in FrameType /\ FrameOK(at[c], c, rq[c].curr) /\ rq[c].idle # "halted"
        /\ task[p].pi_lock = c /\ rq[r] \in RqType /\ task[p] \in TaskType
    BY DeepFacts DEF HoldsPi, Typed
  <1>2. task' = [task EXCEPT ![p] = y] /\ at' = [at EXCEPT ![c] = f] /\ rq' = [rq EXCEPT ![r] = z]
    BY DEF LeaveQueue
  <1>3. /\ z.queue = rq[r].queue \ {p} /\ z.curr = rq[r].curr /\ z.lock = rq[r].lock
        /\ z.wake_list = rq[r].wake_list /\ z.stop = rq[r].stop /\ z.resched = rq[r].resched
        /\ z.ipi = rq[r].ipi /\ z.idle = rq[r].idle
    BY <1>1 DEF RqType
  <1>4. e \in mask /\ (at[c].pc = "mig_rq" => mask = task[p].allowed)
    OBVIOUS
  <1> HIDE DEF mask
  <1>5. /\ y.state = task[p].state /\ y.on_rq = "migrating" /\ y.cpu = e /\ y.allowed = mask
        /\ y.pi_lock = task[p].pi_lock /\ y.cond = task[p].cond /\ y.step = task[p].step
        /\ y.preempt_active = task[p].preempt_active
    BY <1>1 DEF TaskType
  <1>6. f \in FrameType /\ f.pc = "move_dst" /\ f.w = p /\ f.dst = e /\ f.wl = {} /\ f.k = "none"
    BY PcNames DEF FrameType, Run
  <1> HIDE DEF y, z, f
  <1>7. rq'[r] = z /\ \A d \in CPU \ {r} : rq'[d] = rq[d]
    BY <1>1, <1>2 DEF Typed
  <1>8. task'[p] = y /\ \A x \in Task \ {p} : task'[x] = task[x]
    BY <1>1, <1>2 DEF Typed
  <1>9. ~ MayBlock(at[c]) /\ InTask(f) /\ at[c].k = "none"
    BY <1>1, <1>6 DEF FrameOK, MayBlock, InTask
  <1>10. task[p].state # SLEEP \/ task[p].preempt_active
    BY QueuedSleeps
  <1>11. Into(c, f)
    BY <1>2, <1>3, <1>6, <1>7 DEF Into
  <1>12. at'[c] = f /\ Elsewhere(c)
    BY <1>1, <1>11, IntoFrame
  <1>13. SleepStep(c)
    <2>1. \A x \in Task : ~ Waker(at[c], x)
      BY DEF Waker
    <2>2. rq'[c].curr = rq[c].curr
      BY <1>3, <1>7
    <2>3. SleepPlain(c, f)
      BY <1>5, <1>8, <1>9, <1>10, <2>1, <2>2 DEF SleepPlain
    <2> QED
      BY <1>1, <1>11, <2>3, PlainSleep
  <1>14. IdleStep(c)
    <2>1. \A d \in CPU : ~ Kicks(at[c], d) /\ rq[d] \in RqType
      BY <1>1 DEF Kicks, Typed
    <2>2. IdlePlain(c, f)
      BY <1>1, <1>3, <1>6, <1>7, <1>9, <2>1 DEF IdlePlain
    <2> QED
      BY <1>1, <1>11, <2>2, PlainIdle DEF Deep
  <1>15. OwnStep(c)
    <2>1. \A d \in CPU : rq'[d].lock = rq[d].lock /\ ~ OwnedRq(at[c], c, d)
      BY <1>1, <1>3, <1>7 DEF OwnedRq, RqLocks
    <2>2. \A x \in Task : task'[x].pi_lock = task[x].pi_lock /\ (OwnedPi(at[c], x) => OwnedPi(f, x))
      BY <1>5, <1>6, <1>8 DEF OwnedPi, HoldsPi
    <2>3. OwnPlain(c, f)
      BY <1>6, <2>1, <2>2 DEF OwnPlain
    <2> QED
      BY <1>1, <1>11, <2>3, PlainOwn DEF Deep
  <1>16. PlaceStep(c)
    <2>1. \A d \in CPU : rq[d].stop \subseteq rq'[d].stop
      BY <1>3, <1>7
    <2>2. ASSUME NEW x \in Task, x # p PROVE Undisturbed(x)
      <3>1. ASSUME NEW d \in task[x].allowed, Requested(x, d) PROVE Requested(x, d)'
        <4>1. d \in CPU
          BY <1>1 DEF Typed, TaskType
        <4>2. ~ Serves(at[c], x, d)
          BY <2>2 DEF Serves
        <4> QED
          BY <1>1, <1>8, <1>12, <2>1, <2>2, <3>1, <4>1, <4>2, RequestKept
      <3> QED
        BY <1>8, <2>2, <3>1 DEF Undisturbed
    <2>3. AimsOK(at[c])'
      BY <1>6, <1>12 DEF AimsOK
    <2>4. task'[p].cpu \in task'[p].allowed
      BY <1>4, <1>5, <1>8
    <2>5. \A x \in Task : /\ task'[x].on_rq = "migrating" =>
                                \/ task'[x].cpu \in task'[x].allowed
                                \/ task[x].on_rq = "migrating" /\ task'[x] = task[x]
                          /\ task'[x].allowed # task[x].allowed =>
                                task[x].pi_lock = c /\ Free(rq[task[x].cpu].lock)
      BY <1>1, <1>8, <2>4
    <2> QED
      BY <1>12, <2>2, <2>3, <2>4, <2>5 DEF PlaceStep
  <1> QED
    BY <1>13, <1>14, <1>15, <1>16 DEF DeepStep

\* A waking task that no waker holds is on the list of its CPU.
LEMMA WakingListed ==
    ASSUME Deep, NEW p \in Task, task[p].state = WAKING, task[p].cpu \notin task[p].allowed
    PROVE  p \in InList(task[p].cpu)
  <1>1. PICK b \in CPU : Bears(b, p)
    BY DEF Deep, IInv, Places, WakingOK
  <1>2. CASE p \in InList(b)
    BY <1>2 DEF Deep, IInv, Places, ListsExact
  <1>3. CASE at[b].pc \in QueuePcs /\ at[b].w = p
    <2>1. Relies(at[b], b) /\ AimsOK(at[b])
      BY DeepFacts
    <2> QED
      BY <1>3, <2>1 DEF Relies, AimsOK
  <1> QED
    BY <1>1, <1>2, <1>3 DEF Bears

LEMMA MigrateNotDeep ==
    ASSUME Deep, NEW c \in CPU, at[c].pc = "mig_rq", NEW p \in Task, p = at[c].w,
           ~ (task[p].cpu = c /\ at[c].dst \in task[p].allowed /\ task[p].on_rq = "queued"),
           rq' = rq, task' = [task EXCEPT ![p].pi_lock = NONE], at' = [at EXCEPT ![c] = Run]
    PROVE  DeepStep(c)
  <1>1. /\ IInv /\ Typed /\ at[c] \in FrameType /\ FrameOK(at[c], c, rq[c].curr) /\ rq[c].idle # "halted"
        /\ PlacedOK(p) /\ PiLocked(task', task, p, NONE)
    BY DeepFacts DEF Deep, Placed, PiLocked
  <1>2. SameTasks(task', task) /\ SameNotes(task', task)
    BY <1>1, PiUnlockOnly DEF Typed
  <1>3. task'[p].pi_lock = NONE /\ \A x \in Task \ {p} : task'[x] = task[x]
    BY <1>1, PiUnlockOnly DEF Typed
  <1>4. ~ MayBlock(at[c]) /\ InTask(Run) /\ at[c].k = "none" /\ at[c].wl = {} /\ Run.pc = "run"
    BY <1>1 DEF FrameOK, MayBlock, InTask, Run
  <1>5. Into(c, Run)
    BY RunFrame DEF Into
  <1>6. at'[c] = Run /\ Elsewhere(c)
    BY <1>1, <1>5, IntoFrame
  <1>7. SleepStep(c)
    <2>1. SleepPlain(c, Run)
      BY <1>2, <1>4 DEF SleepPlain, SameTasks, SameNotes, Waker
    <2> QED
      BY <1>1, <1>5, <2>1, PlainSleep
  <1>8. IdleStep(c)
    <2>1. \A d \in CPU : ~ Kicks(at[c], d) /\ rq[d] \in RqType
      BY <1>1 DEF Kicks, Typed
    <2>2. IdlePlain(c, Run)
      BY <1>1, <1>4, <2>1 DEF IdlePlain
    <2> QED
      BY <1>1, <1>5, <2>2, PlainIdle DEF Deep
  <1>9. OwnStep(c)
    <2>1. \A d \in CPU : ~ OwnedRq(at[c], c, d)
      BY DEF OwnedRq, RqLocks
    <2>2. \A x \in Task \ {p} : ~ OwnedPi(at[c], x)
      BY DEF OwnedPi
    <2>3. OwnPlain(c, Run)
      BY <1>3, <1>4, <2>1, <2>2 DEF OwnPlain
    <2> QED
      BY <1>1, <1>5, <2>3, PlainOwn DEF Deep
  <1>10. PlaceStep(c)
    <2>1. ASSUME NEW x \in Task,
                 \A d \in task[x].allowed : task[x].cpu = c => ~ Serves(at[c], x, d)
          PROVE  Undisturbed(x)
      <3>1. ASSUME NEW d \in task[x].allowed, Requested(x, d) PROVE Requested(x, d)'
        <4>1. d \in CPU
          BY <1>1 DEF Typed, TaskType
        <4>2. /\ task'[x].cpu = task[x].cpu /\ task'[x].state = task[x].state
              /\ \A b \in CPU : rq[b].stop \subseteq rq'[b].stop
          BY <1>2 DEF SameTasks
        <4> QED
          BY <1>1, <1>6, <2>1, <3>1, <4>1, <4>2, RequestKept
      <3> QED
        BY <1>2, <3>1 DEF Undisturbed, SameTasks
    <2>2. ASSUME NEW x \in Task
          PROVE  \/ Undisturbed(x)
                 \/ task'[x].cpu \in task'[x].allowed
                 \/ task'[x].on_rq = "no" /\ task'[x].state # WAKING
      <3>1. CASE x # p
        BY <2>1, <3>1 DEF Serves
      <3>2. CASE x = p /\ task[p].state = WAKING
        BY <1>4, <2>1, <3>2 DEF Serves
      <3>3. CASE x = p /\ ~ (task[p].cpu = c /\ at[c].dst \in task[p].allowed)
        BY <2>1, <3>3 DEF Serves
      <3>4. CASE x = p /\ task[p].on_rq # "queued" /\ task[p].state # WAKING
        <4>1. task[p].on_rq \in {"no", "migrating"}
          BY <1>1, <3>4 DEF Typed, TaskType
        <4> QED
          BY <1>1, <1>2, <3>4, <4>1 DEF PlacedOK, SameTasks
      <3> QED
        BY <3>1, <3>2, <3>3, <3>4
    <2>3. AimsOK(at[c])'
      BY <1>4, <1>6 DEF AimsOK
    <2> QED
      BY <1>2, <1>6, <2>2, <2>3 DEF PlaceStep, SameTasks
  <1> QED
    BY <1>7, <1>8, <1>9, <1>10 DEF DeepStep

LEMMA MigrateTaskDeep ==
    ASSUME Deep, NEW c \in CPU, MigrateTask(c)
    PROVE  DeepStep(c)
  <1>1. /\ IInv /\ at[c].pc = "mig_rq" /\ Free(rq[c].lock) /\ FrameOK(at[c], c, rq[c].curr)
    BY DeepFacts DEF MigrateTask
  <1>2. PICK p \in Task, e \in CPU : p = at[c].w /\ e = at[c].dst /\ rq[c].curr = STOP
    BY <1>1 DEF FrameOK
  <1>3. CASE /\ task[p].cpu = c /\ e \in task[p].allowed /\ task[p].on_rq = "queued"
             /\ LeaveQueue(c, p, c, e)
    <2>1. p \notin Stacks(c)
      BY <1>1, <1>2, Names DEF Stacks
    <2>2. ~ task[p].on_cpu
      BY <1>1, <1>3, <2>1 DEF IInv, Places, StacksExact
    <2> QED
      BY <1>1, <1>2, <1>3, <2>2, LeaveQueueDeep
  <1>4. CASE /\ ~ (task[p].cpu = c /\ e \in task[p].allowed /\ task[p].on_rq = "queued")
             /\ task' = [task EXCEPT ![p].pi_lock = NONE] /\ at' = [at EXCEPT ![c] = Run] /\ rq' = rq
    BY <1>1, <1>2, <1>4, MigrateNotDeep
  <1> QED
    BY <1>2, <1>3, <1>4 DEF MigrateTask

LEMMA ReleasedDeep ==
    ASSUME Deep, NEW c \in CPU, NEW p \in Task, NEW r \in CPU, NEW mask \in Masks, p = at[c].w,
           at[c].pc = "sca_rq", Free(rq[r].lock), task_rq_is(p, r), rq' = rq,
           task' = [task EXCEPT ![p].pi_lock = NONE, ![p].allowed = mask],
           NEW f \in FrameType, at' = [at EXCEPT ![c] = f], f.pc \in {"run", "sca_stop"},
           f.k = "none",
           \/ mask = task[p].allowed \/ r \in mask
           \/ f.pc = "sca_stop" /\ f.w = p /\ f.r = r /\ f.dst \in mask
           \/ task[p].on_rq = "no" /\ task[p].state # WAKING
    PROVE  DeepStep(c)
  <1> DEFINE y == [task[p] EXCEPT !.pi_lock = NONE, !.allowed = mask]
  <1>1. /\ IInv /\ Typed /\ at[c] \in FrameType /\ FrameOK(at[c], c, rq[c].curr) /\ rq[c].idle # "halted"
        /\ task[p].pi_lock = c /\ task[p] \in TaskType
    BY DeepFacts DEF HoldsPi, Typed
  <1>2. /\ y.state = task[p].state /\ y.on_rq = task[p].on_rq /\ y.cpu = task[p].cpu
        /\ y.allowed = mask /\ y.pi_lock = NONE /\ y.cond = task[p].cond
        /\ y.step = task[p].step /\ y.preempt_active = task[p].preempt_active
    BY <1>1 DEF TaskType
  <1>3. task' = [task EXCEPT ![p] = y]
    OBVIOUS
  <1> HIDE DEF y
  <1>4. task'[p] = y /\ \A x \in Task \ {p} : task'[x] = task[x]
    BY <1>1, <1>3 DEF Typed
  <1>5. ~ MayBlock(at[c]) /\ InTask(f) /\ ~ Stopping(at[c])
    BY <1>1 DEF FrameOK, MayBlock, InTask
  <1>6. Into(c, f)
    BY DEF Into
  <1>7. at'[c] = f
    BY <1>1, <1>6, IntoFrame
  <1>8. SleepPlain(c, f)
    BY <1>2, <1>4, <1>5 DEF SleepPlain, Waker
  <1>9. IdlePlain(c, f)
    <2>1. \A d \in CPU : ~ Kicks(at[c], d) /\ rq[d] \in RqType
      BY <1>1 DEF Kicks, Typed
    <2> QED
      BY <1>1, <1>5, <2>1 DEF IdlePlain
  <1>10. PlacePlain(c, f)
    <2>1. task[p].cpu = r /\ task[p].on_rq # "migrating"
      BY DEF task_rq_is
    <2>2. Settles(c, p)
      <3>1. CASE mask = task[p].allowed \/ r \in mask
        BY <1>1, <1>2, <1>4, <2>1, <3>1 DEF Settles
      <3>2. CASE f.pc = "sca_stop" /\ f.w = p /\ f.r = r /\ f.dst \in mask
        <4>1. Requested(p, f.dst)'
          BY <1>2, <1>4, <1>7, <2>1, <3>2 DEF Requested
        <4> QED
          BY <1>1, <1>2, <1>4, <2>1, <3>2, <4>1 DEF Settles
      <3>3. CASE task[p].on_rq = "no" /\ task[p].state # WAKING
        BY <1>1, <1>2, <1>4, <2>1, <3>3 DEF Settles
      <3> QED
        BY <3>1, <3>2, <3>3
    <2>3. \A x \in Task \ {p} : Settles(c, x)
      BY <1>4 DEF Settles
    <2> QED
      BY <1>5, <2>2, <2>3 DEF PlacePlain
  <1>11. OwnPlain(c, f)
    <2>1. \A d \in CPU : ~ OwnedRq(at[c], c, d)
      BY DEF OwnedRq, RqLocks
    <2>2. \A x \in Task \ {p} : ~ OwnedPi(at[c], x)
      BY DEF OwnedPi
    <2> QED
      BY <1>2, <1>4, <2>1, <2>2 DEF OwnPlain
  <1> QED
    BY <1>6, <1>8, <1>9, <1>10, <1>11, PlainDeep

LEMMA AllowedRqLockDeep ==
    ASSUME Deep, NEW c \in CPU, AllowedRqLock(c)
    PROVE  DeepStep(c)
  <1>1. /\ at[c].pc = "sca_rq" /\ FrameOK(at[c], c, rq[c].curr) /\ at[c] \in FrameType
        /\ Free(rq[at[c].r].lock)
    BY DeepFacts DEF AllowedRqLock
  <1>2. PICK p \in Task, r \in CPU, mask \in Masks : p = at[c].w /\ r = at[c].r /\ mask = at[c].scan
    BY <1>1 DEF FrameOK
  <1> DEFINE released == [task EXCEPT ![p].pi_lock = NONE, ![p].allowed = mask]
  <1>3. Run \in FrameType /\ Run.pc = "run" /\ Run.k = "none"
    BY RunFrame DEF Run
  <1>4. CASE task' = [task EXCEPT ![p].pi_lock = NONE] /\ Goto(c, "sca_pi") /\ rq' = rq
    BY <1>1, <1>2, <1>4, AllowedAgainDeep
  <1>5. CASE /\ task' = released /\ at' = [at EXCEPT ![c] = Run] /\ rq' = rq /\ task_rq_is(p, r)
             /\ mask = task[p].allowed \/ r \in mask \/ (task[p].on_rq = "no" /\ task[p].state # WAKING)
    BY <1>1, <1>2, <1>3, <1>5, ReleasedDeep
  <1>6. CASE /\ task' = released /\ rq' = rq /\ task_rq_is(p, r)
             /\ \E d \in mask : at' = [at EXCEPT ![c].pc = "sca_stop", ![c].dst = d]
    <2>1. PICK d \in mask : at' = [at EXCEPT ![c].pc = "sca_stop", ![c].dst = d]
      BY <1>6
    <2> DEFINE f == [at[c] EXCEPT !.pc = "sca_stop", !.dst = d]
    <2>2. d \in CPU
      BY SmpAssumption
    <2>3. at' = [at EXCEPT ![c] = f]
      BY <2>1
    <2>4. f \in FrameType /\ f.pc = "sca_stop" /\ f.dst = d /\ f.w = p /\ f.r = r /\ f.k = at[c].k
      BY <1>1, <1>2, <2>2, PcNames DEF FrameType
    <2> HIDE DEF f
    <2>5. at[c].k = "none"
      BY <1>1 DEF FrameOK
    <2> QED
      BY <1>1, <1>2, <1>6, <2>3, <2>4, <2>5, ReleasedDeep
  <1>7. CASE /\ task_rq_is(p, r) /\ ~ task_running(p) /\ task[p].on_rq = "queued"
             /\ \E d \in mask : LeaveQueue(c, p, r, d)
    <2>1. PICK d \in mask : LeaveQueue(c, p, r, d)
      BY <1>7
    <2>2. d \in CPU /\ task[p].cpu = r /\ ~ task[p].on_cpu
      BY <1>7, SmpAssumption DEF task_rq_is, task_running
    <2> QED
      BY <1>1, <1>2, <1>7, <2>1, <2>2, LeaveQueueDeep
  <1> QED
    BY <1>2, <1>4, <1>5, <1>6, <1>7 DEF AllowedRqLock, AllowedBlocked

-----------------------------------------------------------------------------
(* The pending wakeups are taken off the list *)

LEMMA ListTakenDeep ==
    ASSUME Deep, NEW c \in CPU, at[c].pc \in {"run", "idle_pending"}, NEW f, ListTaken(c, f),
           rq'[c].resched = rq[c].resched, rq'[c].idle \in {"off", "polling"},
           rq'[c].idle = "polling" => rq[c].idle = "polling",
           f.pc = "pending" \/ f.pc = f.ret, at[c].pc = "run" => f.ret # "lock"
    PROVE  /\ Into(c, f) /\ SleepStep(c) /\ IdleStep(c) /\ OwnStep(c) /\ ~ Stopping(at[c])
           /\ at[c].wl = {} /\ AimsOK(at[c])'
  <1>1. /\ IInv /\ Typed /\ at[c] \in FrameType /\ FrameOK(at[c], c, rq[c].curr)
        /\ DozeOK(c) /\ ToldOK(c)
    BY DeepFacts
  <1>2. /\ task' = task /\ \A d \in CPU \ {c} : rq'[d] = rq[d]
        /\ \A d \in CPU : rq'[d].queue = rq[d].queue /\ rq'[d].curr = rq[d].curr /\ rq'[d].lock = rq[d].lock
        /\ f \in FrameType /\ f.k = "none" /\ f.pc \in {"pending", "run", "lock", "mig_pi"}
        /\ rq'[c].wake_list = {}
    BY DEF ListTaken
  <1>3. ~ MayBlock(at[c]) /\ at[c].k = "none" /\ ~ Stopping(at[c]) /\ at[c].wl = {}
    BY <1>1 DEF FrameOK, MayBlock
  <1>4. at[c].pc = "run" => InTask(f)
    BY <1>2 DEF InTask
  <1>5. at[c].pc = "idle_pending" => ~ InTask(at[c]) /\ rq'[c].idle = "off"
    BY <1>1 DEF InTask, DozeOK
  <1>6. Into(c, f)
    BY <1>2 DEF Into, ListTaken
  <1>7. at'[c] = f /\ Elsewhere(c)
    BY <1>1, <1>6, IntoFrame
  <1>8. SleepStep(c)
    <2>1. SleepPlain(c, f)
      BY <1>2, <1>4, <1>5 DEF SleepPlain, Waker
    <2> QED
      BY <1>1, <1>6, <2>1, PlainSleep
  <1>9. IdleStep(c)
    <2>1. \A d \in CPU : ~ Kicks(at[c], d)
      BY DEF Kicks
    <2>2. DozeOK(c)'
      BY <1>1, <1>2, <1>4, <1>5, <1>7 DEF DozeOK
    <2>3. ToldOK(c)'
      BY <1>1, <1>2, <1>3, <1>7 DEF ToldOK
    <2>4. \A d \in CPU \ {c} : ToldElsewhere(c, d)
      BY <1>2 DEF ToldElsewhere
    <2>5. \A d \in CPU : rq'[d].wake_list # {} => rq[d].wake_list # {}
      BY <1>2
    <2> QED
      BY <1>2, <1>7, <2>1, <2>2, <2>3, <2>4, <2>5 DEF IdleStep
  <1>10. OwnStep(c)
    <2>1. \A d \in CPU : ~ OwnedRq(at[c], c, d)
      BY DEF OwnedRq, RqLocks
    <2>2. \A x \in Task : ~ OwnedPi(at[c], x)
      BY <1>3 DEF OwnedPi, HoldsPi
    <2>3. OwnPlain(c, f)
      BY <1>2, <2>1, <2>2 DEF OwnPlain
    <2> QED
      BY <1>1, <1>6, <2>3, PlainOwn DEF Deep
  <1>11. AimsOK(at[c])'
    BY <1>2, <1>7 DEF AimsOK
  <1> QED
    BY <1>3, <1>6, <1>8, <1>9, <1>10, <1>11

LEMMA ListTakenPlace ==
    ASSUME Deep, NEW c \in CPU, at[c].pc \in {"run", "idle_pending"}, NEW f, ListTaken(c, f),
           rq'[c].stop = rq[c].stop, Into(c, f), ~ Stopping(at[c])
    PROVE  PlaceStep(c)
  <1>1. IInv /\ Typed
    BY DeepFacts
  <1>2. /\ task' = task /\ \A d \in CPU : rq'[d].stop = rq[d].stop
        /\ f.pc \in {"pending", "run", "lock", "mig_pi"}
    BY DEF ListTaken
  <1>3. \A p \in Task : Settles(c, p)
    BY <1>2 DEF Settles
  <1>4. PlacePlain(c, f)
    BY <1>2, <1>3 DEF PlacePlain
  <1> QED
    BY <1>1, <1>4, PlainPlace

LEMMA SchedulerIpiDeep ==
    ASSUME Deep, NEW c \in CPU, SchedulerIpi(c)
    PROVE  DeepStep(c)
  <1>1. IInv /\ at[c].pc = "run"
    BY DeepFacts DEF SchedulerIpi
  <1>2. PICK f, z : Takes(z, c, f, "run") /\ z.stop = rq[c].stop /\ z.resched = rq[c].resched
                    /\ z.idle \in {"off", "polling"} /\ (z.idle = "polling" => rq[c].idle = "polling")
    BY <1>1, SchedulerIpiTakes
  <1>3. /\ ListTaken(c, f) /\ f.ret = "run" /\ f.pc \in {"pending", "run"}
        /\ rq'[c].stop = rq[c].stop /\ rq'[c].resched = rq[c].resched
        /\ rq'[c].idle \in {"off", "polling"} /\ (rq'[c].idle = "polling" => rq[c].idle = "polling")
    BY <1>2 DEF Takes
  <1>4. Into(c, f) /\ SleepStep(c) /\ IdleStep(c) /\ OwnStep(c) /\ ~ Stopping(at[c])
    BY <1>1, <1>3, ListTakenDeep
  <1>5. PlaceStep(c)
    BY <1>1, <1>3, <1>4, ListTakenPlace
  <1> QED
    BY <1>4, <1>5 DEF DeepStep

LEMMA IdlePendingDeep ==
    ASSUME Deep, NEW c \in CPU, IdlePending(c)
    PROVE  DeepStep(c)
  <1>1. IInv /\ at[c].pc = "idle_pending" /\ rq[c] \in RqType /\ DozeOK(c)
    BY DeepFacts DEF IdlePending
  <1>2. PICK f : Takes(rq[c], c, f, "lock")
    BY <1>1, IdlePendingTakes
  <1>3. /\ ListTaken(c, f) /\ f.ret = "lock" /\ f.pc \in {"pending", "lock"}
        /\ rq'[c].stop = rq[c].stop /\ rq'[c].resched = rq[c].resched /\ rq'[c].idle = rq[c].idle
    BY <1>2 DEF Takes
  <1>4. rq[c].idle \in {"off", "polling"}
    BY <1>1 DEF DozeOK, RqType
  <1>5. Into(c, f) /\ SleepStep(c) /\ IdleStep(c) /\ OwnStep(c) /\ ~ Stopping(at[c])
    BY <1>1, <1>3, <1>4, ListTakenDeep
  <1>6. PlaceStep(c)
    BY <1>1, <1>3, <1>5, ListTakenPlace
  <1> QED
    BY <1>5, <1>6 DEF DeepStep

LEMMA MigrationCpuStopDeep ==
    ASSUME Deep, NEW c \in CPU, MigrationCpuStop(c)
    PROVE  DeepStep(c)
  <1>1. IInv /\ Typed /\ at[c].pc = "run" /\ rq[c].curr = STOP /\ rq[c] \in RqType /\ DozeOK(c)
    BY DeepFacts DEF MigrationCpuStop
  <1>2. PICK f, z : \E work \in rq[c].stop :
              /\ Takes(z, c, f, "mig_pi") /\ z.stop = rq[c].stop \ {work}
              /\ z.resched = rq[c].resched /\ z.idle = rq[c].idle
              /\ f.w = work[1] /\ f.dst = work[2]
    BY <1>1, MigrationCpuStopTakes
  <1>3. PICK work \in rq[c].stop :
              /\ Takes(z, c, f, "mig_pi") /\ z.stop = rq[c].stop \ {work}
              /\ z.resched = rq[c].resched /\ z.idle = rq[c].idle
              /\ f.w = work[1] /\ f.dst = work[2]
    BY <1>2
  <1>4. /\ ListTaken(c, f) /\ f.ret = "mig_pi" /\ f.pc \in {"pending", "mig_pi"}
        /\ rq'[c].stop = rq[c].stop \ {work} /\ rq'[c].resched = rq[c].resched
        /\ rq'[c].idle = rq[c].idle
    BY <1>3 DEF Takes
  <1>5. rq[c].idle = "off"
    BY <1>1, Names DEF DozeOK, RqType
  <1>6. /\ Into(c, f) /\ SleepStep(c) /\ IdleStep(c) /\ OwnStep(c) /\ ~ Stopping(at[c])
        /\ at[c].wl = {} /\ AimsOK(at[c])'
    BY <1>1, <1>4, <1>5, ListTakenDeep
  <1>7. at'[c] = f /\ Elsewhere(c)
    BY <1>1, <1>6, IntoFrame
  <1>8. /\ task' = task /\ f.wl = rq[c].wake_list /\ Stopping(f)
        /\ \A d \in CPU \ {c} : rq'[d] = rq[d]
    BY <1>4 DEF ListTaken
  <1>9. ASSUME NEW p \in Task, task[p].cpu \notin task[p].allowed, NEW d \in task[p].allowed, Requested(p, d)
        PROVE  Requested(p, d)'
    <2>0. PICK e \in CPU : e = task[p].cpu
      BY <1>1 DEF Typed, TaskType
    <2>1. CASE \E q \in Task : <<p, d, q>> \in rq[e].stop
      <3>1. PICK q \in Task : <<p, d, q>> \in rq[e].stop
        BY <2>1
      <3>2. CASE e = c /\ work = <<p, d, q>>
        <4>1. f.w = p /\ f.dst = d
          BY <1>3, <3>2
        <4>2. task[p].state = WAKING => p \in f.wl
          <5>1. task[p].state = WAKING => p \in InList(c)
            BY <1>9, <2>0, <3>2, WakingListed
          <5> QED
            BY <1>6, <1>8, <5>1 DEF InList
        <4> QED
          BY <1>7, <1>8, <2>0, <3>2, <4>1, <4>2 DEF Requested
      <3>3. CASE e # c \/ work # <<p, d, q>>
        <4>1. <<p, d, q>> \in rq'[e].stop
          BY <1>4, <1>8, <3>1, <3>3
        <4> QED
          BY <1>8, <2>0, <4>1 DEF Requested
      <3> QED
        BY <3>2, <3>3
    <2>2. CASE \E b \in CPU : /\ at[b].pc = "sca_stop" /\ at[b].w = p
                              /\ at[b].r = e /\ at[b].dst = d
      <3>1. PICK b \in CPU : at[b].pc = "sca_stop" /\ at[b].w = p /\ at[b].r = e /\ at[b].dst = d
        BY <2>2
      <3>2. at'[b] = at[b]
        BY <1>1, <1>7, <3>1 DEF Elsewhere
      <3> QED
        BY <1>8, <2>0, <3>1, <3>2 DEF Requested
    <2>3. CASE Serves(at[e], p, d)
      <3>1. at'[e] = at[e]
        BY <1>6, <1>7, <2>3 DEF Elsewhere, Serves
      <3> QED
        BY <1>8, <2>0, <2>3, <3>1 DEF Requested, Serves
    <2> QED
      BY <1>9, <2>0, <2>1, <2>2, <2>3 DEF Requested, Serves
  <1>10. PlaceStep(c)
    <2>1. ASSUME NEW p \in Task PROVE Undisturbed(p) \/ task'[p].cpu \in task'[p].allowed
      <3>1. CASE task[p].cpu \in task[p].allowed
        BY <1>8, <3>1
      <3>2. CASE task[p].cpu \notin task[p].allowed
        BY <1>8, <1>9, <3>2 DEF Undisturbed
      <3> QED
        BY <3>1, <3>2
    <2> QED
      BY <1>6, <1>7, <1>8, <2>1 DEF PlaceStep
  <1> QED
    BY <1>6, <1>10 DEF DeepStep

-----------------------------------------------------------------------------
(* The idle loop *)

LEMMA IdleMovesDeep ==
    ASSUME Deep, NEW c \in CPU, at[c].pc = "run", rq[c].curr = IDLE, task' = task,
           NEW i \in {"off", "polling", "halted"}, rq' = [rq EXCEPT ![c].idle = i],
           NEW f \in FrameType, at' = [at EXCEPT ![c] = f], f.pc \in {"run", "idle_pending"},
           f.k = "none", i # "off" => f.pc = "run", i = "halted" => ~ rq[c].resched,
           rq[c].idle = "polling" /\ rq[c].resched => f.pc = "idle_pending"
    PROVE  DeepStep(c)
  <1> DEFINE z == [rq[c] EXCEPT !.idle = i]
  <1>1. /\ IInv /\ Typed /\ at[c] \in FrameType /\ FrameOK(at[c], c, rq[c].curr) /\ rq[c] \in RqType
        /\ DozeOK(c) /\ ToldOK(c)
    BY DeepFacts
  <1>2. /\ z.queue = rq[c].queue /\ z.curr = rq[c].curr /\ z.lock = rq[c].lock
        /\ z.wake_list = rq[c].wake_list /\ z.stop = rq[c].stop /\ z.resched = rq[c].resched
        /\ z.ipi = rq[c].ipi /\ z.idle = i
    BY <1>1 DEF RqType
  <1>3. rq' = [rq EXCEPT ![c] = z]
    OBVIOUS
  <1> HIDE DEF z
  <1>4. rq'[c] = z /\ \A d \in CPU \ {c} : rq'[d] = rq[d]
    BY <1>1, <1>3 DEF Typed
  <1>5. ~ MayBlock(at[c]) /\ ~ Stopping(at[c]) /\ at[c].k = "none" /\ (f.pc = "run" => InTask(f))
    BY <1>1 DEF FrameOK, MayBlock, InTask
  <1>6. Into(c, f)
    BY <1>2, <1>4 DEF Into
  <1>7. at'[c] = f /\ Elsewhere(c)
    BY <1>1, <1>6, IntoFrame
  <1>8. SleepStep(c)
    BY <1>7, Names DEF SleepStep, Waker
  <1>9. IdleStep(c)
    <2>1. DozeOK(c)'
      BY <1>2, <1>4, <1>5, <1>7 DEF DozeOK
    <2>2. ToldOK(c)'
      BY <1>1, <1>2, <1>4, <1>5, <1>7 DEF ToldOK
    <2>3. \A d \in CPU \ {c} : ToldElsewhere(c, d)
      BY <1>4 DEF ToldElsewhere
    <2>4. \A d \in CPU : ~ Kicks(at[c], d) /\ rq'[d].wake_list = rq[d].wake_list
      BY <1>2, <1>4 DEF Kicks
    <2> QED
      BY <1>2, <1>4, <1>7, <2>1, <2>2, <2>3, <2>4 DEF IdleStep
  <1>10. OwnStep(c)
    <2>1. \A d \in CPU : rq'[d].lock = rq[d].lock /\ ~ OwnedRq(at[c], c, d)
      BY <1>2, <1>4 DEF OwnedRq, RqLocks
    <2>2. \A x \in Task : ~ OwnedPi(at[c], x)
      BY <1>5 DEF OwnedPi, HoldsPi
    <2>3. OwnPlain(c, f)
      BY <2>1, <2>2 DEF OwnPlain
    <2> QED
      BY <1>1, <1>6, <2>3, PlainOwn DEF Deep
  <1>11. PlaceStep(c)
    <2>1. \A d \in CPU : rq'[d].stop = rq[d].stop
      BY <1>2, <1>4
    <2>2. \A p \in Task : Settles(c, p)
      BY DEF Settles
    <2>3. PlacePlain(c, f)
      BY <1>5, <2>1, <2>2 DEF PlacePlain
    <2> QED
      BY <1>1, <1>6, <2>3, PlainPlace
  <1> QED
    BY <1>8, <1>9, <1>10, <1>11 DEF DeepStep

LEMMA IdleLoopDeep ==
    ASSUME Deep, NEW c \in CPU, IdlePoll(c) \/ IdleHalt(c) \/ IdleExit(c)
    PROVE  DeepStep(c)
  <1>1. /\ IInv /\ at[c] \in FrameType /\ FrameOK(at[c], c, rq[c].curr) /\ DozeOK(c) /\ at[c].pc = "run"
    BY DeepFacts DEF IdlePoll, IdleHalt, IdleExit
  <1>2. rq[c].curr = IDLE /\ task' = task /\ at[c].k = "none"
    BY <1>1 DEF IdlePoll, IdleHalt, IdleExit, DozeOK, FrameOK
  <1>3. at' = at => at' = [at EXCEPT ![c] = at[c]]
    BY <1>1, AtRun
  <1>4. CASE IdlePoll(c)
    <2>1. PICK i \in {"off", "polling", "halted"} : i = "polling"
      OBVIOUS
    <2>2. rq' = [rq EXCEPT ![c].idle = i] /\ at' = [at EXCEPT ![c] = at[c]] /\ rq[c].idle = "off"
      BY <1>3, <1>4, <2>1 DEF IdlePoll
    <2> QED
      BY <1>1, <1>2, <2>1, <2>2, IdleMovesDeep
  <1>5. CASE IdleHalt(c)
    <2>1. PICK i \in {"off", "polling", "halted"} : i = "halted"
      OBVIOUS
    <2>2. rq' = [rq EXCEPT ![c].idle = i] /\ at' = [at EXCEPT ![c] = at[c]] /\ ~ rq[c].resched
      BY <1>3, <1>5, <2>1 DEF IdleHalt
    <2> QED
      BY <1>1, <1>2, <2>1, <2>2, IdleMovesDeep
  <1>6. CASE IdleExit(c)
    <2>1. PICK i \in {"off", "polling", "halted"} : i = "off"
      OBVIOUS
    <2>2. rq' = [rq EXCEPT ![c].idle = i] /\ Goto(c, "idle_pending")
      BY <1>6, <2>1 DEF IdleExit
    <2>3. PICK f \in FrameType : f.pc = "idle_pending" /\ SameFrame(f, at[c]) /\ at' = [at EXCEPT ![c] = f]
      BY <1>1, <2>2, GotoFacts, PcNames
    <2>4. f.k = "none"
      BY <1>2, <2>3 DEF SameFrame
    <2> QED
      BY <1>1, <1>2, <2>1, <2>2, <2>3, <2>4, IdleMovesDeep
  <1> QED
    BY <1>4, <1>5, <1>6

-----------------------------------------------------------------------------
(* The current task: setting its state, testing its CONDITION, __schedule() *)

\* What such a step does to the queue of its CPU.
CurrQueue(c, f) ==
    /\ \A d \in CPU \ {c} : rq'[d] = rq[d]
    /\ rq'[c].curr = rq[c].curr /\ rq'[c].wake_list = rq[c].wake_list /\ rq'[c].stop = rq[c].stop
    /\ rq'[c].resched = rq[c].resched /\ rq'[c].ipi = rq[c].ipi /\ rq'[c].idle = rq[c].idle
    /\ rq'[c].queue \subseteq rq[c].queue
    /\ \/ rq'[c].lock = rq[c].lock /\ f.pc \in {"run", "lock"}
       \/ rq'[c].lock = c /\ f.pc \in {"pick", "local"}

\* And to the fields of the task that is current.
CurrTask(p, y) ==
    /\ task' = [task EXCEPT ![p] = y]
    /\ y.cpu = task[p].cpu /\ y.allowed = task[p].allowed /\ y.pi_lock = task[p].pi_lock
    /\ y.state # WAKING /\ y.on_rq # "migrating"

LEMMA CurrDeep ==
    ASSUME Deep, NEW c \in CPU, NEW p \in Task, rq[c].curr = p, at[c].pc \in {"run", "lock"},
           NEW f \in FrameType, at' = [at EXCEPT ![c] = f], CurrQueue(c, f),
           NEW y, CurrTask(p, y), f.pc = "local" => f.w # p, SleepStep(c)
    PROVE  DeepStep(c)
  <1>1. /\ IInv /\ Typed /\ at[c] \in FrameType /\ FrameOK(at[c], c, rq[c].curr) /\ DozeOK(c)
        /\ rq[c] \in RqType
    BY DeepFacts
  <1>2. ~ MayBlock(at[c]) /\ ~ Stopping(at[c]) /\ at[c].k = "none"
    BY <1>1 DEF FrameOK, MayBlock
  <1>3. task[p].on_rq = "queued"
    BY <1>1, <1>2, CurrentTask
  <1>4. task'[p] = y /\ \A x \in Task \ {p} : task'[x] = task[x]
    BY <1>1 DEF CurrTask, Typed
  <1>5. f.pc \in {"run", "lock", "pick", "local"} /\ rq[c].curr # IDLE
    BY Names DEF CurrQueue
  <1>6. Into(c, f)
    BY DEF Into, CurrQueue
  <1>7. at'[c] = f /\ Elsewhere(c)
    BY <1>1, <1>6, IntoFrame
  <1>8. IdleStep(c)
    <2>1. DozeOK(c)'
      BY <1>1, <1>5 DEF DozeOK, CurrQueue
    <2>2. ToldOK(c)'
      BY <1>5 DEF ToldOK, CurrQueue
    <2>3. \A d \in CPU \ {c} : ToldElsewhere(c, d)
      BY DEF ToldElsewhere, CurrQueue
    <2>4. \A d \in CPU : ~ Kicks(at[c], d) /\ rq'[d].wake_list = rq[d].wake_list
      BY DEF Kicks, CurrQueue
    <2>5. rq'[c].ipi = rq[c].ipi /\ rq[c].idle = "off" /\ at[c].pc # "idle_pending"
      BY <1>1, <1>5 DEF CurrQueue, DozeOK, RqType
    <2> QED
      BY <1>7, <2>1, <2>2, <2>3, <2>4, <2>5 DEF IdleStep
  <1>9. OwnStep(c)
    <2>1. \A d \in CPU : ~ OwnedRq(at[c], c, d)
      BY DEF OwnedRq, RqLocks
    <2>2. \A x \in Task : task'[x].pi_lock = task[x].pi_lock /\ ~ OwnedPi(at[c], x)
      BY <1>2, <1>4 DEF OwnedPi, HoldsPi, CurrTask
    <2>3. f.pc \in {"pick", "local"} => OwnedRq(f, c, c)
      BY DEF OwnedRq, RqLocks
    <2>4. \A d \in CPU : rq'[d].lock = rq[d].lock \/ (rq'[d].lock = c /\ OwnedRq(f, c, d))
      BY <2>3 DEF CurrQueue
    <2>5. f.pc \in LocalPcs => f.w # rq'[c].curr
      BY <1>5 DEF CurrQueue
    <2>6. OwnPlain(c, f)
      BY <2>1, <2>2, <2>4, <2>5 DEF OwnPlain
    <2> QED
      BY <1>1, <1>6, <2>6, PlainOwn DEF Deep
  <1>10. PlaceStep(c)
    <2>1. Settles(c, p)
      BY <1>3, <1>4 DEF Settles, CurrTask
    <2>2. \A x \in Task \ {p} : Settles(c, x)
      BY <1>4 DEF Settles
    <2>3. \A d \in CPU : rq'[d].stop = rq[d].stop
      BY DEF CurrQueue
    <2>4. PlacePlain(c, f)
      BY <1>2, <1>5, <2>1, <2>2, <2>3 DEF PlacePlain
    <2> QED
      BY <1>1, <1>6, <2>4, PlainPlace
  <1> QED
    BY <1>8, <1>9, <1>10 DEF DeepStep

\* The same for the sleeping of the other tasks.
CurrSleep(c, p, f, y) ==
    /\ y.state = SLEEP /\ task[p].state # SLEEP => f.pc = "run" /\ y.step = "test" /\ y.on_rq # "no"
    /\ y.on_rq = "no" => at[c].pc = "lock" /\ ~ task[p].preempt_active /\ y.step = task[p].step
    /\ task[p].preempt_active => y.preempt_active
    /\ at[c].pc = "run" => f.pc = "run" \/ (f.pc = "lock" /\ (y.preempt_active \/ y.step = "work"))
    /\ at[c].pc = "lock" => y.preempt_active \/ y.state # SLEEP \/ y.on_rq = "no"
    /\ y.step = "test" /\ task[p].step # "test" => f.pc = "run"
    /\ y.step # "test" /\ task[p].step = "test" => ~ y.cond \/ y.state # SLEEP
    /\ y.cond => task[p].cond

LEMMA CurrSleeps ==
    ASSUME Deep, NEW c \in CPU, NEW p \in Task, rq[c].curr = p, at[c].pc \in {"run", "lock"},
           NEW f \in FrameType, f.k = "none", at' = [at EXCEPT ![c] = f], CurrQueue(c, f),
           NEW y, CurrTask(p, y), CurrSleep(c, p, f, y)
    PROVE  SleepStep(c)
  <1>1. /\ IInv /\ Typed /\ at[c] \in FrameType /\ FrameOK(at[c], c, rq[c].curr)
    BY DeepFacts
  <1>2. ~ MayBlock(at[c]) /\ (at[c].pc = "lock" => ~ InTask(at[c]))
    BY <1>1 DEF FrameOK, MayBlock, InTask
  <1>3. task[p].on_rq = "queued"
    BY <1>1, <1>2, CurrentTask
  <1>4. task'[p] = y /\ \A x \in Task \ {p} : task'[x] = task[x]
    BY <1>1 DEF CurrTask, Typed
  <1>5. Into(c, f) /\ rq'[c].curr = p
    BY DEF Into, CurrQueue
  <1>6. at'[c] = f /\ Elsewhere(c)
    BY <1>1, <1>5, IntoFrame
  <1>7. f.pc = "run" => RunsOn(c, p)
    BY <1>5, <1>6 DEF RunsOn, InTask
  <1>8. \A x \in Task : ~ Waker(at[c], x)
    BY DEF Waker
  <1>9. \A x \in Task \ {p} : task'[x] = task[x] /\ rq[c].curr # x
    BY <1>4
  <1>10. y.cpu = task[p].cpu
    BY DEF CurrTask
  <1> QED
    BY <1>2, <1>3, <1>4, <1>5, <1>6, <1>7, <1>8, <1>9, <1>10 DEF SleepStep, CurrSleep

LEMMA SetCurrentStateDeep ==
    ASSUME Deep, NEW c \in CPU, SetCurrentState(c)
    PROVE  DeepStep(c)
  <1>1. PICK p \in Task : p = rq[c].curr
    BY DEF SetCurrentState
  <1> DEFINE y == [task[p] EXCEPT !.state = SLEEP, !.step = "test"]
  <1>2. /\ IInv /\ Typed /\ at[c] \in FrameType /\ FrameOK(at[c], c, rq[c].curr) /\ at[c].pc = "run"
        /\ task[p] \in TaskType /\ task[p].on_rq = "queued" /\ rq' = rq /\ at' = [at EXCEPT ![c] = at[c]]
    BY <1>1, DeepFacts, CurrentTask, AtRun DEF SetCurrentState
  <1>3. task' = [task EXCEPT ![p] = y]
    BY <1>1 DEF SetCurrentState
  <1>4. /\ y.state = SLEEP /\ y.on_rq = task[p].on_rq /\ y.cpu = task[p].cpu
        /\ y.allowed = task[p].allowed /\ y.pi_lock = task[p].pi_lock /\ y.cond = task[p].cond
        /\ y.step = "test" /\ y.preempt_active = task[p].preempt_active
    BY <1>2 DEF TaskType
  <1> HIDE DEF y
  <1>5. y.state # WAKING
    BY <1>4 DEF SLEEP, WAKING
  <1>6. CurrTask(p, y)
    BY <1>2, <1>3, <1>4, <1>5 DEF CurrTask
  <1>7. CurrQueue(c, at[c])
    BY <1>2 DEF CurrQueue
  <1>8. CurrSleep(c, p, at[c], y)
    BY <1>2, <1>4 DEF CurrSleep
  <1>9. at[c].k = "none"
    BY <1>2 DEF FrameOK
  <1>10. SleepStep(c)
    BY <1>1, <1>2, <1>6, <1>7, <1>8, <1>9, CurrSleeps
  <1> QED
    BY <1>1, <1>2, <1>6, <1>7, <1>10, CurrDeep

LEMMA TestConditionDeep ==
    ASSUME Deep, NEW c \in CPU, TestCondition(c)
    PROVE  DeepStep(c)
  <1>1. PICK p \in Task : p = rq[c].curr
    BY DEF TestCondition
  <1>2. /\ IInv /\ Typed /\ at[c] \in FrameType /\ FrameOK(at[c], c, rq[c].curr) /\ at[c].pc = "run"
        /\ task[p] \in TaskType /\ task[p].on_rq = "queued" /\ task[p].state # WAKING /\ rq' = rq
    BY <1>1, DeepFacts, CurrentTask, AtRun DEF TestCondition
  <1>3. at[c].k = "none"
    BY <1>2 DEF FrameOK
  <1>4. CASE /\ task' = [task EXCEPT ![p].state = RUNNING, ![p].step = "work", ![p].cond = FALSE]
             /\ at' = at
    <2> DEFINE y == [task[p] EXCEPT !.state = RUNNING, !.step = "work", !.cond = FALSE]
    <2>1. /\ y.state = RUNNING /\ y.on_rq = task[p].on_rq /\ y.cpu = task[p].cpu
          /\ y.allowed = task[p].allowed /\ y.pi_lock = task[p].pi_lock /\ y.cond = FALSE
          /\ y.step = "work" /\ y.preempt_active = task[p].preempt_active
      BY <1>2 DEF TaskType
    <2>2. task' = [task EXCEPT ![p] = y] /\ at' = [at EXCEPT ![c] = at[c]]
      BY <1>2, <1>4, AtRun
    <2> HIDE DEF y
    <2>3. y.state # WAKING /\ y.state # SLEEP
      BY <2>1 DEF RUNNING, SLEEP, WAKING
    <2>4. CurrTask(p, y)
      BY <1>2, <2>1, <2>2, <2>3 DEF CurrTask
    <2>5. CurrQueue(c, at[c])
      BY <1>2 DEF CurrQueue
    <2>6. CurrSleep(c, p, at[c], y)
      BY <1>2, <2>1, <2>3 DEF CurrSleep
    <2>7. SleepStep(c)
      BY <1>1, <1>2, <1>3, <2>2, <2>4, <2>5, <2>6, CurrSleeps
    <2> QED
      BY <1>1, <1>2, <2>2, <2>4, <2>5, <2>7, CurrDeep
  <1>5. CASE ~ task[p].cond /\ task' = [task EXCEPT ![p].step = "work"] /\ Goto(c, "lock")
    <2> DEFINE y == [task[p] EXCEPT !.step = "work"]
    <2>1. /\ y.state = task[p].state /\ y.on_rq = task[p].on_rq /\ y.cpu = task[p].cpu
          /\ y.allowed = task[p].allowed /\ y.pi_lock = task[p].pi_lock /\ y.cond = task[p].cond
          /\ y.step = "work" /\ y.preempt_active = task[p].preempt_active
      BY <1>2 DEF TaskType
    <2>2. task' = [task EXCEPT ![p] = y]
      BY <1>5
    <2> HIDE DEF y
    <2>3. PICK f \in FrameType : f.pc = "lock" /\ SameFrame(f, at[c]) /\ at' = [at EXCEPT ![c] = f]
      BY <1>2, <1>5, GotoFacts, PcNames
    <2>4. CurrTask(p, y)
      BY <1>2, <2>1, <2>2 DEF CurrTask
    <2>5. CurrQueue(c, f) /\ f.k = "none"
      BY <1>2, <1>3, <2>3 DEF CurrQueue, SameFrame
    <2>6. CurrSleep(c, p, f, y)
      BY <1>2, <1>5, <2>1, <2>3 DEF CurrSleep
    <2>7. SleepStep(c)
      BY <1>1, <1>2, <2>3, <2>4, <2>5, <2>6, CurrSleeps
    <2> QED
      BY <1>1, <1>2, <2>3, <2>4, <2>5, <2>7, CurrDeep
  <1> QED
    BY <1>1, <1>4, <1>5 DEF TestCondition

LEMMA PreemptDeep ==
    ASSUME Deep, NEW c \in CPU, Preempt(c)
    PROVE  DeepStep(c)
  <1>1. PICK p \in Task : p = rq[c].curr
    BY DEF Preempt
  <1> DEFINE y == [task[p] EXCEPT !.preempt_active = TRUE]
  <1>2. /\ IInv /\ Typed /\ at[c] \in FrameType /\ FrameOK(at[c], c, rq[c].curr) /\ at[c].pc = "run"
        /\ task[p] \in TaskType /\ task[p].on_rq = "queued" /\ task[p].state # WAKING /\ rq' = rq
        /\ Goto(c, "lock")
    BY <1>1, DeepFacts, CurrentTask, AtRun DEF Preempt
  <1>3. at[c].k = "none"
    BY <1>2 DEF FrameOK
  <1>4. /\ y.state = task[p].state /\ y.on_rq = task[p].on_rq /\ y.cpu = task[p].cpu
        /\ y.allowed = task[p].allowed /\ y.pi_lock = task[p].pi_lock /\ y.cond = task[p].cond
        /\ y.step = task[p].step /\ y.preempt_active = TRUE
    BY <1>2 DEF TaskType
  <1>5. task' = [task EXCEPT ![p] = y]
    BY <1>1 DEF Preempt
  <1> HIDE DEF y
  <1>6. PICK f \in FrameType : f.pc = "lock" /\ SameFrame(f, at[c]) /\ at' = [at EXCEPT ![c] = f]
    BY <1>2, GotoFacts, PcNames
  <1>7. CurrTask(p, y)
    BY <1>2, <1>4, <1>5 DEF CurrTask
  <1>8. CurrQueue(c, f) /\ f.k = "none"
    BY <1>2, <1>3, <1>6 DEF CurrQueue, SameFrame
  <1>9. CurrSleep(c, p, f, y)
    BY <1>2, <1>4, <1>6 DEF CurrSleep
  <1>10. SleepStep(c)
    BY <1>1, <1>2, <1>6, <1>7, <1>8, <1>9, CurrSleeps
  <1> QED
    BY <1>1, <1>2, <1>6, <1>7, <1>8, <1>10, CurrDeep

LEMMA ScheduleSignalledDeep ==
    ASSUME Deep, NEW c \in CPU, ScheduleSignalled(c)
    PROVE  DeepStep(c)
  <1>1. PICK p \in Task : p = rq[c].curr
    BY DEF ScheduleSignalled
  <1> DEFINE y == [task[p] EXCEPT !.state = RUNNING]
             f == SchedulePick(c)
  <1>2. /\ IInv /\ Typed /\ at[c] \in FrameType /\ FrameOK(at[c], c, rq[c].curr) /\ at[c].pc = "lock"
        /\ at' = [at EXCEPT ![c] = f] /\ Locked(rq', rq, c, c)
    BY DeepFacts DEF ScheduleSignalled, Locked
  <1>3. ~ MayBlock(at[c])
    BY <1>2 DEF FrameOK, MayBlock
  <1>4. task[p] \in TaskType /\ task[p].on_rq = "queued"
    BY <1>1, <1>2, <1>3, CurrentTask
  <1>5. /\ y.state = RUNNING /\ y.on_rq = task[p].on_rq /\ y.cpu = task[p].cpu
        /\ y.allowed = task[p].allowed /\ y.pi_lock = task[p].pi_lock /\ y.cond = task[p].cond
        /\ y.step = task[p].step /\ y.preempt_active = task[p].preempt_active
    BY <1>4 DEF TaskType
  <1>6. task' = [task EXCEPT ![p] = y]
    BY <1>1 DEF ScheduleSignalled
  <1> HIDE DEF y
  <1>7. y.state # WAKING /\ y.state # SLEEP
    BY <1>5 DEF RUNNING, SLEEP, WAKING
  <1>8. f \in FrameType /\ f.pc = "pick" /\ f.k = "none"
    BY PickFrame
  <1> HIDE DEF f
  <1>9. CurrQueue(c, f)
    <2>1. SameQueues(rq', rq) /\ SameStops(rq', rq) /\ SameFlags(rq', rq)
      BY <1>2, LockOnly DEF Typed
    <2>2. rq'[c].lock = c /\ \A d \in CPU \ {c} : rq'[d] = rq[d]
      BY <1>2, LockOnly DEF Typed
    <2> QED
      BY <1>8, <2>1, <2>2 DEF CurrQueue, SameQueues, SameStops, SameFlags
  <1>10. CurrTask(p, y)
    BY <1>4, <1>5, <1>6, <1>7 DEF CurrTask
  <1>11. CurrSleep(c, p, f, y)
    BY <1>2, <1>4, <1>5, <1>7 DEF CurrSleep
  <1>12. SleepStep(c)
    BY <1>1, <1>2, <1>8, <1>9, <1>10, <1>11, CurrSleeps
  <1> QED
    BY <1>1, <1>2, <1>8, <1>9, <1>10, <1>12, CurrDeep

LEMMA ScheduleBlocksDeep ==
    ASSUME Deep, NEW c \in CPU, ScheduleBlocks(c)
    PROVE  DeepStep(c)
  <1>1. PICK p \in Task : p = rq[c].curr
    BY DEF ScheduleBlocks
  <1> DEFINE y == [task[p] EXCEPT !.on_rq = "no"]
             z == [rq[c] EXCEPT !.lock = c, !.queue = rq[c].queue \ {p}]
  <1>2. /\ IInv /\ Typed /\ at[c] \in FrameType /\ FrameOK(at[c], c, rq[c].curr) /\ at[c].pc = "lock"
        /\ rq[c] \in RqType /\ ~ task[p].preempt_active
    BY <1>1, DeepFacts DEF ScheduleBlocks
  <1>3. ~ MayBlock(at[c]) /\ at[c].k = "none"
    BY <1>2 DEF FrameOK, MayBlock
  <1>4. task[p] \in TaskType /\ task[p].on_rq = "queued" /\ task[p].state # WAKING
    BY <1>1, <1>2, <1>3, CurrentTask
  <1>5. /\ y.state = task[p].state /\ y.on_rq = "no" /\ y.cpu = task[p].cpu
        /\ y.allowed = task[p].allowed /\ y.pi_lock = task[p].pi_lock /\ y.cond = task[p].cond
        /\ y.step = task[p].step /\ y.preempt_active = task[p].preempt_active
    BY <1>4 DEF TaskType
  <1>6. /\ z.queue = rq[c].queue \ {p} /\ z.curr = rq[c].curr /\ z.lock = c
        /\ z.wake_list = rq[c].wake_list /\ z.stop = rq[c].stop /\ z.resched = rq[c].resched
        /\ z.ipi = rq[c].ipi /\ z.idle = rq[c].idle
    BY <1>2 DEF RqType
  <1>7. task' = [task EXCEPT ![p] = y] /\ rq' = [rq EXCEPT ![c] = z]
    BY <1>1 DEF ScheduleBlocks
  <1> HIDE DEF y, z
  <1>8. rq'[c] = z /\ \A d \in CPU \ {c} : rq'[d] = rq[d]
    BY <1>2, <1>7 DEF Typed
  <1>9. PICK f \in FrameType : /\ at' = [at EXCEPT ![c] = f] /\ f.pc \in {"pick", "local"} /\ f.k = "none"
                               /\ f.pc = "local" => f.w # p
    <2>1. CASE at' = [at EXCEPT ![c] = SchedulePick(c)]
      BY <2>1, PickFrame
    <2>2. CASE \E q \in Worker \ {p} : at' = [at EXCEPT ![c].pc = "local", ![c].w = q, ![c].r = c]
      <3>1. PICK q \in Worker \ {p} : at' = [at EXCEPT ![c].pc = "local", ![c].w = q, ![c].r = c]
        BY <2>2
      <3> DEFINE f == [at[c] EXCEPT !.pc = "local", !.w = q, !.r = c]
      <3>2. at' = [at EXCEPT ![c] = f]
        BY <3>1
      <3>3. f \in FrameType /\ f.pc = "local" /\ f.w = q /\ f.k = at[c].k
        BY <1>2, PcNames, Names DEF FrameType
      <3> HIDE DEF f
      <3> QED
        BY <1>3, <3>1, <3>2, <3>3
    <2> QED
      BY <1>1, <2>1, <2>2 DEF ScheduleBlocks
  <1>10. CurrQueue(c, f)
    BY <1>6, <1>8, <1>9 DEF CurrQueue
  <1>11. CurrTask(p, y)
    BY <1>4, <1>5, <1>7 DEF CurrTask
  <1>12. CurrSleep(c, p, f, y)
    BY <1>2, <1>5 DEF CurrSleep
  <1>13. SleepStep(c)
    BY <1>1, <1>2, <1>9, <1>10, <1>11, <1>12, CurrSleeps
  <1> QED
    BY <1>1, <1>2, <1>9, <1>10, <1>11, <1>13, CurrDeep

LEMMA StopperSleepsDeep ==
    ASSUME Deep, NEW c \in CPU, StopperSleeps(c)
    PROVE  DeepStep(c)
  <1>1. /\ IInv /\ Typed /\ at[c] \in FrameType /\ FrameOK(at[c], c, rq[c].curr) /\ DozeOK(c)
        /\ at[c].pc = "run" /\ rq[c].curr = STOP /\ task' = task /\ rq' = rq /\ Goto(c, "lock")
        /\ rq[c] \in RqType
    BY DeepFacts DEF StopperSleeps
  <1>2. ~ MayBlock(at[c]) /\ ~ Stopping(at[c]) /\ at[c].k = "none"
    BY <1>1 DEF FrameOK, MayBlock
  <1>3. PICK f \in FrameType : f.pc = "lock" /\ SameFrame(f, at[c]) /\ at' = [at EXCEPT ![c] = f]
    BY <1>1, GotoFacts, PcNames
  <1>4. Into(c, f)
    BY <1>1, <1>3 DEF Into
  <1>5. at'[c] = f /\ Elsewhere(c)
    BY <1>1, <1>4, IntoFrame
  <1>6. SleepStep(c)
    BY <1>1, <1>5, Names DEF SleepStep, Waker
  <1>7. IdleStep(c)
    <2>1. rq[c].idle = "off" /\ rq[c].curr # IDLE
      BY <1>1, Names DEF DozeOK, RqType
    <2>2. DozeOK(c)' /\ ToldOK(c)'
      BY <1>1, <2>1 DEF DozeOK, ToldOK
    <2>3. \A d \in CPU \ {c} : ToldElsewhere(c, d)
      BY <1>1 DEF ToldElsewhere
    <2>4. \A d \in CPU : ~ Kicks(at[c], d)
      BY <1>1 DEF Kicks
    <2> QED
      BY <1>1, <1>5, <2>1, <2>2, <2>3, <2>4 DEF IdleStep
  <1>8. OwnStep(c)
    <2>1. \A d \in CPU : ~ OwnedRq(at[c], c, d)
      BY <1>1 DEF OwnedRq, RqLocks
    <2>2. \A x \in Task : ~ OwnedPi(at[c], x)
      BY <1>1, <1>2 DEF OwnedPi, HoldsPi
    <2>3. OwnPlain(c, f)
      BY <1>1, <1>3, <2>1, <2>2 DEF OwnPlain
    <2> QED
      BY <1>1, <1>4, <2>3, PlainOwn DEF Deep
  <1>9. PlaceStep(c)
    <2>1. \A p \in Task : Settles(c, p)
      BY <1>1 DEF Settles
    <2>2. PlacePlain(c, f)
      BY <1>1, <1>2, <1>3, <2>1 DEF PlacePlain
    <2> QED
      BY <1>1, <1>4, <2>2, PlainPlace
  <1> QED
    BY <1>6, <1>7, <1>8, <1>9 DEF DeepStep

LEMMA ScheduleRunningDeep ==
    ASSUME Deep, NEW c \in CPU, ScheduleRunning(c)
    PROVE  DeepStep(c)
  <1> DEFINE f == SchedulePick(c)
  <1>1. /\ IInv /\ Typed /\ at[c] \in FrameType /\ FrameOK(at[c], c, rq[c].curr)
        /\ at[c].pc = "lock" /\ task' = task /\ Locked(rq', rq, c, c) /\ at' = [at EXCEPT ![c] = f]
        /\ rq[c].curr \in Task => task[rq[c].curr].state = RUNNING \/ task[rq[c].curr].preempt_active
        /\ rq[c].idle # "halted"
    BY DeepFacts DEF ScheduleRunning, Locked
  <1>2. f \in FrameType /\ f.pc = "pick" /\ f.k = "none"
    BY PickFrame
  <1> HIDE DEF f
  <1>3. ~ MayBlock(at[c]) /\ ~ Stopping(at[c]) /\ at[c].k = "none" /\ ~ InTask(at[c]) /\ MayBlock(f)
    BY <1>1, <1>2 DEF FrameOK, MayBlock, InTask
  <1>4. SameQueues(rq', rq) /\ SameStops(rq', rq) /\ SameFlags(rq', rq)
    BY <1>1, LockOnly DEF Typed
  <1>5. rq'[c].lock = c /\ \A d \in CPU \ {c} : rq'[d] = rq[d]
    BY <1>1, LockOnly DEF Typed
  <1>6. Into(c, f)
    BY <1>1, <1>2, <1>4 DEF Into, SameQueues
  <1>7. at'[c] = f /\ Elsewhere(c)
    BY <1>1, <1>6, IntoFrame
  <1>8. SleepStep(c)
    <2>1. \A p \in Task : rq[c].curr = p => task[p].preempt_active \/ task[p].state # SLEEP
      BY <1>1 DEF RUNNING, SLEEP
    <2> QED
      BY <1>1, <1>3, <1>7, <2>1 DEF SleepStep, Waker
  <1>9. IdlePlain(c, f)
    <2>1. \A d \in CPU : ~ Kicks(at[c], d)
      BY <1>1 DEF Kicks
    <2> QED
      BY <1>1, <1>2, <1>3, <1>4, <2>1 DEF IdlePlain, SameQueues, SameFlags
  <1>10. OwnPlain(c, f)
    <2>1. \A d \in CPU : ~ OwnedRq(at[c], c, d)
      BY <1>1 DEF OwnedRq, RqLocks
    <2>2. \A x \in Task : ~ OwnedPi(at[c], x)
      BY <1>1, <1>3 DEF OwnedPi, HoldsPi
    <2>3. OwnedRq(f, c, c)
      BY <1>2 DEF OwnedRq, RqLocks
    <2> QED
      BY <1>1, <1>2, <1>5, <2>1, <2>2, <2>3 DEF OwnPlain
  <1>11. PlacePlain(c, f)
    <2>1. \A p \in Task : Settles(c, p)
      BY <1>1 DEF Settles
    <2> QED
      BY <1>1, <1>2, <1>3, <1>4, <2>1 DEF PlacePlain, SameStops
  <1> QED
    BY <1>1, <1>6, <1>8, <1>9, <1>10, <1>11, PlainIdle, PlainOwn, PlainPlace DEF DeepStep, Deep

LEMMA WakeUpProcessDeep ==
    ASSUME Deep, NEW c \in CPU, NEW p \in Task, WakeUpProcess(c, p)
    PROVE  DeepStep(c)
  <1> DEFINE f == [at[c] EXCEPT !.pc = "ttwu", !.w = p]
             y == [task[p] EXCEPT !.cond = TRUE]
             i == IF rq[c].idle = "halted" THEN "off" ELSE rq[c].idle
             z == [rq[c] EXCEPT !.idle = i]
  <1>1. /\ IInv /\ Typed /\ at[c] \in FrameType /\ FrameOK(at[c], c, rq[c].curr) /\ at[c].pc = "run"
        /\ task[p] \in TaskType /\ rq[c] \in RqType /\ DozeOK(c) /\ ToldOK(c)
    BY DeepFacts DEF WakeUpProcess, Typed
  <1>2. /\ at' = [at EXCEPT ![c] = f] /\ task' = [task EXCEPT ![p] = y]
        /\ rq' = [rq EXCEPT ![c] = z]
    BY DEF WakeUpProcess, Unhalted
  <1>3. i \in {"off", "polling"} /\ (i = "polling" <=> rq[c].idle = "polling")
    BY <1>1 DEF RqType
  <1> HIDE DEF i
  <1>4. /\ z.queue = rq[c].queue /\ z.curr = rq[c].curr /\ z.lock = rq[c].lock
        /\ z.wake_list = rq[c].wake_list /\ z.stop = rq[c].stop /\ z.resched = rq[c].resched
        /\ z.ipi = rq[c].ipi /\ z.idle = i
    BY <1>1 DEF RqType
  <1>5. /\ y.state = task[p].state /\ y.on_rq = task[p].on_rq /\ y.cpu = task[p].cpu
        /\ y.allowed = task[p].allowed /\ y.pi_lock = task[p].pi_lock
        /\ y.step = task[p].step /\ y.preempt_active = task[p].preempt_active
    BY <1>1 DEF TaskType
  <1>6. f \in FrameType /\ f.pc = "ttwu" /\ f.w = p /\ f.k = at[c].k
    BY <1>1, PcNames DEF FrameType
  <1> HIDE DEF f, y, z
  <1>7. rq'[c] = z /\ \A d \in CPU \ {c} : rq'[d] = rq[d]
    BY <1>1, <1>2 DEF Typed
  <1>8. task'[p] = y /\ \A x \in Task \ {p} : task'[x] = task[x]
    BY <1>1, <1>2 DEF Typed
  <1>9. ~ MayBlock(at[c]) /\ ~ Stopping(at[c]) /\ at[c].k = "none" /\ InTask(f)
    BY <1>1, <1>6 DEF FrameOK, MayBlock, InTask
  <1>10. Into(c, f)
    BY <1>2, <1>4, <1>6, <1>7 DEF Into
  <1>11. at'[c] = f /\ Elsewhere(c)
    BY <1>1, <1>10, IntoFrame
  <1>12. SleepStep(c)
    <2>1. Waker(at'[c], p) /\ \A x \in Task : ~ Waker(at[c], x)
      BY <1>1, <1>6, <1>11 DEF Waker
    <2>2. \A x \in Task : rq[c].curr = x => RunsOn(c, x)
      BY <1>4, <1>7, <1>9, <1>11 DEF RunsOn
    <2>3. \A x \in Task : /\ task'[x].state = task[x].state /\ task'[x].on_rq = task[x].on_rq
                          /\ task'[x].cpu = task[x].cpu /\ task'[x].step = task[x].step
                          /\ task'[x].preempt_active = task[x].preempt_active
                          /\ x # p => task'[x].cond = task[x].cond
      BY <1>5, <1>8
    <2> QED
      BY <1>1, <1>11, <2>1, <2>2, <2>3 DEF SleepStep
  <1>13. IdleStep(c)
    <2>1. DozeOK(c)'
      BY <1>1, <1>3, <1>4, <1>7, <1>9, <1>11 DEF DozeOK
    <2>2. ToldOK(c)'
      BY <1>1, <1>4, <1>6, <1>7, <1>9, <1>11 DEF ToldOK
    <2>3. \A d \in CPU \ {c} : ToldElsewhere(c, d)
      BY <1>7 DEF ToldElsewhere
    <2>4. \A d \in CPU : ~ Kicks(at[c], d) /\ rq'[d].wake_list = rq[d].wake_list
      BY <1>1, <1>4, <1>7 DEF Kicks
    <2> QED
      BY <1>1, <1>3, <1>4, <1>7, <1>11, <2>1, <2>2, <2>3, <2>4 DEF IdleStep
  <1>14. OwnStep(c)
    <2>1. \A d \in CPU : rq'[d].lock = rq[d].lock /\ ~ OwnedRq(at[c], c, d)
      BY <1>1, <1>4, <1>7 DEF OwnedRq, RqLocks
    <2>2. \A x \in Task : task'[x].pi_lock = task[x].pi_lock /\ ~ OwnedPi(at[c], x)
      BY <1>1, <1>5, <1>8, <1>9 DEF OwnedPi, HoldsPi
    <2>3. OwnPlain(c, f)
      BY <1>6, <2>1, <2>2 DEF OwnPlain
    <2> QED
      BY <1>1, <1>10, <2>3, PlainOwn DEF Deep
  <1>15. PlaceStep(c)
    <2>1. \A x \in Task : Settles(c, x)
      BY <1>5, <1>8 DEF Settles
    <2>2. \A d \in CPU : rq'[d].stop = rq[d].stop
      BY <1>4, <1>7
    <2>3. PlacePlain(c, f)
      BY <1>1, <1>6, <1>9, <2>1, <2>2 DEF PlacePlain
    <2> QED
      BY <1>1, <1>10, <2>3, PlainPlace
  <1> QED
    BY <1>12, <1>13, <1>14, <1>15 DEF DeepStep

-----------------------------------------------------------------------------
(* The invariant *)

LEMMA DeepInit == Init => Deep
  <1> SUFFICES ASSUME Init PROVE Deep
    OBVIOUS
  <1> DEFINE t(p) == [state |-> SLEEP, on_rq |-> "no", cpu |-> FirstCPU,
                      on_cpu |-> FALSE, pi_lock |-> NONE,
                      allowed |-> IF p \in Worker THEN {FirstCPU} ELSE CPU,
                      cond |-> FALSE, step |-> "work", preempt_active |-> FALSE]
             q == [lock |-> NONE, queue |-> {}, curr |-> IDLE, resched |-> FALSE, idle |-> "off",
                   wake_list |-> {}, ipi |-> FALSE, stop |-> {}]
  <1>1. IInv /\ task = [p \in Task |-> t(p)] /\ rq = [c \in CPU |-> q] /\ at = [c \in CPU |-> Run]
    BY IInvInit DEF Init
  <1>2. q.lock = NONE /\ q.queue = {} /\ q.idle = "off" /\ q.wake_list = {}
    OBVIOUS
  <1>3. ASSUME NEW p \in Task
        PROVE  /\ t(p).state = SLEEP /\ t(p).on_rq = "no" /\ t(p).pi_lock = NONE
               /\ t(p).cond = FALSE /\ t(p).step = "work"
    OBVIOUS
  <1> HIDE DEF t, q
  <1>4. /\ \A p \in Task : task[p] = t(p)
        /\ \A c \in CPU : rq[c] = q /\ at[c] = Run
    BY <1>1
  <1>5. Run.pc = "run"
    BY DEF Run
  <1>6. Sleepers
    BY <1>3, <1>4 DEF Sleepers, SleepOK
  <1>7. Idlers
    BY <1>2, <1>4, <1>5 DEF Idlers, DozeOK, ToldOK, ServedOK
  <1>8. Owners
    BY <1>2, <1>3, <1>4, <1>5, Names DEF Owners, OwnedOK
  <1>9. Placed
    <2>1. \A p \in Task : PlacedOK(p)
      BY <1>3, <1>4 DEF PlacedOK, SLEEP, WAKING
    <2>2. \A c \in CPU : AimsOK(at[c])
      BY <1>4, <1>5 DEF AimsOK
    <2> QED
      BY <2>1, <2>2 DEF Placed
  <1> QED
    BY <1>1, <1>6, <1>7, <1>8, <1>9 DEF Deep

LEMMA DeepStutters ==
    ASSUME Deep, UNCHANGED vars
    PROVE  Deep'
  <1>1. task' = task /\ rq' = rq /\ at' = at
    BY DEF vars
  <1>2. IInv'
    BY IInvStutters DEF Deep
  <1>3. Sleepers'
    BY <1>1 DEF Deep, Sleepers, SleepOK
  <1>4. Idlers'
    BY <1>1 DEF Deep, Idlers, DozeOK, ToldOK, ServedOK
  <1>5. Owners'
    BY <1>1 DEF Deep, Owners, OwnedOK
  <1>6. Placed'
    BY <1>1 DEF Deep, Placed, PlacedOK, Requested, AimsOK
  <1> QED
    BY <1>2, <1>3, <1>4, <1>5, <1>6 DEF Deep

LEMMA NextIsDeep ==
    ASSUME Deep, Next
    PROVE  \E c \in CPU : DeepStep(c)
  <1>1. ASSUME NEW c \in CPU, Background(c) \/ Preempt(c) \/ IdleHalt(c) \/ SchedulerIpi(c)
        PROVE  DeepStep(c)
    BY <1>1, IdleLoopDeep, StopperSleepsDeep, SetCurrentStateDeep, TestConditionDeep, PreemptDeep,
       MigrationCpuStopDeep, SchedulerIpiDeep DEF Background, Waiter, IdleLoop
  <1>2. ASSUME NEW c \in CPU, Schedule(c) PROVE DeepStep(c)
    BY <1>2, ScheduleRunningDeep, ScheduleSignalledDeep, ScheduleBlocksDeep, LocalTrylockDeep,
       LocalWakeDeep, PickNextTaskDeep, FinishSwitchDeep, FinishUnlockDeep, PostScheduleDeep
       DEF Schedule
  <1>3. ASSUME NEW c \in CPU, TryToWakeUp(c) \/ TtwuPending(c) PROVE DeepStep(c)
    BY <1>3, TtwuStateDeep, TtwuOnRqDeep, TtwuRemoteDeep, TtwuSelectDeep, TtwuQueueDeep,
       TtwuListDeep, TtwuKickDeep, IdlePendingDeep, PendingActivateDeep DEF TryToWakeUp, TtwuPending
  <1>4. ASSUME NEW c \in CPU, Balance(c) PROVE DeepStep(c)
    BY <1>4, PushBeginDeep, PushEndDeep, PostEndDeep, PullBeginDeep, BalTryDeep, BalLowDeep,
       BalHighDeep, PushMoveDeep, PullMoveDeep DEF Balance
  <1>5. ASSUME NEW c \in CPU, Affinity(c) PROVE DeepStep(c)
    BY <1>5, AllowedPiLockDeep, AllowedRqLockDeep, StopOneCpuDeep, JoinQueueDeep, MigratePiLockDeep,
       MigrateTaskDeep DEF Affinity
  <1>6. ASSUME NEW c \in CPU, NEW p \in Task, WakeUpProcess(c, p) PROVE DeepStep(c)
    BY <1>6, WakeUpProcessDeep
  <1>7. ASSUME NEW c \in CPU, NEW p \in Task, NEW mask \in Masks, SetCpusAllowed(c, p, mask)
        PROVE  DeepStep(c)
    BY <1>7, SetCpusAllowedDeep
  <1> QED
    BY <1>1, <1>2, <1>3, <1>4, <1>5, <1>6, <1>7 DEF Next, Section

LEMMA DeepNext == Deep /\ [Next]_vars => Deep'
  <1> SUFFICES ASSUME Deep, [Next]_vars PROVE Deep'
    OBVIOUS
  <1>1. CASE UNCHANGED vars
    BY <1>1, DeepStutters
  <1>2. CASE Next
    <2>1. IInv'
      BY IInvNext DEF Deep
    <2>2. PICK c \in CPU : DeepStep(c)
      BY <1>2, NextIsDeep
    <2> QED
      BY <2>1, <2>2, DeepKept
  <1> QED
    BY <1>1, <1>2

LEMMA DeepAlways == Spec => []Deep
  BY DeepInit, DeepNext, PTL DEF Spec

-----------------------------------------------------------------------------
(* The theorems *)

\* A wake_list that is not empty will be looked at, on any number of CPUs: the waker
\* that made it non-empty rings, and neither the idle loop leaving its polling nor an
\* interrupt that was acknowledged forgets an entry that came in late.
THEOREM WakeListServedHolds == Spec => []WakeListServed
  <1>1. Deep => WakeListServed
    BY DEF Deep, Idlers, ServedOK, WakeListServed
  <1> QED
    BY <1>1, DeepAlways, PTL

\* No wakeup is lost between set_current_state() and __schedule(): a task that is off
\* its queue although its CONDITION is true has a waker that has not changed its state yet.
THEOREM NoLostWakeupHolds == Spec => []NoLostWakeup
  <1>1. Deep => NoLostWakeup
    BY DEF Deep, Sleepers, SleepOK, Waker, NoLostWakeup
  <1> QED
    BY <1>1, DeepAlways, PTL

\* An idle CPU with a task on its queue has been told: TIF_NEED_RESCHED is set, and
\* unless it polls the flag an interrupt is pending too.
THEOREM IdleIsToldHolds == Spec => []IdleIsTold
  <1>1. ASSUME Deep PROVE IdleIsTold
    <2> SUFFICES ASSUME NEW c \in CPU, rq[c].queue # {}, rq[c].curr = IDLE, at[c].pc = "run"
                 PROVE  rq[c].resched /\ (rq[c].ipi \/ rq[c].idle # "halted")
      BY DEF IdleIsTold
    <2>1. DozeOK(c) /\ ToldOK(c) /\ FrameOK(at[c], c, rq[c].curr)
      BY <1>1, DeepFacts
    <2>2. ~ MayBlock(at[c])
      BY <2>1 DEF FrameOK, MayBlock
    <2> QED
      BY <2>1, <2>2 DEF DozeOK, ToldOK
  <1> QED
    BY <1>1, DeepAlways, PTL

\* set_cpus_allowed_ptr() is enforced: a task that is runnable or waking on a CPU
\* outside its mask has a request with the migration thread of that CPU, or somebody
\* is in the middle of moving it.
THEOREM AffinityEnforcedHolds == Spec => []AffinityEnforced
  <1>1. ASSUME Deep PROVE AffinityEnforced
    <2> SUFFICES ASSUME NEW p \in Task, NEW c \in CPU, c = task[p].cpu, NEW d \in task[p].allowed,
                        Requested(p, d)
                 PROVE  \/ \E q \in Task : <<p, d, q>> \in rq[c].stop
                        \/ \E b \in CPU : /\ at[b].pc = "sca_stop" /\ at[b].w = p
                                          /\ at[b].r = c /\ at[b].dst = d
                        \/ rq[c].curr = STOP /\ at[c].w = p /\ at[c].dst = d
      <3>1. \A p \in Task : task[p].cpu \in CPU
        BY <1>1, Types DEF Deep, IInv, Core, Typed, TaskType
      <3>2. \A p \in Task : PlacedOK(p)
        BY <1>1 DEF Deep, Placed
      <3> QED
        BY <3>1, <3>2 DEF AffinityEnforced, PlacedOK
    <2>1. FrameOK(at[c], c, rq[c].curr)
      BY <1>1, DeepFacts
    <2> QED
      BY <2>1 DEF Requested, FrameOK
  <1> QED
    BY <1>1, DeepAlways, PTL

\* The WARN_ON_ONCE() in set_task_cpu() never fires: a step moves a task to another CPU
\* only when the task is not blocked, or was preempted on its way to sleep.
THEOREM BlockedStaysHolds == Spec => BlockedStays
  <1> DEFINE Stays == \A p \in Task : task'[p].cpu # task[p].cpu =>
                                        task'[p].state # SLEEP \/ task[p].preempt_active
  <1>1. Deep /\ [Next]_vars => [Stays]_vars
    <2>1. ASSUME Deep, Next PROVE Stays
      BY <2>1, NextIsDeep DEF SleepStep, DeepStep
    <2> QED
      BY <2>1
  <1> QED
    BY <1>1, DeepAlways, PTL DEF Spec, BlockedStays

-----------------------------------------------------------------------------
(* No circle of waiting CPUs *)

Higher(f) == IF f.o < f.r THEN f.r ELSE f.o

\* What is waited for later in the order of the locks has the higher rank.
Rank(f) ==
    IF f.pc \in {"ttwu", "sca_pi", "mig_pi"} THEN 0
    ELSE IF f.pc = "ttwu_on_cpu" THEN 1
    ELSE IF f.pc = "local_pi" THEN 2
    ELSE IF f.pc = "remote_spin" THEN 3
    ELSE IF f.pc = "bal_try" THEN 5 + f.o
    ELSE IF f.pc = "bal_high" THEN 5 + Higher(f)
    ELSE 4

\* CPU c waits for CPU d: it holds the lock of a queue, or of a task, or it uses or moves
\* the task.
WaitsQueue(c, d) ==
    LET f == at[c] IN
    \/ f.pc \in {"remote_lock", "ttwu_queue", "sca_rq"} /\ rq[f.r].lock = d
    \/ f.pc \in {"lock", "pending", "post", "mig_rq"} /\ rq[c].lock = d
    \/ f.pc = "local_rq" /\ rq[c].lock = d /\ d # c
    \/ f.pc = "bal_low" /\ rq[Lower(f)].lock = d
    \/ f.pc = "move_dst" /\ rq[f.dst].lock = d

WaitsSecond(c, d) ==
    LET f == at[c] IN
    \/ f.pc = "bal_try" /\ ~ (f.o < f.r) /\ rq[f.o].lock = d
    \/ f.pc = "bal_high" /\ rq[Higher(f)].lock = d

WaitsTask(c, d) ==
    LET f == at[c] IN
    \/ f.pc \in {"ttwu", "local_pi", "sca_pi", "mig_pi"} /\ task[f.w].pi_lock = d
    \/ f.pc = "ttwu_on_cpu" /\ f.w \in Stacks(d)
    \/ f.pc = "remote_spin" /\ at[d].pc = "move_dst" /\ at[d].w = f.w

LEMMA WaitsOn ==
    ASSUME NEW c \in CPU, NEW d \in CPU, d \in WaitsFor(c)
    PROVE  WaitsQueue(c, d) \/ WaitsSecond(c, d) \/ WaitsTask(c, d)
  <1>1. CASE at[c].pc \in {"ttwu", "local_pi", "sca_pi", "mig_pi"}
    BY <1>1 DEF WaitsFor, WaitsTask
  <1>2. CASE at[c].pc \in {"remote_lock", "ttwu_queue", "sca_rq"}
    BY <1>2 DEF WaitsFor, WaitsQueue
  <1>3. CASE at[c].pc \in {"lock", "pending", "post", "mig_rq"}
    BY <1>3 DEF WaitsFor, WaitsQueue
  <1>4. CASE at[c].pc = "local_rq"
    BY <1>4 DEF WaitsFor, WaitsQueue
  <1>5. CASE at[c].pc = "bal_try"
    BY <1>5 DEF WaitsFor, WaitsSecond
  <1>6. CASE at[c].pc = "bal_low"
    BY <1>6 DEF WaitsFor, WaitsQueue, LowerOf, Lower
  <1>7. CASE at[c].pc = "move_dst"
    BY <1>7 DEF WaitsFor, WaitsQueue
  <1>8. CASE at[c].pc = "bal_high"
    BY <1>8 DEF WaitsFor, WaitsSecond, HigherOf, Higher
  <1>9. CASE at[c].pc = "ttwu_on_cpu"
    BY <1>9 DEF WaitsFor, WaitsTask
  <1>10. CASE at[c].pc = "remote_spin"
    BY <1>10 DEF WaitsFor, WaitsTask
  <1>11. CASE at[c].pc \notin {"ttwu", "local_pi", "sca_pi", "mig_pi", "remote_lock", "ttwu_queue",
                               "sca_rq", "lock", "pending", "post", "mig_rq", "local_rq", "bal_try",
                               "bal_low", "move_dst", "bal_high", "ttwu_on_cpu", "remote_spin"}
    BY <1>11 DEF WaitsFor
  <1> QED
    BY <1>1, <1>2, <1>3, <1>4, <1>5, <1>6, <1>7, <1>8, <1>9, <1>10, <1>11

\* Who holds a run queue's lock and waits does so for a queue further up.
LEMMA OwnerWaits ==
    ASSUME Deep, NEW d \in CPU, NEW e \in CPU, NEW x \in CPU, rq[x].lock = d, e \in WaitsFor(d)
    PROVE  Rank(at[d]) \in Nat /\ Rank(at[d]) > 5 + x
  <1>1. /\ OwnedRq(at[d], d, x) /\ FrameOK(at[d], d, rq[d].curr) /\ CPU \subseteq Nat
    BY DeepFacts, Names DEF OwnedOK
  <1>2. at[d].pc \in {"bal_try", "bal_high"} /\ d # NONE /\ WaitsSecond(d, e)
    <2>1. at[d].pc = "local_rq" => x # d \/ ~ WaitsQueue(d, e)
      BY DEF WaitsQueue
    <2> QED
      BY <1>1, <2>1, WaitsOn, Names DEF OwnedRq, RqLocks, WaitsQueue, WaitsSecond, WaitsTask
  <1>3. at[d].o \in Nat /\ at[d].r \in Nat /\ at[d].o # at[d].r
    BY <1>1, <1>2 DEF FrameOK
  <1>4. CASE at[d].pc = "bal_try"
    <2>1. x = at[d].r /\ ~ (at[d].o < at[d].r)
      BY <1>1, <1>2, <1>4 DEF OwnedRq, RqLocks, WaitsSecond
    <2>2. Rank(at[d]) = 5 + at[d].o
      BY <1>4 DEF Rank
    <2> QED
      BY <1>3, <2>1, <2>2
  <1>5. CASE at[d].pc = "bal_high"
    <2>1. x = Lower(at[d])
      BY <1>1, <1>5 DEF OwnedRq, RqLocks
    <2>2. Rank(at[d]) = 5 + Higher(at[d])
      BY <1>5 DEF Rank
    <2> QED
      BY <1>3, <2>1, <2>2 DEF Lower, Higher
  <1> QED
    BY <1>2, <1>4, <1>5

\* So does the rank grow along every chain of waiting CPUs.
LEMMA RankGrows ==
    ASSUME Deep, NEW c \in CPU, NEW d \in CPU, NEW e \in CPU, d \in WaitsFor(c), e \in WaitsFor(d)
    PROVE  Rank(at[c]) < Rank(at[d])
  <1>1. /\ IInv /\ FrameOK(at[c], c, rq[c].curr) /\ Relies(at[c], c) /\ OwnedOK(c)
        /\ FrameOK(at[d], d, rq[d].curr) /\ OwnedOK(d) /\ CPU \subseteq Nat
        /\ FrameOK(at[e], e, rq[e].curr)
    BY DeepFacts, Names
  <1>2. WaitsQueue(d, e) \/ WaitsSecond(d, e) \/ WaitsTask(d, e)
    BY WaitsOn
  <1>3. at[d].pc \in {"bal_try", "bal_high"} => Rank(at[d]) \in Nat /\ Rank(at[d]) >= 5
    <2>1. at[d].pc \in {"bal_try", "bal_high"} => \E x \in CPU : Rank(at[d]) = 5 + x
      BY <1>1 DEF Rank, Higher, FrameOK
    <2>2. \A x \in CPU : 5 + x \in Nat /\ 5 + x >= 5
      BY <1>1
    <2> QED
      BY <2>1, <2>2
  <1>4. ASSUME WaitsQueue(c, d) PROVE Rank(at[c]) < Rank(at[d])
    <2>1. PICK x \in CPU : rq[x].lock = d
      BY <1>1, <1>4 DEF WaitsQueue, FrameOK, Lower
    <2>2. Rank(at[c]) = 4
      BY <1>4 DEF WaitsQueue, Rank
    <2> QED
      BY <1>1, <2>1, <2>2, OwnerWaits
  <1>5. ASSUME WaitsSecond(c, d) PROVE Rank(at[c]) < Rank(at[d])
    <2>1. PICK x \in CPU : rq[x].lock = d /\ Rank(at[c]) = 5 + x
      BY <1>1, <1>5 DEF WaitsSecond, Rank, FrameOK, Higher
    <2> QED
      BY <1>1, <2>1, OwnerWaits
  <1>6. ASSUME at[c].pc \in {"ttwu", "local_pi", "sca_pi", "mig_pi"}, task[at[c].w].pi_lock = d
        PROVE  Rank(at[c]) < Rank(at[d])
    <2>1. PICK p \in Task : p = at[c].w
      BY <1>1, <1>6, Names DEF FrameOK
    <2>2. HoldsPi(at[d]) /\ at[d].w = p
      BY <1>1, <1>6, <2>1 DEF OwnedOK, OwnedPi
    <2>3. at[d].pc \notin {"ttwu", "local_pi", "sca_pi", "mig_pi"}
      BY <1>1, <2>2 DEF HoldsPi, FrameOK
    <2>4. CASE at[c].pc # "local_pi"
      BY <1>3, <1>6, <2>3, <2>4 DEF Rank
    <2>5. CASE at[c].pc = "local_pi"
      <3>1. p \in Worker /\ c = FirstCPU /\ p # rq[c].curr
        BY <1>1, <2>1, <2>5 DEF FrameOK, Relies, OwnedOK
      <3>2. at[d].pc # "ttwu_on_cpu"
        <4>1. p \notin Stacks(c)
          BY <2>5, <3>1 DEF Stacks
        <4>2. p \in Stacks(e) => task[p].cpu = e
          BY <1>1 DEF IInv, Places, StacksExact
        <4>3. p \notin Stacks(e)
          BY <1>1, <3>1, <4>1, <4>2 DEF IInv, Places, WorkersStay
        <4> QED
          BY <1>2, <2>2, <4>3 DEF WaitsQueue, WaitsSecond, WaitsTask
      <3>3. at[d].pc # "remote_spin"
        BY <1>1, <1>2, <2>2, <3>1 DEF WaitsQueue, WaitsSecond, WaitsTask, FrameOK
      <3>4. Rank(at[c]) = 2
        BY <2>5 DEF Rank
      <3>5. at[d].pc \notin {"bal_try", "bal_high"} => Rank(at[d]) = 4
        BY <2>3, <3>2, <3>3 DEF Rank
      <3> QED
        BY <1>3, <3>4, <3>5
    <2> QED
      BY <2>4, <2>5
  <1>7. ASSUME at[c].pc = "ttwu_on_cpu", at[c].w \in Stacks(d)
        PROVE  Rank(at[c]) < Rank(at[d])
    <2>1. PICK p \in Task : p = at[c].w /\ task[p].on_rq = "no"
      BY <1>1, <1>7 DEF FrameOK, Relies
    <2>2. at[d].pc # "switch"
      BY <1>2 DEF WaitsQueue, WaitsSecond, WaitsTask
    <2>3. rq[d].curr = p
      BY <1>7, <2>1, <2>2 DEF Stacks
    <2>4. MayBlock(at[d])
      BY <1>1, <2>1, <2>3 DEF IInv, Places, StacksExact
    <2>5. at[d].pc \notin {"ttwu", "sca_pi", "mig_pi", "ttwu_on_cpu"}
      BY <2>4 DEF MayBlock
    <2> QED
      BY <1>3, <1>7, <2>5 DEF Rank
  <1>8. ASSUME at[c].pc = "remote_spin", at[d].pc = "move_dst"
        PROVE  Rank(at[c]) < Rank(at[d])
    BY <1>8 DEF Rank
  <1> QED
    BY <1>4, <1>5, <1>6, <1>7, <1>8, WaitsOn DEF WaitsTask

\* No circle of CPUs waits for each other, on any number of CPUs: pi_lock before
\* rq->lock, the queues from low to high in double_lock_balance(), the trylocks, the wait
\* for p->on_cpu in try_to_wake_up() and the one for TASK_ON_RQ_MIGRATING.
THEOREM NoDeadlockHolds == Spec => []NoDeadlock
  <1>1. ASSUME Deep PROVE NoDeadlock
    <2> SUFFICES ASSUME NEW S \in (SUBSET CPU) \ {{}}, \A c \in S : WaitsFor(c) \cap S # {}
                 PROVE  FALSE
      BY DEF NoDeadlock
    <2>1. PICK b \in CPU : \A c \in CPU : c <= b
      BY GreatestNat, SmpAssumption
    <2>2. ASSUME NEW c \in S PROVE Rank(at[c]) \in Nat /\ Rank(at[c]) <= 5 + b
      <3>1. FrameOK(at[c], c, rq[c].curr) /\ CPU \subseteq Nat
        BY <1>1, DeepFacts, Names
      <3>2. CASE at[c].pc \in {"bal_try", "bal_high"}
        <4>1. PICK x \in CPU : Rank(at[c]) = 5 + x
          BY <3>1, <3>2 DEF Rank, Higher, FrameOK
        <4> QED
          BY <2>1, <3>1, <4>1
      <3>3. CASE at[c].pc \notin {"bal_try", "bal_high"}
        BY <2>1, <3>1, <3>3 DEF Rank
      <3> QED
        BY <3>2, <3>3
    <2> DEFINE T == {5 + b - Rank(at[c]) : c \in S}
    <2>3. T \in SUBSET Nat /\ T # {}
      BY <2>1, <2>2, Names
    <2>4. PICK n \in T : \A m \in T : n <= m
      BY <2>3, LeastNat
    <2>5. PICK c \in S : n = 5 + b - Rank(at[c])
      BY <2>4
    <2>6. PICK d \in S : d \in WaitsFor(c)
      OBVIOUS
    <2>7. PICK e \in S : e \in WaitsFor(d)
      OBVIOUS
    <2>8. Rank(at[c]) < Rank(at[d])
      BY <1>1, <2>6, <2>7, RankGrows
    <2>9. 5 + b - Rank(at[d]) \in T
      OBVIOUS
    <2>10. n <= 5 + b - Rank(at[d])
      BY <2>4, <2>9
    <2> HIDE DEF T
    <2> QED
      BY <2>1, <2>2, <2>5, <2>8, <2>10, Names
  <1> QED
    BY <1>1, DeepAlways, PTL
=============================================================================
