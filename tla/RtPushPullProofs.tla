-------------------------- MODULE RtPushPullProofs --------------------------
(***************************************************************************)
(* For any number of CPUs, tasks and priorities: what the balancing of     *)
(* real-time tasks decides by always agrees with the queues, and no task   *)
(* is put on a CPU it may not use, whatever happened while the lock of its *)
(* queue was dropped.                                                      *)
(*                                                                         *)
(* Every operator that takes a state of the scheduler and returns one      *)
(* keeps the books of all CPUs (Books); the actions follow from that.      *)
(***************************************************************************)
EXTENDS RtPushPull, SetLemmas

-----------------------------------------------------------------------------
(* The inductive invariant *)

RqType == [curr : Task \cup {IDLE}, queue : Seq(Task), pushable : Seq(Task), highest : Prio,
           next : Prio, migratory : Nat, overloaded : BOOLEAN, resched : BOOLEAN,
           post : BOOLEAN, online : BOOLEAN]

TaskType == [prio : Prio, mask : Masks, cpu : CPU, on_rq : BOOLEAN]

StateType ==
    [rq : [CPU -> RqType],
     rd : [rto_mask : SUBSET CPU, rto_count : Int, cpupri : [CPU -> Prio \cup {INVALID}]],
     task : [Task -> TaskType]]

\* The real-time tasks on the queue of CPU c, and those of Q that may run elsewhere.
Queued(s, c) == {p \in Task : rt_task(s, p) /\ s.task[p].on_rq /\ s.task[p].cpu = c}
Movable(s, Q) == {p \in Q : migratory(s, p)}

\* l is a list of the tasks P.
ListOf(l, P) == l \in Seq(Task) /\ Distinct(l) /\ Elems(l) = P

InOrder(s, l) ==
    \A i, j \in 1 .. Len(l) : i < j => s.task[l[i]].prio <= s.task[l[j]].prio

\* x is the best priority of the tasks P.
Best(s, x, P) ==
    /\ \A p \in P : x <= s.task[p].prio
    /\ IF P = {} THEN x = MAX_RT_PRIO ELSE \E p \in P : x = s.task[p].prio

\* The pushable tasks of r are P.
Pushable(s, r, P) ==
    ListOf(r.pushable, P) /\ InOrder(s, r.pushable) /\ Best(s, r.next, P)

\* The lists of CPU c hold the tasks Q, of which x is not for others to take.
ListsExact(s, c, Q, x) ==
    ListOf(s.rq[c].queue, Q) /\ Pushable(s, s.rq[c], Movable(s, Q) \ {x})

\* So do its counts, and what the other CPUs see of it.
CountsExact(s, c, Q) ==
    LET r == s.rq[c] IN
    /\ Best(s, r.highest, Q)
    /\ s.rd.cpupri[c] = IF r.online THEN r.highest ELSE INVALID
    /\ r.migratory = Cardinality(Movable(s, Q))
    /\ r.overloaded <=> Movable(s, Q) # {} /\ Cardinality(Q) > 1
    /\ c \in s.rd.rto_mask <=> r.overloaded /\ r.online

Exact(s, c, Q, x) == ListsExact(s, c, Q, x) /\ CountsExact(s, c, Q)

\* A task runs on the CPU it is on.
CurrHere(s) == \A c \in CPU : s.rq[c].curr # IDLE => s.task[s.rq[c].curr].cpu = c

Books(s) ==
    /\ s \in StateType
    /\ \A c \in CPU : Exact(s, c, Queued(s, c), s.rq[c].curr)
    /\ s.rd.rto_count = Cardinality(s.rd.rto_mask)
    /\ CurrHere(s)

\* Tasks are where they may run, and a CPU that is off line has none.
Placed(s) ==
    /\ \A p \in Task : s.task[p].on_rq => s.task[p].cpu \in s.task[p].mask \cap cpus.online
    /\ \A c \in CPU \ cpus.online :
         s.rq[c].curr = IDLE /\ ~ s.rq[c].resched /\ ~ s.rq[c].online

CpusOK ==
    /\ cpus \in [online : SUBSET CPU, active : SUBSET CPU]
    /\ cpus.active \subseteq cpus.online /\ CPU \ Pluggable \subseteq cpus.active

FrameType == [pc : {"out", "wake", "post", "push", "find", "pull", "lock", "locked", "dying"},
              caller : {NONE, "woken", "post", "to", "pick", "prio", "from"},
              q : CPU \cup {NONE}, held : SUBSET CPU, p : Task \cup {NONE},
              next : Task \cup {NONE}, peer : CPU \cup {NONE}, tries : 0 .. RT_MAX_TRIES,
              dropped : BOOLEAN, ret : BOOLEAN]

\* p waits on the queue of CPU q.
Pushee(s, p, q) ==
    p \in Task /\ s.task[p].on_rq /\ s.task[p].cpu = q /\ s.rq[q].curr # p

PushCaller == {"woken", "post", "to"}
PullCaller == {"pick", "prio", "from"}

\* The wakeup that has chosen a CPU.
WakeOK(s, f) ==
    /\ f.p \in Task /\ f.q \in CPU /\ f.held = {}
    /\ ~ s.task[f.p].on_rq /\ f.q \in s.task[f.p].mask \cap cpus.online
    /\ \A d \in CPU : s.rq[d].curr # f.p

\* A push or pull that holds what it should.
BalanceOK(s, f, c) ==
    /\ f.q \in CPU \cap cpus.online
    /\ f.pc \in {"push", "find", "pull"} => f.held = {f.q}
    /\ f.pc \in {"lock", "locked"} => f.peer \in (CPU \cap cpus.online) \ {f.q}
    /\ f.pc = "lock" => f.held = IF f.dropped THEN {} ELSE {f.q}
    /\ f.pc = "locked" => f.held = {f.q, f.peer}

PushOK(s, f, c) ==
    /\ f.caller \in {"woken", "to"} => f.p \in Task
    /\ f.pc = "push" => f.next = NONE \/ Pushee(s, f.next, f.q)
    /\ f.pc = "find" => Pushee(s, f.next, f.q)
    /\ f.pc \in {"lock", "locked"} =>
         /\ f.next \in Task /\ f.tries < RT_MAX_TRIES
         /\ ~ f.dropped => Pushee(s, f.next, f.q) /\ f.peer \in s.task[f.next].mask

PullOK(s, f, c) ==
    /\ f.caller = "pick" => f.q = c
    /\ f.caller \in {"prio", "from"} => f.p \in Task

DyingOK(s, f, c) ==
    /\ f = [Outside EXCEPT !.pc = "dying"]
    /\ c \in cpus.online \ cpus.active /\ ~ s.rq[c].online
    /\ s.rq[c].curr = IDLE /\ ~ s.rq[c].resched

FrameOK(s, f, c) ==
    CASE f.pc = "out" -> f = Outside
      [] f.pc = "wake" -> WakeOK(s, f)
      [] f.pc = "post" -> f.held = {} /\ f.p = NONE /\ c \in cpus.online
      [] f.pc \in {"push", "find"} ->
            f.caller \in PushCaller /\ BalanceOK(s, f, c) /\ PushOK(s, f, c)
      [] f.pc = "pull" ->
            f.caller \in PullCaller /\ BalanceOK(s, f, c) /\ PullOK(s, f, c)
      [] f.pc \in {"lock", "locked"} ->
            /\ BalanceOK(s, f, c)
            /\ \/ f.caller \in PushCaller /\ PushOK(s, f, c)
               \/ f.caller \in PullCaller /\ PullOK(s, f, c)
      [] f.pc = "dying" -> DyingOK(s, f, c)

\* Locks exclude, and nobody does anything while a CPU dies.
Exclusive ==
    \A c, d \in CPU : c # d =>
        /\ at[c].held \cap at[d].held = {}
        /\ at[c].p = at[d].p => at[c].p = NONE
        /\ at[c].pc = "dying" => at[d] = Outside

Frames == at \in [CPU -> FrameType] /\ \A c \in CPU : FrameOK(S, at[c], c)

\* A CPU runs a task that is not on the queue only while it looks for another one.
Picking(f) == f.pc \in {"pull", "lock", "locked"} /\ f.caller = "pick"

AwakeAt(s, a) ==
    \A c \in CPU : s.rq[c].curr # IDLE => s.task[s.rq[c].curr].on_rq \/ Picking(a[c])

IInv ==
    /\ Books(S) /\ Placed(S) /\ CpusOK /\ Frames /\ Exclusive /\ AwakeAt(S, at)
    /\ missed \subseteq Task

-----------------------------------------------------------------------------
(* Types, and the least of a set *)

LEMMA Names ==
    /\ CPU \subseteq Nat /\ IsFiniteSet(CPU) /\ IsFiniteSet(Task)
    /\ MAX_RT_PRIO \in Nat /\ MAX_RT_PRIO > 0 /\ RT_MAX_TRIES \in Nat /\ RT_MAX_TRIES > 0
    /\ Pluggable \subseteq CPU /\ CPU \ Pluggable # {} /\ Caller \subseteq CPU
    /\ Masks \subseteq SUBSET CPU /\ CPU \in Masks
    /\ IDLE \notin Task /\ NONE \notin Task /\ NONE \notin CPU
    /\ Prio = 0 .. MAX_RT_PRIO /\ Prio \subseteq Nat /\ MAX_RT_PRIO \in Prio
    /\ INVALID \notin Prio /\ INVALID \in Int
  <1>1. /\ CPU \subseteq Nat /\ IsFiniteSet(CPU) /\ IsFiniteSet(Task)
        /\ Pluggable \subseteq CPU /\ CPU \ Pluggable # {} /\ Caller \subseteq CPU
        /\ Masks \subseteq SUBSET CPU /\ CPU \in Masks
        /\ IDLE \notin Task /\ NONE \notin Task /\ NONE \notin CPU
    BY PushPullAssumption, Zenon
  <1>2. MAX_RT_PRIO \in Nat \ {0} /\ RT_MAX_TRIES \in Nat \ {0}
    BY PushPullAssumption
  <1>3. /\ MAX_RT_PRIO \in Nat /\ MAX_RT_PRIO > 0 /\ RT_MAX_TRIES \in Nat /\ RT_MAX_TRIES > 0
    BY <1>2
  <1>4. /\ Prio = 0 .. MAX_RT_PRIO /\ Prio \subseteq Nat /\ MAX_RT_PRIO \in Prio
    BY <1>3 DEF Prio
  <1>5. INVALID \notin Prio /\ INVALID \in Int
    BY <1>4 DEF INVALID
  <1> QED
    BY <1>1, <1>3, <1>4, <1>5, Zenon

LEMMA MinFacts ==
    ASSUME NEW T \in SUBSET Nat, T # {}
    PROVE  Min(T) \in T /\ \A x \in T : Min(T) <= x
  BY LeastNat DEF Min

LEMMA MinOfTwo ==
    ASSUME NEW a \in Nat, NEW b \in Nat
    PROVE  Min({a, b}) = IF a <= b THEN a ELSE b
  <1>1. Min({a, b}) \in {a, b} /\ \A x \in {a, b} : Min({a, b}) <= x
    BY MinFacts
  <1> QED
    BY <1>1

LEMMA TaskFacts ==
    ASSUME NEW s \in StateType, NEW p \in Task
    PROVE  /\ s.task \in [Task -> TaskType] /\ s.task[p] \in TaskType
           /\ s.task[p].prio \in Prio /\ s.task[p].prio \in Nat
           /\ s.task[p].mask \in Masks /\ s.task[p].mask \subseteq CPU
           /\ s.task[p].cpu \in CPU /\ s.task[p].on_rq \in BOOLEAN
           /\ PrioOf(s, p) = s.task[p].prio
           /\ rt_task(s, p) <=> s.task[p].prio < MAX_RT_PRIO
           /\ migratory(s, p) \in BOOLEAN
  <1>1. s.task \in [Task -> TaskType]
    BY DEF StateType
  <1>2. s.task[p] \in TaskType
    BY <1>1
  <1>3. /\ s.task[p].prio \in Prio /\ s.task[p].mask \in Masks
        /\ s.task[p].cpu \in CPU /\ s.task[p].on_rq \in BOOLEAN
    BY <1>2 DEF TaskType
  <1>4. s.task[p].prio \in Nat /\ s.task[p].mask \subseteq CPU
    BY <1>3, Names
  <1>5. PrioOf(s, p) = s.task[p].prio
    BY Names DEF PrioOf
  <1>6. rt_task(s, p) <=> s.task[p].prio < MAX_RT_PRIO
    BY <1>5 DEF rt_task
  <1>7. migratory(s, p) \in BOOLEAN
    BY DEF migratory
  <1> QED
    BY <1>1, <1>2, <1>3, <1>4, <1>5, <1>6, <1>7

LEMMA RqFacts ==
    ASSUME NEW s \in StateType, NEW c \in CPU
    PROVE  /\ s.rq \in [CPU -> RqType] /\ s.rq[c] \in RqType
           /\ s.rd.cpupri \in [CPU -> Prio \cup {INVALID}]
           /\ s.rd.rto_mask \in SUBSET CPU /\ s.rd.rto_count \in Int
  BY DEF StateType

\* One queue becomes r.
WithRq(s, c, r) == [s EXCEPT !.rq[c] = r]

LEMMA WithRqFacts ==
    ASSUME NEW s \in StateType, NEW c \in CPU, NEW r \in RqType
    PROVE  /\ WithRq(s, c, r) \in StateType /\ WithRq(s, c, r).rq[c] = r
           /\ \A d \in CPU \ {c} : WithRq(s, c, r).rq[d] = s.rq[d]
           /\ WithRq(s, c, r).rd = s.rd /\ WithRq(s, c, r).task = s.task
  BY DEF WithRq, StateType

\* The fields that the operations on queues leave alone.
SameRunning(r, t) ==
    /\ t.curr = r.curr /\ t.resched = r.resched /\ t.post = r.post /\ t.online = r.online

SameCounts(r, t) ==
    t.highest = r.highest /\ t.migratory = r.migratory /\ t.overloaded = r.overloaded

-----------------------------------------------------------------------------
(* The pushable tasks *)

LEMMA PlistAddFacts ==
    ASSUME NEW s \in StateType, NEW l, NEW P, ListOf(l, P), InOrder(s, l),
           NEW p \in Task, p \notin P
    PROVE  ListOf(plist_add(s, l, p), P \cup {p}) /\ InOrder(s, plist_add(s, l, p))
  <1> DEFINE worse == {i \in 1 .. Len(l) : s.task[l[i]].prio > s.task[p].prio}
             k == Min(worse \cup {Len(l) + 1})
             a == plist_add(s, l, p)
             pr(x) == s.task[x].prio
  <1>1. /\ l \in Seq(Task) /\ Distinct(l) /\ Elems(l) = P /\ Len(l) \in Nat
        /\ \A i \in 1 .. Len(l) : l[i] \in Task
    BY DEF ListOf
  <1>2. worse \cup {Len(l) + 1} \in SUBSET Nat
    BY <1>1
  <1>3. k \in worse \cup {Len(l) + 1} /\ \A x \in worse \cup {Len(l) + 1} : k <= x
    BY <1>2, MinFacts
  <1>4. a = Insert(l, k, p)
    BY DEF plist_add
  <1>5. k \in 1 .. (Len(l) + 1)
    BY SMTT(30), <1>1, <1>3
  <1>6. \A x \in Task : pr(x) \in Nat
    BY TaskFacts
  <1>61. worse \subseteq 1 .. Len(l) /\ \A i \in 1 .. Len(l) : i \in worse <=> pr(l[i]) > pr(p)
    OBVIOUS
  <1>62. \A i \in 1 .. Len(l) : pr(l[i]) \in Nat
    BY <1>1, <1>6
  <1>63. pr(p) \in Nat
    BY <1>6
  <1> HIDE DEF worse, k, pr, a
  <1>7. \A i \in 1 .. Len(l) : i < k => pr(l[i]) <= pr(p)
    <2> SUFFICES ASSUME NEW i \in 1 .. Len(l), i < k PROVE pr(l[i]) <= pr(p)
      OBVIOUS
    <2>1. i \notin worse
      BY <1>1, <1>3, <1>5
    <2> QED
      BY <1>63, <1>62, <1>61, <2>1
  <1>8. \A i \in 1 .. Len(l) : i >= k => pr(p) <= pr(l[i])
    <2> SUFFICES ASSUME NEW i \in 1 .. Len(l), i >= k PROVE pr(p) <= pr(l[i])
      OBVIOUS
    <2>1. k \in worse /\ k \in 1 .. Len(l)
      BY <1>1, <1>3, <1>5, <1>61
    <2>2. pr(p) < pr(l[k])
      BY <1>63, <1>62, <1>61, <2>1
    <2>3. pr(l[k]) <= pr(l[i])
      <3>1. CASE i = k
        BY <1>62, <3>1
      <3>2. CASE k < i
        BY <2>1, <3>2 DEF InOrder, pr
      <3> QED
        BY <1>5, <3>1, <3>2
    <2> QED
      BY <1>63, <1>62, <2>1, <2>2, <2>3
  <1>9. /\ a \in Seq(Task) /\ Len(a) = Len(l) + 1
        /\ \A i \in 1 .. (Len(l) + 1) :
              a[i] = IF i < k THEN l[i] ELSE IF i = k THEN p ELSE l[i - 1]
        /\ Elems(a) = Elems(l) \cup {p}
        /\ Distinct(a)
    <2>1. p \notin Elems(l)
      BY <1>1
    <2>2. l \in Seq(Task) /\ p \in Task /\ k \in 1..(Len(l) + 1)
      BY <1>1, <1>5
    <2>3. /\ Insert(l, k, p) \in Seq(Task)
          /\ Len(Insert(l, k, p)) = Len(l) + 1
          /\ \A i \in 1..(Len(l) + 1) :
                Insert(l, k, p)[i] = IF i < k THEN l[i] ELSE IF i = k THEN p ELSE l[i - 1]
          /\ Elems(Insert(l, k, p)) = Elems(l) \cup {p}
          /\ Distinct(l) /\ p \notin Elems(l) => Distinct(Insert(l, k, p))
      BY <2>2, InsertFacts
    <2> QED
      BY <1>1, <1>4, <2>1, <2>3
  <1>10. InOrder(s, a)
    <2> SUFFICES ASSUME NEW i \in 1 .. Len(a), NEW j \in 1 .. Len(a), i < j
                 PROVE  pr(a[i]) <= pr(a[j])
      BY DEF InOrder, pr
    <2>1. i \in Nat /\ j \in Nat /\ k \in Nat /\ pr(p) \in Nat
      BY <1>5, <1>63
    <2>2. CASE j < k
      <3>1. i \in 1 .. Len(l) /\ j \in 1 .. Len(l) /\ a[i] = l[i] /\ a[j] = l[j]
        BY <1>1, <1>5, <1>9, <2>1, <2>2
      <3> QED
        BY <3>1 DEF InOrder, pr
    <2>3. CASE j = k
      <3>1. i \in 1 .. Len(l) /\ i < k /\ a[i] = l[i] /\ a[j] = p
        BY <1>1, <1>5, <1>9, <2>1, <2>3
      <3> QED
        BY <1>7, <3>1
    <2>4. CASE k < j
      <3>1. j - 1 \in 1 .. Len(l) /\ a[j] = l[j - 1] /\ k <= j - 1
        BY <1>1, <1>5, <1>9, <2>1, <2>4
      <3>2. CASE i < k
        <4>1. i \in 1 .. Len(l) /\ a[i] = l[i] /\ i < j - 1
          BY <1>1, <1>5, <1>9, <2>1, <3>1, <3>2
        <4> QED
          BY <3>1, <4>1 DEF InOrder, pr
      <3>3. CASE i = k
        <4>1. a[i] = p
          BY <1>5, <1>9, <3>3
        <4> QED
          BY <1>8, <3>1, <4>1
      <3>4. CASE k < i
        <4>1. i - 1 \in 1 .. Len(l) /\ a[i] = l[i - 1] /\ i - 1 < j - 1
          BY <1>1, <1>5, <1>9, <2>1, <3>4
        <4> QED
          BY <3>1, <4>1 DEF InOrder, pr
      <3> QED
        BY <2>1, <3>2, <3>3, <3>4
    <2> QED
      BY <2>1, <2>2, <2>3, <2>4
  <1> QED
    BY <1>1, <1>9, <1>10 DEF ListOf, a

\* An ordered list stays so without one of its tasks, and begins with a best one.
LEMMA DeleteOrdered ==
    ASSUME NEW s \in StateType, NEW l, NEW P, ListOf(l, P), InOrder(s, l), NEW p
    PROVE  /\ ListOf(Delete(l, p), P \ {p}) /\ InOrder(s, Delete(l, p))
  <1>1. /\ l \in Seq(Task) /\ Distinct(l) /\ Elems(l) = P /\ Len(l) \in Nat
        /\ \A i \in 1 .. Len(l) : l[i] \in Task
    BY DEF ListOf
  <1>2. ListOf(Delete(l, p), P \ {p})
    BY <1>1, DeleteFacts DEF ListOf
  <1>3. CASE p \notin P
    BY <1>1, <1>2, <1>3 DEF Delete
  <1>4. CASE p \in P
    <2> DEFINE k == CHOOSE i \in 1..Len(l) : l[i] = p
               d == [i \in 1..(Len(l) - 1) |-> IF i < k THEN l[i] ELSE l[i + 1]]
               from(i) == IF i < k THEN i ELSE i + 1
    <2>1. k \in 1 .. Len(l) /\ Delete(l, p) = d
      BY <1>1, <1>4 DEF Elems, Delete
    <2> HIDE DEF k
    <2>2. Len(d) = Len(l) - 1
      BY <1>1, <2>1
    <2>3. \A i \in 1 .. Len(d) : from(i) \in 1 .. Len(l) /\ d[i] = l[from(i)]
      BY <1>1, <2>1, <2>2
    <2>4. \A i, j \in 1 .. Len(d) : i < j => from(i) < from(j)
      BY <1>1, <2>1, <2>2
    <2> HIDE DEF d, from
    <2>5. InOrder(s, d)
      BY <2>3, <2>4 DEF InOrder
    <2> QED
      BY <1>2, <2>1, <2>5
  <1> QED
    BY <1>3, <1>4

LEMMA FirstIsBest ==
    ASSUME NEW s \in StateType, NEW l, NEW P, ListOf(l, P), InOrder(s, l)
    PROVE  /\ l = <<>> <=> P = {}
           /\ l # <<>> => l[1] \in P /\ P \subseteq Task
           /\ Best(s, IF l = <<>> THEN MAX_RT_PRIO ELSE s.task[l[1]].prio, P)
  <1>1. /\ l \in Seq(Task) /\ Elems(l) = P /\ Len(l) \in Nat
        /\ \A i \in 1 .. Len(l) : l[i] \in Task
    BY DEF ListOf
  <1>2. CASE l = <<>>
    BY <1>1, <1>2 DEF Elems, Best
  <1>3. CASE l # <<>>
    <2>1. 1 \in 1 .. Len(l)
      BY <1>1, <1>3
    <2>2. l[1] \in P /\ P # {}
      BY <1>1, <2>1 DEF Elems
    <2>3. ASSUME NEW p \in P PROVE s.task[l[1]].prio <= s.task[p].prio
      <3>1. PICK i \in 1 .. Len(l) : l[i] = p
        BY <1>1 DEF Elems
      <3>2. s.task[l[1]].prio \in Nat
        BY <1>1, <2>1, TaskFacts
      <3>3. CASE i = 1
        BY <3>1, <3>2, <3>3
      <3>4. CASE 1 < i
        BY <2>1, <3>1, <3>4 DEF InOrder
      <3> QED
        BY <1>1, <3>3, <3>4
    <2>4. P \subseteq Task
      BY <1>1 DEF Elems
    <2> QED
      BY <1>3, <2>2, <2>3, <2>4 DEF Best
  <1> QED
    BY <1>2, <1>3

\* Best depends on the priorities of P only.
LEMMA BestAdds ==
    ASSUME NEW s \in StateType, NEW P \in SUBSET Task, NEW x \in Nat, Best(s, x, P), NEW p \in Task,
           x <= MAX_RT_PRIO
    PROVE  Best(s, Min({x, s.task[p].prio}), P \cup {p})
  <1>1. s.task[p].prio \in Nat /\ s.task[p].prio <= MAX_RT_PRIO
    BY TaskFacts, Names
  <1>2. Min({x, s.task[p].prio}) = IF x <= s.task[p].prio THEN x ELSE s.task[p].prio
    BY <1>1, MinOfTwo
  <1>3. \A q \in Task : s.task[q].prio \in Nat
    BY TaskFacts
  <1> DEFINE m == Min({x, s.task[p].prio})
  <1> HIDE DEF m
  <1>4. m \in Nat /\ m <= x /\ m <= s.task[p].prio
    BY <1>1, <1>2 DEF m
  <1>5. \A q \in P \cup {p} : m <= s.task[q].prio
    <2> SUFFICES ASSUME NEW q \in P PROVE m <= s.task[q].prio
      BY <1>4
    <2>1. x <= s.task[q].prio /\ s.task[q].prio \in Nat
      BY <1>3 DEF Best
    <2> QED
      BY <1>4, <2>1
  <1>6. \E q \in P \cup {p} : m = s.task[q].prio
    <2>1. CASE m = s.task[p].prio
      BY <2>1
    <2>2. CASE m # s.task[p].prio
      <3>1. m = x /\ x < s.task[p].prio
        BY <1>1, <1>2, <2>2 DEF m
      <3>2. P # {}
        BY <1>1, <3>1, Names DEF Best
      <3> QED
        BY <3>1, <3>2 DEF Best
    <2> QED
      BY <2>1, <2>2
  <1> QED
    BY <1>5, <1>6 DEF Best, m

LEMMA EnqueuePushable ==
    ASSUME NEW s \in StateType, NEW c \in CPU, NEW p \in Task, NEW P \in SUBSET Task,
           Pushable(s, s.rq[c], P)
    PROVE  LET t == enqueue_pushable_task(s, c, p) IN
           /\ t \in StateType /\ t.task = s.task /\ t.rd = s.rd
           /\ \A d \in CPU \ {c} : t.rq[d] = s.rq[d]
           /\ t.rq[c].queue = s.rq[c].queue
           /\ SameRunning(s.rq[c], t.rq[c]) /\ SameCounts(s.rq[c], t.rq[c])
           /\ Pushable(t, t.rq[c], P \cup {p})
  <1> DEFINE t == enqueue_pushable_task(s, c, p)
             l == plist_add(s, Delete(s.rq[c].pushable, p), p)
             n == Min({s.rq[c].next, s.task[p].prio})
             r == [s.rq[c] EXCEPT !.pushable = l, !.next = n]
  <1>1. t = WithRq(s, c, r)
    BY RqFacts DEF enqueue_pushable_task, WithRq, StateType
  <1>2. ListOf(s.rq[c].pushable, P) /\ InOrder(s, s.rq[c].pushable) /\ Best(s, s.rq[c].next, P)
    BY DEF Pushable
  <1>3. /\ ListOf(Delete(s.rq[c].pushable, p), P \ {p})
        /\ InOrder(s, Delete(s.rq[c].pushable, p))
    BY <1>2, DeleteOrdered
  <1>4. ListOf(l, (P \ {p}) \cup {p}) /\ InOrder(s, l)
    BY <1>3, PlistAddFacts
  <1>5. s.rq[c] \in RqType /\ s.rq[c].next \in Prio
    BY RqFacts DEF RqType
  <1>6. s.rq[c].next \in Nat /\ s.rq[c].next <= MAX_RT_PRIO
    BY <1>5, Names
  <1>7. Best(s, n, P \cup {p})
    BY <1>2, <1>6, BestAdds
  <1>8. n \in Prio
    <2>1. s.task[p].prio \in Nat /\ s.task[p].prio \in Prio
      BY TaskFacts
    <2> QED
      BY <1>5, <1>6, <2>1, MinOfTwo
  <1>9. l \in Seq(Task) /\ ListOf(l, P \cup {p})
    <2>1. (P \ {p}) \cup {p} = P \cup {p}
      OBVIOUS
    <2> QED
      BY <1>4, <2>1 DEF ListOf
  <1> HIDE DEF l, n
  <1>10. /\ r \in RqType /\ r.pushable = l /\ r.next = n /\ r.queue = s.rq[c].queue
         /\ SameRunning(s.rq[c], r) /\ SameCounts(s.rq[c], r)
    BY <1>5, <1>8, <1>9 DEF RqType, SameRunning, SameCounts
  <1> HIDE DEF r
  <1>11. /\ t \in StateType /\ t.rq[c] = r /\ t.rd = s.rd /\ t.task = s.task
         /\ \A d \in CPU \ {c} : t.rq[d] = s.rq[d]
    BY <1>1, <1>10, WithRqFacts
  <1> HIDE DEF t
  <1>12. Pushable(t, r, P \cup {p})
    BY <1>4, <1>7, <1>9, <1>10, <1>11 DEF Pushable, InOrder, Best
  <1> QED
    BY <1>10, <1>11, <1>12 DEF t

LEMMA DequeuePushable ==
    ASSUME NEW s \in StateType, NEW c \in CPU, NEW p \in Task, NEW P \in SUBSET Task,
           Pushable(s, s.rq[c], P)
    PROVE  LET t == dequeue_pushable_task(s, c, p) IN
           /\ t \in StateType /\ t.task = s.task /\ t.rd = s.rd
           /\ \A d \in CPU \ {c} : t.rq[d] = s.rq[d]
           /\ t.rq[c].queue = s.rq[c].queue
           /\ SameRunning(s.rq[c], t.rq[c]) /\ SameCounts(s.rq[c], t.rq[c])
           /\ Pushable(t, t.rq[c], P \ {p})
  <1> DEFINE t == dequeue_pushable_task(s, c, p)
             l == Delete(s.rq[c].pushable, p)
             n == IF l = <<>> THEN MAX_RT_PRIO ELSE s.task[l[1]].prio
             r == [s.rq[c] EXCEPT !.pushable = l, !.next = n]
  <1>1. t = WithRq(s, c, r)
    BY RqFacts DEF dequeue_pushable_task, WithRq, StateType
  <1>2. ListOf(s.rq[c].pushable, P) /\ InOrder(s, s.rq[c].pushable)
    BY DEF Pushable
  <1>3. ListOf(l, P \ {p}) /\ InOrder(s, l)
    BY <1>2, DeleteOrdered
  <1> HIDE DEF l
  <1>4. Best(s, n, P \ {p}) /\ (l # <<>> => l[1] \in Task)
    BY <1>3, FirstIsBest
  <1>5. n \in Prio
    BY <1>4, TaskFacts, Names
  <1>6. l \in Seq(Task) /\ s.rq[c] \in RqType
    BY <1>3, RqFacts DEF ListOf
  <1> HIDE DEF n
  <1>10. /\ r \in RqType /\ r.pushable = l /\ r.next = n /\ r.queue = s.rq[c].queue
         /\ SameRunning(s.rq[c], r) /\ SameCounts(s.rq[c], r)
    BY <1>5, <1>6 DEF RqType, SameRunning, SameCounts
  <1> HIDE DEF r
  <1>11. /\ t \in StateType /\ t.rq[c] = r /\ t.rd = s.rd /\ t.task = s.task
         /\ \A d \in CPU \ {c} : t.rq[d] = s.rq[d]
    BY <1>1, <1>10, WithRqFacts
  <1> HIDE DEF t
  <1>12. Pushable(t, r, P \ {p})
    BY <1>3, <1>4, <1>10, <1>11 DEF Pushable, InOrder, Best
  <1> QED
    BY <1>10, <1>11, <1>12 DEF t

-----------------------------------------------------------------------------
(* The counts of a queue, and what the root domain knows of it *)

\* Nothing happens to the other CPUs.
Elsewhere(s, t, c) ==
    \A d \in CPU \ {c} :
        /\ t.rq[d] = s.rq[d] /\ t.rd.cpupri[d] = s.rd.cpupri[d]
        /\ d \in t.rd.rto_mask <=> d \in s.rd.rto_mask

\* rto_mask and rto_count go with the queue of c.
Registered(s, c) ==
    /\ c \in s.rd.rto_mask <=> s.rq[c].overloaded /\ s.rq[c].online
    /\ s.rd.rto_count = Cardinality(s.rd.rto_mask)

SameLists(r, t) == t.queue = r.queue /\ t.pushable = r.pushable /\ t.next = r.next

RdType == [rto_mask : SUBSET CPU, rto_count : Int, cpupri : [CPU -> Prio \cup {INVALID}]]

\* One queue becomes r, and the root domain e.
WithBoth(s, c, r, e) == [rq |-> [s.rq EXCEPT ![c] = r], rd |-> e, task |-> s.task]

LEMMA WithBothFacts ==
    ASSUME NEW s \in StateType, NEW c \in CPU, NEW r \in RqType, NEW e \in RdType
    PROVE  /\ WithBoth(s, c, r, e) \in StateType /\ WithBoth(s, c, r, e).rq[c] = r
           /\ \A d \in CPU \ {c} : WithBoth(s, c, r, e).rq[d] = s.rq[d]
           /\ WithBoth(s, c, r, e).rd = e /\ WithBoth(s, c, r, e).task = s.task
  BY DEF WithBoth, StateType, RdType

LEMMA UpdateMigration ==
    ASSUME NEW s \in StateType, NEW c \in CPU, Registered(s, c)
    PROVE  LET t == update_rt_migration(s, c) IN
           /\ t \in StateType /\ t.task = s.task /\ Elsewhere(s, t, c) /\ Registered(t, c)
           /\ t.rd.cpupri = s.rd.cpupri
           /\ SameRunning(s.rq[c], t.rq[c]) /\ SameLists(s.rq[c], t.rq[c])
           /\ t.rq[c].highest = s.rq[c].highest /\ t.rq[c].migratory = s.rq[c].migratory
           /\ t.rq[c].overloaded <=> s.rq[c].migratory # 0 /\ Len(s.rq[c].queue) > 1
  <1> DEFINE over == s.rq[c].migratory # 0 /\ Len(s.rq[c].queue) > 1
             t == update_rt_migration(s, c)
             m == IF over THEN s.rd.rto_mask \cup {c} ELSE s.rd.rto_mask \ {c}
             n == IF over THEN s.rd.rto_count + 1 ELSE s.rd.rto_count - 1
             e == IF s.rq[c].online THEN [s.rd EXCEPT !.rto_mask = m, !.rto_count = n] ELSE s.rd
             r == [s.rq[c] EXCEPT !.overloaded = over]
  <1>1. /\ s.rq[c] \in RqType /\ s.rd \in RdType /\ over \in BOOLEAN
        /\ s.rq[c].overloaded \in BOOLEAN /\ s.rq[c].online \in BOOLEAN
        /\ s = [rq |-> s.rq, rd |-> s.rd, task |-> s.task] /\ s.rq \in [CPU -> RqType]
    BY DEF StateType, RqType, RdType
  <1>2. CASE over <=> s.rq[c].overloaded
    <2>1. t = s
      BY <1>1, <1>2 DEF update_rt_migration
    <2> QED
      BY <1>2, <2>1 DEF Elsewhere, SameRunning, SameLists
  <1>3. CASE ~ (over <=> s.rq[c].overloaded)
    <2>1. t = WithBoth(s, c, r, e)
      <3>1. over # s.rq[c].overloaded
        BY <1>1, <1>3
      <3>2. t = [(IF over THEN rt_set_overload(s, c) ELSE rt_clear_overload(s, c))
                    EXCEPT !.rq[c].overloaded = over]
        BY <3>1 DEF update_rt_migration
      <3>3. (IF over THEN rt_set_overload(s, c) ELSE rt_clear_overload(s, c))
              = [rq |-> s.rq, rd |-> e, task |-> s.task]
        BY <1>1 DEF rt_set_overload, rt_clear_overload
      <3> HIDE DEF e, t, over
      <3> QED
        BY <3>2, <3>3 DEF WithBoth
    <2>2. /\ s.rd.rto_mask \in SUBSET CPU /\ IsFiniteSet(s.rd.rto_mask)
          /\ s.rd.rto_count \in Int
      BY <1>1, Names, FS_Subset DEF RdType
    <2>3. /\ m \in SUBSET CPU /\ n \in Int
          /\ c \in m <=> over
          /\ \A d \in CPU \ {c} : d \in m <=> d \in s.rd.rto_mask
      BY <2>2
    <2>4. s.rq[c].online => n = Cardinality(m)
      <3> SUFFICES ASSUME s.rq[c].online PROVE n = Cardinality(m)
        OBVIOUS
      <3>1. CASE over
        <4>1. c \notin s.rd.rto_mask
          BY <1>3, <3>1 DEF Registered
        <4> QED
          BY <2>2, <3>1, <4>1, FS_AddElement DEF Registered
      <3>2. CASE ~ over
        <4>1. c \in s.rd.rto_mask
          BY <1>3, <3>2 DEF Registered
        <4> QED
          <5>1. Cardinality(s.rd.rto_mask \ {c}) = Cardinality(s.rd.rto_mask) - 1
            BY <2>2, <4>1, FS_RemoveElement
          <5> QED
            BY <3>2, <5>1 DEF Registered
      <3> QED
        BY <3>1, <3>2
    <2> HIDE DEF m, n
    <2>5. /\ e \in RdType /\ e.cpupri = s.rd.cpupri
          /\ e.rto_mask = IF s.rq[c].online THEN m ELSE s.rd.rto_mask
          /\ e.rto_count = IF s.rq[c].online THEN n ELSE s.rd.rto_count
      BY <1>1, <2>3 DEF RdType
    <2> HIDE DEF e
    <2>6. /\ r \in RqType /\ r.overloaded = over /\ SameRunning(s.rq[c], r)
          /\ SameLists(s.rq[c], r) /\ r.highest = s.rq[c].highest
          /\ r.migratory = s.rq[c].migratory
      BY <1>1 DEF RqType, SameRunning, SameLists
    <2> HIDE DEF r
    <2>7. /\ t \in StateType /\ t.rq[c] = r /\ t.rd = e /\ t.task = s.task
          /\ \A d \in CPU \ {c} : t.rq[d] = s.rq[d]
      BY <2>1, <2>5, <2>6, WithBothFacts
    <2> HIDE DEF t
    <2>8. Elsewhere(s, t, c)
      BY <2>3, <2>5, <2>7 DEF Elsewhere
    <2>9. Registered(t, c)
      BY <1>3, <2>3, <2>4, <2>5, <2>6, <2>7 DEF Registered, SameRunning
    <2> QED
      BY <2>5, <2>6, <2>7, <2>8, <2>9 DEF t
  <1> QED
    BY <1>2, <1>3

LEMMA NewHighest ==
    ASSUME NEW s \in StateType, NEW c \in CPU, NEW prio \in Prio,
           s.rd.cpupri[c] = IF s.rq[c].online THEN s.rq[c].highest ELSE INVALID
    PROVE  LET t == new_highest(s, c, prio) IN
           /\ t \in StateType /\ t.task = s.task /\ Elsewhere(s, t, c)
           /\ Registered(s, c) => Registered(t, c)
           /\ SameRunning(s.rq[c], t.rq[c]) /\ SameLists(s.rq[c], t.rq[c])
           /\ t.rq[c].migratory = s.rq[c].migratory
           /\ t.rq[c].overloaded = s.rq[c].overloaded
           /\ t.rq[c].highest = prio
           /\ t.rd.cpupri[c] = IF t.rq[c].online THEN t.rq[c].highest ELSE INVALID
  <1> DEFINE t == new_highest(s, c, prio)
             e == [s.rd EXCEPT !.cpupri[c] =
                     IF s.rq[c].online /\ prio # s.rq[c].highest THEN prio ELSE s.rd.cpupri[c]]
             r == [s.rq[c] EXCEPT !.highest = prio]
  <1>1. s.rq[c] \in RqType /\ s.rd \in RdType /\ s.rq \in [CPU -> RqType]
    BY DEF StateType, RdType
  <1>2. t = WithBoth(s, c, r, e)
    <2>1. s = [rq |-> s.rq, rd |-> s.rd, task |-> s.task]
      BY DEF StateType
    <2>2. t = [s EXCEPT !.rq = [s.rq EXCEPT ![c] = r], !.rd = e]
      BY <1>1 DEF new_highest, RdType
    <2> HIDE DEF r, e, t
    <2> QED
      BY <2>1, <2>2 DEF WithBoth
  <1>3. /\ e \in RdType /\ e.rto_mask = s.rd.rto_mask /\ e.rto_count = s.rd.rto_count
        /\ e.cpupri[c] = IF s.rq[c].online THEN prio ELSE INVALID
        /\ \A d \in CPU \ {c} : e.cpupri[d] = s.rd.cpupri[d]
    BY <1>1 DEF RdType
  <1>4. /\ r \in RqType /\ r.highest = prio /\ SameRunning(s.rq[c], r) /\ SameLists(s.rq[c], r)
        /\ r.migratory = s.rq[c].migratory /\ r.overloaded = s.rq[c].overloaded
    BY <1>1 DEF RqType, SameRunning, SameLists
  <1> HIDE DEF e, r
  <1>5. /\ t \in StateType /\ t.rq[c] = r /\ t.rd = e /\ t.task = s.task
        /\ \A d \in CPU \ {c} : t.rq[d] = s.rq[d]
    BY <1>2, <1>3, <1>4, WithBothFacts
  <1> HIDE DEF t
  <1>6. Elsewhere(s, t, c) /\ (Registered(s, c) => Registered(t, c))
    BY <1>3, <1>4, <1>5 DEF Elsewhere, Registered, SameRunning
  <1> QED
    BY <1>3, <1>4, <1>5, <1>6 DEF t, SameRunning

-----------------------------------------------------------------------------
(* enqueue_task_rt() and dequeue_task_rt() *)

\* What the books of a queue take from its tasks.
SameAttr(s, t, Q) ==
    \A p \in Q : t.task[p].prio = s.task[p].prio /\ t.task[p].mask = s.task[p].mask

LEMMA AttrCarries ==
    ASSUME NEW s, NEW t, NEW Q, SameAttr(s, t, Q)
    PROVE  /\ Movable(t, Q) = Movable(s, Q) /\ Movable(s, Q) \subseteq Q
           /\ \A x, P : P \subseteq Q /\ Best(s, x, P) => Best(t, x, P)
           /\ \A r, P : P \subseteq Q /\ Pushable(s, r, P) => Pushable(t, r, P)
  <1>1. Movable(t, Q) = Movable(s, Q) /\ Movable(s, Q) \subseteq Q
    BY DEF Movable, migratory, SameAttr
  <1>2. ASSUME NEW x, NEW P, P \subseteq Q, Best(s, x, P) PROVE Best(t, x, P)
    BY <1>2 DEF Best, SameAttr
  <1>3. ASSUME NEW r, NEW P, P \subseteq Q, Pushable(s, r, P) PROVE Pushable(t, r, P)
    <2>1. InOrder(t, r.pushable)
      <3>1. \A i \in 1 .. Len(r.pushable) : r.pushable[i] \in Q
        BY <1>3 DEF Pushable, ListOf, Elems
      <3> QED
        BY <1>3, <3>1 DEF Pushable, InOrder, SameAttr
    <2> QED
      BY <1>2, <1>3, <2>1 DEF Pushable
  <1> QED
    BY <1>1, <1>2, <1>3

LEMMA ExactCarries ==
    ASSUME NEW s, NEW t, NEW c, NEW Q, NEW x, Exact(s, c, Q, x), t.rq[c] = s.rq[c],
           t.rd.cpupri[c] = s.rd.cpupri[c], c \in t.rd.rto_mask <=> c \in s.rd.rto_mask,
           SameAttr(s, t, Q)
    PROVE  Exact(t, c, Q, x)
  <1>1. Movable(t, Q) = Movable(s, Q) /\ Movable(s, Q) \ {x} \subseteq Q /\ Q \subseteq Q
    BY AttrCarries
  <1>2. ListsExact(t, c, Q, x)
    BY <1>1, AttrCarries DEF Exact, ListsExact
  <1>3. CountsExact(t, c, Q)
    BY <1>1, AttrCarries DEF Exact, CountsExact
  <1> QED
    BY <1>2, <1>3 DEF Exact

\* How many they are.
LEMMA Counted ==
    ASSUME NEW s \in StateType, NEW Q \in SUBSET Task
    PROVE  /\ IsFiniteSet(Q) /\ Cardinality(Q) \in Nat
           /\ Movable(s, Q) \in SUBSET Task /\ IsFiniteSet(Movable(s, Q))
           /\ Cardinality(Movable(s, Q)) \in Nat
           /\ Cardinality(Movable(s, Q)) = 0 <=> Movable(s, Q) = {}
           /\ \A l : ListOf(l, Q) => Len(l) = Cardinality(Q)
  <1>1. IsFiniteSet(Q) /\ Movable(s, Q) \in SUBSET Task /\ Movable(s, Q) \subseteq Q
    BY Names, FS_Subset DEF Movable
  <1>2. IsFiniteSet(Movable(s, Q))
    BY <1>1, FS_Subset
  <1>3. Cardinality(Movable(s, Q)) = 0 <=> Movable(s, Q) = {}
    BY <1>2, FS_EmptySet
  <1>4. ASSUME NEW l, ListOf(l, Q) PROVE Len(l) = Cardinality(Q)
    BY <1>4, DistinctCount DEF ListOf
  <1> QED
    BY <1>1, <1>2, <1>3, <1>4, FS_CardinalityType

\* The end of enqueue_task_rt() and of dequeue_task_rt(): rt_nr_migratory and the
\* overload follow from the queue and its tasks.
LEMMA CountMigratory ==
    ASSUME NEW s \in StateType, NEW c \in CPU, NEW n \in Nat, NEW Q \in SUBSET Task,
           Registered(s, c), ListOf(s.rq[c].queue, Q), n = Cardinality(Movable(s, Q))
    PROVE  LET t == update_rt_migration([s EXCEPT !.rq[c].migratory = n], c) IN
           /\ t \in StateType /\ t.task = s.task /\ Elsewhere(s, t, c) /\ Registered(t, c)
           /\ t.rd.cpupri = s.rd.cpupri
           /\ SameRunning(s.rq[c], t.rq[c]) /\ SameLists(s.rq[c], t.rq[c])
           /\ t.rq[c].highest = s.rq[c].highest
           /\ t.rq[c].migratory = n
           /\ t.rq[c].overloaded <=> Movable(s, Q) # {} /\ Cardinality(Q) > 1
  <1> DEFINE r == [s.rq[c] EXCEPT !.migratory = n]
             u == [s EXCEPT !.rq[c].migratory = n]
             t == update_rt_migration(u, c)
  <1>1. u = WithRq(s, c, r)
    BY DEF WithRq, StateType
  <1>2. s.rq[c] \in RqType
    BY RqFacts
  <1>3. /\ r \in RqType /\ SameRunning(s.rq[c], r) /\ SameLists(s.rq[c], r)
        /\ r.highest = s.rq[c].highest /\ r.migratory = n
        /\ r.overloaded = s.rq[c].overloaded
    BY <1>2 DEF RqType, SameRunning, SameLists
  <1> HIDE DEF r, u
  <1>4. /\ u \in StateType /\ u.rq[c] = r /\ u.rd = s.rd /\ u.task = s.task
        /\ \A d \in CPU \ {c} : u.rq[d] = s.rq[d]
    BY <1>1, <1>3, WithRqFacts
  <1>5. Registered(u, c)
    BY <1>3, <1>4 DEF Registered, SameRunning
  <1>6. /\ t \in StateType /\ t.task = u.task /\ Elsewhere(u, t, c) /\ Registered(t, c)
        /\ t.rd.cpupri = u.rd.cpupri
        /\ SameRunning(u.rq[c], t.rq[c]) /\ SameLists(u.rq[c], t.rq[c])
        /\ t.rq[c].highest = u.rq[c].highest /\ t.rq[c].migratory = u.rq[c].migratory
        /\ t.rq[c].overloaded <=> u.rq[c].migratory # 0 /\ Len(u.rq[c].queue) > 1
    BY <1>4, <1>5, UpdateMigration
  <1> HIDE DEF t
  <1>7. Elsewhere(s, t, c)
    BY <1>4, <1>6 DEF Elsewhere
  <1>8. u.rq[c].migratory # 0 /\ Len(u.rq[c].queue) > 1
            <=> Movable(s, Q) # {} /\ Cardinality(Q) > 1
    BY <1>3, <1>4, Counted DEF SameLists
  <1>9. SameRunning(s.rq[c], t.rq[c]) /\ SameLists(s.rq[c], t.rq[c])
    BY <1>3, <1>4, <1>6 DEF SameRunning, SameLists
  <1> QED
    BY <1>3, <1>4, <1>6, <1>7, <1>8, <1>9 DEF t, u

\* The queue of c becomes l, and p is on it or not.
LEMMA ListedFacts ==
    ASSUME NEW s \in StateType, NEW c \in CPU, NEW p \in Task, NEW l \in Seq(Task),
           NEW b \in BOOLEAN
    PROVE  LET t == [s EXCEPT !.rq[c].queue = l, !.task[p].on_rq = b] IN
           /\ t \in StateType /\ t.rd = s.rd /\ t.task = [s.task EXCEPT ![p].on_rq = b]
           /\ \A d \in CPU \ {c} : t.rq[d] = s.rq[d]
           /\ SameRunning(s.rq[c], t.rq[c]) /\ SameCounts(s.rq[c], t.rq[c])
           /\ t.rq[c].queue = l /\ t.rq[c].pushable = s.rq[c].pushable
           /\ t.rq[c].next = s.rq[c].next
           /\ SameAttr(s, t, Task)
  <1> DEFINE r == [s.rq[c] EXCEPT !.queue = l]
             y == [s.task[p] EXCEPT !.on_rq = b]
             t == [s EXCEPT !.rq[c].queue = l, !.task[p].on_rq = b]
  <1>1. s.rq[c] \in RqType /\ s.task[p] \in TaskType
    BY RqFacts, TaskFacts
  <1>2. /\ r \in RqType /\ r.queue = l /\ SameRunning(s.rq[c], r) /\ SameCounts(s.rq[c], r)
        /\ r.pushable = s.rq[c].pushable /\ r.next = s.rq[c].next
    BY <1>1 DEF RqType, SameRunning, SameCounts
  <1>3. y \in TaskType /\ y.prio = s.task[p].prio /\ y.mask = s.task[p].mask
    BY <1>1 DEF TaskType
  <1>4. t = [s EXCEPT !.rq = [s.rq EXCEPT ![c] = r], !.task = [s.task EXCEPT ![p] = y]]
    BY DEF StateType
  <1>5. [s.task EXCEPT ![p].on_rq = b] = [s.task EXCEPT ![p] = y]
    BY DEF StateType
  <1> HIDE DEF r, y, t
  <1>6. /\ t \in StateType /\ t.rq[c] = r /\ t.rd = s.rd /\ t.task = [s.task EXCEPT ![p] = y]
        /\ \A d \in CPU \ {c} : t.rq[d] = s.rq[d]
    BY <1>2, <1>3, <1>4 DEF StateType
  <1>7. SameAttr(s, t, Task)
    BY <1>3, <1>6 DEF SameAttr, StateType
  <1> QED
    BY <1>2, <1>5, <1>6, <1>7 DEF t

\* A step on the queue of c.
OnQueue(s, t, c) ==
    /\ t \in StateType /\ Elsewhere(s, t, c) /\ SameRunning(s.rq[c], t.rq[c])
    /\ t.rd.rto_count = Cardinality(t.rd.rto_mask)

LEMMA EnqueueTask ==
    ASSUME NEW s \in StateType, NEW c \in CPU, NEW p \in Task, NEW head,
           NEW Q \in SUBSET Task, p \notin Q, Exact(s, c, Q, s.rq[c].curr),
           s.rd.rto_count = Cardinality(s.rd.rto_mask)
    PROVE  LET t == enqueue_task_rt(s, c, p, head) IN
           /\ OnQueue(s, t, c) /\ t.task = [s.task EXCEPT ![p].on_rq = TRUE]
           /\ Exact(t, c, Q \cup {p}, s.rq[c].curr)
  <1> DEFINE x == s.rq[c].curr
             R == Q \cup {p}
             l == IF head THEN <<p>> \o s.rq[c].queue ELSE Append(s.rq[c].queue, p)
             u == [s EXCEPT !.rq[c].queue = l, !.task[p].on_rq = TRUE]
             prio == Min({u.rq[c].highest, u.task[p].prio})
             v == new_highest(u, c, prio)
             n == IF migratory(v, p) THEN v.rq[c].migratory + 1 ELSE v.rq[c].migratory
             w == update_rt_migration([v EXCEPT !.rq[c].migratory = n], c)
             t == enqueue_task_rt(s, c, p, head)
  <1>1. /\ ListOf(s.rq[c].queue, Q) /\ Pushable(s, s.rq[c], Movable(s, Q) \ {x})
        /\ Best(s, s.rq[c].highest, Q) /\ Registered(s, c)
        /\ s.rd.cpupri[c] = IF s.rq[c].online THEN s.rq[c].highest ELSE INVALID
        /\ s.rq[c].migratory = Cardinality(Movable(s, Q))
    BY DEF Exact, ListsExact, CountsExact, Registered
  <1>2. ListOf(l, R)
    <2>1. /\ s.rq[c].queue \in Seq(Task) /\ Distinct(s.rq[c].queue)
          /\ Elems(s.rq[c].queue) = Q
      BY <1>1 DEF ListOf
    <2>2. ListOf(Append(s.rq[c].queue, p), R)
      BY <2>1, AppendFacts DEF ListOf
    <2>3. ListOf(<<p>> \o s.rq[c].queue, R)
      BY <2>1, PrependFacts DEF ListOf
    <2> QED
      BY <2>2, <2>3
  <1>3. l \in Seq(Task)
    BY <1>2 DEF ListOf
  <1>4. t = IF x # p /\ migratory(s, p) THEN enqueue_pushable_task(w, c, p) ELSE w
    BY DEF enqueue_task_rt, inc_rt_prio, count_migratory
  <1> HIDE DEF l
  <1>5. /\ u \in StateType /\ u.rd = s.rd /\ u.task = [s.task EXCEPT ![p].on_rq = TRUE]
        /\ \A d \in CPU \ {c} : u.rq[d] = s.rq[d]
        /\ SameRunning(s.rq[c], u.rq[c]) /\ SameCounts(s.rq[c], u.rq[c])
        /\ u.rq[c].queue = l /\ u.rq[c].pushable = s.rq[c].pushable
        /\ u.rq[c].next = s.rq[c].next
        /\ SameAttr(s, u, Task)
    BY <1>3, ListedFacts
  <1> HIDE DEF u
  <1>6. SameAttr(s, u, Q) /\ u.rq[c] \in RqType
    BY <1>5, RqFacts DEF SameAttr
  <1>7. /\ Best(u, u.rq[c].highest, Q) /\ Movable(u, Q) = Movable(s, Q)
        /\ Pushable(u, s.rq[c], Movable(s, Q) \ {x})
    BY <1>1, <1>5, <1>6, AttrCarries DEF SameCounts
  <1>8. u.rq[c].highest \in Nat /\ u.rq[c].highest <= MAX_RT_PRIO /\ u.rq[c].highest \in Prio
    BY <1>6, Names DEF RqType
  <1>9. u.task[p].prio \in Prio /\ u.task[p].prio \in Nat
    BY <1>5, TaskFacts
  <1>10. Best(u, prio, R) /\ prio \in Prio
    BY <1>5, <1>7, <1>8, <1>9, BestAdds, MinOfTwo
  <1> HIDE DEF prio
  <1>11. /\ Registered(u, c)
         /\ u.rd.cpupri[c] = IF u.rq[c].online THEN u.rq[c].highest ELSE INVALID
    BY <1>1, <1>5 DEF Registered, SameRunning, SameCounts
  <1>12. /\ v \in StateType /\ v.task = u.task /\ Elsewhere(u, v, c) /\ Registered(v, c)
         /\ SameRunning(u.rq[c], v.rq[c]) /\ SameLists(u.rq[c], v.rq[c])
         /\ v.rq[c].migratory = u.rq[c].migratory
         /\ v.rq[c].highest = prio
         /\ v.rd.cpupri[c] = IF v.rq[c].online THEN v.rq[c].highest ELSE INVALID
    BY <1>5, <1>10, <1>11, NewHighest
  <1> HIDE DEF v
  <1>13. /\ ListOf(v.rq[c].queue, R) /\ Movable(v, Q) = Movable(s, Q)
         /\ migratory(v, p) = migratory(s, p)
    BY <1>2, <1>5, <1>7, <1>12 DEF SameLists, Movable, migratory, SameAttr
  <1>14. /\ n = Cardinality(Movable(v, R)) /\ n \in Nat
         /\ Movable(v, R) = IF migratory(s, p) THEN Movable(s, Q) \cup {p} ELSE Movable(s, Q)
    <2>1. Movable(v, R) = IF migratory(s, p) THEN Movable(s, Q) \cup {p} ELSE Movable(s, Q)
      BY <1>13 DEF Movable
    <2>2. v.rq[c].migratory = Cardinality(Movable(s, Q)) /\ p \notin Movable(s, Q)
      BY <1>1, <1>5, <1>12 DEF SameCounts, Movable
    <2>3. IsFiniteSet(Movable(s, Q)) /\ Cardinality(Movable(s, Q)) \in Nat
      BY Counted
    <2>4. Cardinality(Movable(s, Q) \cup {p}) = Cardinality(Movable(s, Q)) + 1
      BY <2>2, <2>3, FS_AddElement
    <2> QED
      BY <1>13, <2>1, <2>2, <2>3, <2>4
  <1> HIDE DEF n
  <1>15. /\ w \in StateType /\ w.task = v.task /\ Elsewhere(v, w, c) /\ Registered(w, c)
         /\ w.rd.cpupri = v.rd.cpupri
         /\ SameRunning(v.rq[c], w.rq[c]) /\ SameLists(v.rq[c], w.rq[c])
         /\ w.rq[c].highest = v.rq[c].highest
         /\ w.rq[c].migratory = n
         /\ w.rq[c].overloaded <=> Movable(v, R) # {} /\ Cardinality(R) > 1
    <2> HIDE DEF R
    <2>1. R \in SUBSET Task
      BY DEF R
    <2>2. v \in StateType /\ Registered(v, c) /\ ListOf(v.rq[c].queue, R)
      BY <1>12, <1>13
    <2>3. n \in Nat /\ n = Cardinality(Movable(v, R))
      BY <1>14
    <2> QED
      BY <2>1, <2>2, <2>3, CountMigratory
  <1> HIDE DEF w
  <1>16. /\ Movable(w, R) = Movable(v, R) /\ Best(w, w.rq[c].highest, R)
         /\ Pushable(w, w.rq[c], Movable(s, Q) \ {x})
         /\ ListOf(w.rq[c].queue, R)
    <2>1. w.task = u.task
      BY <1>12, <1>15
    <2>2. Movable(w, R) = Movable(v, R)
      BY <1>15 DEF Movable, migratory
    <2>3. Best(w, w.rq[c].highest, R)
      BY <1>10, <1>12, <1>15, <2>1 DEF Best
    <2>4. w.rq[c].pushable = s.rq[c].pushable /\ w.rq[c].next = s.rq[c].next
      BY <1>5, <1>12, <1>15 DEF SameLists
    <2>5. Pushable(w, w.rq[c], Movable(s, Q) \ {x})
      BY <1>7, <2>1, <2>4 DEF Pushable, InOrder, Best
    <2> QED
      BY <1>13, <1>15, <2>2, <2>3, <2>5 DEF SameLists
  <1>17. CountsExact(w, c, R)
    BY <1>12, <1>14, <1>15, <1>16 DEF CountsExact, Registered, SameRunning
  <1>18. OnQueue(s, w, c) /\ w.task = [s.task EXCEPT ![p].on_rq = TRUE]
    BY <1>5, <1>12, <1>15 DEF OnQueue, Elsewhere, SameRunning, Registered
  <1>19. CASE x # p /\ migratory(s, p)
    <2> DEFINE z == enqueue_pushable_task(w, c, p)
    <2>1. Movable(s, Q) \ {x} \in SUBSET Task
      BY DEF Movable
    <2>2. /\ z \in StateType /\ z.task = w.task /\ z.rd = w.rd
          /\ \A d \in CPU \ {c} : z.rq[d] = w.rq[d]
          /\ z.rq[c].queue = w.rq[c].queue
          /\ SameRunning(w.rq[c], z.rq[c]) /\ SameCounts(w.rq[c], z.rq[c])
          /\ Pushable(z, z.rq[c], (Movable(s, Q) \ {x}) \cup {p})
      BY <1>15, <1>16, <2>1, EnqueuePushable
    <2> HIDE DEF z
    <2>3. t = z
      BY <1>4, <1>19 DEF z
    <2>4. Movable(z, R) = Movable(w, R) /\ Movable(z, R) \ {x} = (Movable(s, Q) \ {x}) \cup {p}
      <3>1. Movable(z, R) = Movable(w, R)
        BY <2>2 DEF Movable, migratory
      <3> QED
        BY <1>14, <1>16, <1>19, <3>1
    <2>5. ListsExact(z, c, R, x)
      BY <1>16, <2>2, <2>4 DEF ListsExact
    <2>6. CountsExact(z, c, R)
      BY <1>17, <2>2, <2>4 DEF CountsExact, SameCounts, SameRunning, Best
    <2>7. OnQueue(s, z, c)
      BY <1>18, <2>2 DEF OnQueue, Elsewhere, SameRunning
    <2> HIDE DEF t
    <2> QED
      BY <1>18, <2>2, <2>3, <2>5, <2>6, <2>7 DEF Exact, t
  <1>20. CASE ~ (x # p /\ migratory(s, p))
    <2>1. t = w
      BY <1>4, <1>20
    <2>2. Movable(w, R) \ {x} = Movable(s, Q) \ {x}
      BY <1>14, <1>16, <1>20
    <2>3. ListsExact(w, c, R, x)
      BY <1>16, <2>2 DEF ListsExact
    <2> HIDE DEF t
    <2> QED
      BY <1>17, <1>18, <2>1, <2>3 DEF Exact, t
  <1> HIDE DEF t
  <1> QED
    BY <1>19, <1>20 DEF t

LEMMA BestOfList ==
    ASSUME NEW s \in StateType, NEW l, NEW P, ListOf(l, P)
    PROVE  Best(s, BestPrio(s, l), P) /\ BestPrio(s, l) \in Prio /\ (l = <<>> <=> P = {})
  <1>1. l \in Seq(Task) /\ Elems(l) = P /\ P \subseteq Task
    BY DEF ListOf, Elems
  <1>2. l = <<>> <=> P = {}
    BY <1>1, HeadFacts
  <1>3. CASE l = <<>>
    BY <1>2, <1>3, Names DEF BestPrio, Best
  <1>4. CASE l # <<>>
    <2> DEFINE T == {s.task[p].prio : p \in P}
    <2>1. T \in SUBSET Nat /\ T # {}
      BY <1>1, <1>2, <1>4, TaskFacts
    <2>2. Min(T) \in T /\ \A x \in T : Min(T) <= x
      BY <2>1, MinFacts
    <2>3. BestPrio(s, l) = Min(T)
      BY <1>1, <1>4 DEF BestPrio
    <2> DEFINE m == Min(T)
    <2> HIDE DEF m
    <2>4. \A p \in P : m <= s.task[p].prio
      BY <2>2 DEF m
    <2>5. \E p \in P : m = s.task[p].prio
      BY <2>2 DEF m
    <2>6. m \in Prio
      BY <1>1, <2>5, TaskFacts
    <2> QED
      BY <1>2, <1>4, <2>3, <2>4, <2>5, <2>6 DEF Best, m
  <1> QED
    BY <1>3, <1>4

LEMMA DequeueTask ==
    ASSUME NEW s \in StateType, NEW c \in CPU, NEW Q \in SUBSET Task, NEW p \in Q,
           Exact(s, c, Q, s.rq[c].curr),
           s.rd.rto_count = Cardinality(s.rd.rto_mask)
    PROVE  LET t == dequeue_task_rt(s, c, p) IN
           /\ OnQueue(s, t, c) /\ t.task = [s.task EXCEPT ![p].on_rq = FALSE]
           /\ Exact(t, c, Q \ {p}, s.rq[c].curr)
  <1> DEFINE x == s.rq[c].curr
             R == Q \ {p}
             l == Delete(s.rq[c].queue, p)
             u == [s EXCEPT !.rq[c].queue = l, !.task[p].on_rq = FALSE]
             prio == IF u.rq[c].queue = <<>> THEN MAX_RT_PRIO
                     ELSE IF u.task[p].prio = u.rq[c].highest THEN BestPrio(u, u.rq[c].queue)
                     ELSE u.rq[c].highest
             v == new_highest(u, c, prio)
             n == IF migratory(v, p) THEN v.rq[c].migratory + -1 ELSE v.rq[c].migratory
             w == update_rt_migration([v EXCEPT !.rq[c].migratory = n], c)
             t == dequeue_pushable_task(w, c, p)
  <1>1. /\ ListOf(s.rq[c].queue, Q) /\ Pushable(s, s.rq[c], Movable(s, Q) \ {x})
        /\ Best(s, s.rq[c].highest, Q) /\ Registered(s, c)
        /\ s.rd.cpupri[c] = IF s.rq[c].online THEN s.rq[c].highest ELSE INVALID
        /\ s.rq[c].migratory = Cardinality(Movable(s, Q))
    BY DEF Exact, ListsExact, CountsExact, Registered
  <1>2. ListOf(l, R) /\ l \in Seq(Task)
    <2>1. /\ s.rq[c].queue \in Seq(Task) /\ Distinct(s.rq[c].queue)
          /\ Elems(s.rq[c].queue) = Q
      BY <1>1 DEF ListOf
    <2> QED
      BY <2>1, DeleteFacts DEF ListOf
  <1>3. dequeue_task_rt(s, c, p) = t
    BY DEF dequeue_task_rt, dec_rt_prio, count_migratory
  <1> HIDE DEF l
  <1>4. p \in Task
    OBVIOUS
  <1>5. /\ u \in StateType /\ u.rd = s.rd /\ u.task = [s.task EXCEPT ![p].on_rq = FALSE]
        /\ \A d \in CPU \ {c} : u.rq[d] = s.rq[d]
        /\ SameRunning(s.rq[c], u.rq[c]) /\ SameCounts(s.rq[c], u.rq[c])
        /\ u.rq[c].queue = l /\ u.rq[c].pushable = s.rq[c].pushable
        /\ u.rq[c].next = s.rq[c].next
        /\ SameAttr(s, u, Task)
    BY <1>2, <1>4, ListedFacts
  <1> HIDE DEF u
  <1>6. SameAttr(s, u, Q) /\ u.rq[c] \in RqType
    BY <1>5, RqFacts DEF SameAttr
  <1>7. /\ Best(u, u.rq[c].highest, Q) /\ Movable(u, Q) = Movable(s, Q)
        /\ Pushable(u, s.rq[c], Movable(s, Q) \ {x})
    BY <1>1, <1>5, <1>6, AttrCarries DEF SameCounts
  <1>8. u.rq[c].highest \in Prio
    BY <1>6 DEF RqType
  <1>9. Best(u, BestPrio(u, l), R) /\ BestPrio(u, l) \in Prio /\ (l = <<>> <=> R = {})
    BY <1>2, <1>5, BestOfList
  <1>10. Best(u, prio, R) /\ prio \in Prio
    <2>1. CASE l = <<>>
      BY <1>5, <1>9, <2>1, Names DEF Best
    <2>2. CASE l # <<>> /\ u.task[p].prio = u.rq[c].highest
      BY <1>5, <1>9, <2>2
    <2>3. CASE l # <<>> /\ u.task[p].prio # u.rq[c].highest
      BY <1>5, <1>7, <1>8, <1>9, <2>3 DEF Best
    <2> QED
      BY <2>1, <2>2, <2>3
  <1> HIDE DEF prio
  <1>11. /\ Registered(u, c)
         /\ u.rd.cpupri[c] = IF u.rq[c].online THEN u.rq[c].highest ELSE INVALID
    BY <1>1, <1>5 DEF Registered, SameRunning, SameCounts
  <1>12. /\ v \in StateType /\ v.task = u.task /\ Elsewhere(u, v, c) /\ Registered(v, c)
         /\ SameRunning(u.rq[c], v.rq[c]) /\ SameLists(u.rq[c], v.rq[c])
         /\ v.rq[c].migratory = u.rq[c].migratory
         /\ v.rq[c].highest = prio
         /\ v.rd.cpupri[c] = IF v.rq[c].online THEN v.rq[c].highest ELSE INVALID
    BY <1>5, <1>10, <1>11, NewHighest
  <1> HIDE DEF v
  <1>13. /\ ListOf(v.rq[c].queue, R) /\ Movable(v, Q) = Movable(s, Q)
         /\ migratory(v, p) = migratory(s, p)
    BY <1>2, <1>5, <1>7, <1>12 DEF SameLists, Movable, migratory, SameAttr
  <1>14. /\ n = Cardinality(Movable(v, R)) /\ n \in Nat /\ Movable(v, R) = Movable(s, Q) \ {p}
    <2>1. Movable(v, R) = Movable(s, Q) \ {p} /\ (migratory(s, p) <=> p \in Movable(s, Q))
      BY <1>13 DEF Movable
    <2>2. v.rq[c].migratory = Cardinality(Movable(s, Q))
      BY <1>1, <1>5, <1>12 DEF SameCounts
    <2>3. IsFiniteSet(Movable(s, Q)) /\ Cardinality(Movable(s, Q)) \in Nat
      BY Counted
    <2>4. CASE migratory(s, p)
      <3>1. Cardinality(Movable(s, Q) \ {p}) = Cardinality(Movable(s, Q)) - 1
        BY <2>1, <2>3, <2>4, FS_RemoveElement
      <3>2. IsFiniteSet(Movable(s, Q) \ {p})
        BY <2>3, FS_RemoveElement
      <3>3. Cardinality(Movable(s, Q) \ {p}) \in Nat
        BY <3>2, FS_CardinalityType
      <3> QED
        BY <1>13, <2>1, <2>2, <2>3, <2>4, <3>1, <3>3
    <2>5. CASE ~ migratory(s, p)
      <3>1. Movable(s, Q) \ {p} = Movable(s, Q)
        BY <2>1, <2>5
      <3> QED
        BY <1>13, <2>1, <2>2, <2>3, <2>5, <3>1
    <2> QED
      BY <2>4, <2>5
  <1> HIDE DEF n
  <1>15. /\ w \in StateType /\ w.task = v.task /\ Elsewhere(v, w, c) /\ Registered(w, c)
         /\ w.rd.cpupri = v.rd.cpupri
         /\ SameRunning(v.rq[c], w.rq[c]) /\ SameLists(v.rq[c], w.rq[c])
         /\ w.rq[c].highest = v.rq[c].highest
         /\ w.rq[c].migratory = n
         /\ w.rq[c].overloaded <=> Movable(v, R) # {} /\ Cardinality(R) > 1
    <2> HIDE DEF R
    <2>1. R \in SUBSET Task
      BY DEF R
    <2>2. v \in StateType /\ Registered(v, c) /\ ListOf(v.rq[c].queue, R)
      BY <1>12, <1>13
    <2>3. n \in Nat /\ n = Cardinality(Movable(v, R))
      BY <1>14
    <2> QED
      BY <2>1, <2>2, <2>3, CountMigratory
  <1> HIDE DEF w
  <1>16. /\ Movable(w, R) = Movable(v, R) /\ Best(w, w.rq[c].highest, R)
         /\ Pushable(w, w.rq[c], Movable(s, Q) \ {x})
         /\ ListOf(w.rq[c].queue, R)
    <2>1. w.task = u.task
      BY <1>12, <1>15
    <2>2. Movable(w, R) = Movable(v, R)
      BY <1>15 DEF Movable, migratory
    <2>3. Best(w, w.rq[c].highest, R)
      BY <1>10, <1>12, <1>15, <2>1 DEF Best
    <2>4. w.rq[c].pushable = s.rq[c].pushable /\ w.rq[c].next = s.rq[c].next
      BY <1>5, <1>12, <1>15 DEF SameLists
    <2>5. Pushable(w, w.rq[c], Movable(s, Q) \ {x})
      BY <1>7, <2>1, <2>4 DEF Pushable, InOrder, Best
    <2> QED
      BY <1>13, <1>15, <2>2, <2>3, <2>5 DEF SameLists
  <1>17. CountsExact(w, c, R)
    BY <1>12, <1>14, <1>15, <1>16 DEF CountsExact, Registered, SameRunning
  <1>18. OnQueue(s, w, c) /\ w.task = [s.task EXCEPT ![p].on_rq = FALSE]
    BY <1>5, <1>12, <1>15 DEF OnQueue, Elsewhere, SameRunning, Registered
  <1>19. Movable(s, Q) \ {x} \in SUBSET Task
    BY DEF Movable
  <1>20. /\ t \in StateType /\ t.task = w.task /\ t.rd = w.rd
         /\ \A d \in CPU \ {c} : t.rq[d] = w.rq[d]
         /\ t.rq[c].queue = w.rq[c].queue
         /\ SameRunning(w.rq[c], t.rq[c]) /\ SameCounts(w.rq[c], t.rq[c])
         /\ Pushable(t, t.rq[c], (Movable(s, Q) \ {x}) \ {p})
    BY <1>15, <1>16, <1>19, DequeuePushable
  <1> HIDE DEF t
  <1>21. Movable(t, R) = Movable(w, R) /\ Movable(t, R) \ {x} = (Movable(s, Q) \ {x}) \ {p}
    <2>1. Movable(t, R) = Movable(w, R)
      BY <1>20 DEF Movable, migratory
    <2> QED
      BY <1>14, <1>16, <2>1
  <1>22. ListsExact(t, c, R, x)
    BY <1>16, <1>20, <1>21 DEF ListsExact
  <1>23. CountsExact(t, c, R)
    BY <1>17, <1>20, <1>21 DEF CountsExact, SameCounts, SameRunning, Best
  <1>24. OnQueue(s, t, c)
    BY <1>18, <1>20 DEF OnQueue, Elsewhere, SameRunning
  <1> QED
    BY <1>3, <1>18, <1>20, <1>22, <1>23, <1>24 DEF Exact

-----------------------------------------------------------------------------
(* The books of all CPUs *)

\* No CPU switches or is told to, and only the lists of c change.
Quietly(s, t, c) ==
    /\ \A d \in CPU : SameRunning(s.rq[d], t.rq[d])
    /\ \A d \in CPU \ {c} : t.rq[d] = s.rq[d]

\* One task becomes y.
WithTask(s, p, y) == [s EXCEPT !.task[p] = y]

LEMMA QueuedFacts ==
    ASSUME NEW s \in StateType, NEW c \in CPU, NEW p \in Task
    PROVE  /\ Queued(s, c) \in SUBSET Task
           /\ p \in Queued(s, c) <=> /\ s.task[p].prio < MAX_RT_PRIO /\ s.task[p].on_rq
                                     /\ s.task[p].cpu = c
  BY TaskFacts DEF Queued

\* The queues do not see a change of a task that is on none of them.
LEMMA TaskBooks ==
    ASSUME NEW s, Books(s), NEW p \in Task, NEW y \in TaskType,
           ~ (s.task[p].prio < MAX_RT_PRIO /\ s.task[p].on_rq),
           ~ (y.prio < MAX_RT_PRIO /\ y.on_rq),
           \A d \in CPU : s.rq[d].curr = p => y.cpu = d
    PROVE  Books(WithTask(s, p, y))
  <1> DEFINE t == WithTask(s, p, y)
  <1> HIDE DEF t
  <1>1. s \in StateType /\ t = WithTask(s, p, y)
    BY DEF Books, t
  <1>2. /\ t \in StateType /\ t.task[p] = y /\ \A q \in Task \ {p} : t.task[q] = s.task[q]
        /\ t.rd = s.rd /\ t.rq = s.rq
    BY <1>1 DEF WithTask, StateType
  <1>3. ASSUME NEW c \in CPU PROVE Exact(t, c, Queued(t, c), t.rq[c].curr)
    <2>1. p \notin Queued(s, c) /\ p \notin Queued(t, c)
      BY <1>1, <1>2, QueuedFacts
    <2>2. Queued(s, c) \in SUBSET Task /\ Queued(t, c) \in SUBSET Task
      BY DEF Queued
    <2>3. ASSUME NEW q \in Task \ {p} PROVE q \in Queued(t, c) <=> q \in Queued(s, c)
      BY <1>1, <1>2, <2>3, QueuedFacts
    <2>4. Queued(t, c) = Queued(s, c)
      BY <2>1, <2>2, <2>3
    <2>5. SameAttr(s, t, Queued(s, c))
      BY <1>2, <2>1, <2>2 DEF SameAttr
    <2>6. Exact(s, c, Queued(s, c), s.rq[c].curr)
      BY DEF Books
    <2> QED
      BY <1>2, <2>4, <2>5, <2>6, ExactCarries
  <1>4. CurrHere(t)
    <2> SUFFICES ASSUME NEW c \in CPU, t.rq[c].curr # IDLE
                 PROVE  t.task[t.rq[c].curr].cpu = c
      BY DEF CurrHere
    <2>1. s.rq[c].curr \in Task /\ t.rq[c].curr = s.rq[c].curr
      BY <1>1, <1>2, RqFacts DEF RqType
    <2>2. s.task[s.rq[c].curr].cpu = c
      BY <1>2 DEF Books, CurrHere
    <2> QED
      BY <1>2, <2>1, <2>2
  <1> QED
    BY <1>2, <1>3, <1>4 DEF Books, t

\* A queue has got or lost p.
LEMMA QueueBooks ==
    ASSUME NEW s, Books(s), NEW t, NEW c \in CPU, NEW p \in Task, OnQueue(s, t, c),
           \A q \in Task \ {p} : t.task[q] = s.task[q],
           s.task[p].cpu = c, t.task[p].cpu = c,
           Exact(t, c, Queued(t, c), s.rq[c].curr)
    PROVE  Books(t) /\ Quietly(s, t, c)
  <1>1. s \in StateType /\ t \in StateType
    BY DEF Books, OnQueue
  <1>2. Elsewhere(s, t, c) /\ SameRunning(s.rq[c], t.rq[c])
    BY DEF OnQueue
  <1>3. Quietly(s, t, c)
    BY <1>2 DEF Quietly, Elsewhere, SameRunning
  <1>4. ASSUME NEW d \in CPU PROVE Exact(t, d, Queued(t, d), t.rq[d].curr)
    <2>1. CASE d = c
      BY <1>2, <2>1 DEF SameRunning
    <2>2. CASE d # c
      <3>1. p \notin Queued(s, d) /\ p \notin Queued(t, d)
        BY <1>1, <2>2, QueuedFacts
      <3>2. Queued(s, d) \in SUBSET Task /\ Queued(t, d) \in SUBSET Task
        BY DEF Queued
      <3>3. ASSUME NEW q \in Task \ {p} PROVE q \in Queued(t, d) <=> q \in Queued(s, d)
        BY <1>1, <3>3, QueuedFacts
      <3>4. Queued(t, d) = Queued(s, d)
        BY <3>1, <3>2, <3>3
      <3>5. SameAttr(s, t, Queued(s, d))
        BY <3>1, <3>2 DEF SameAttr
      <3>6. Exact(s, d, Queued(s, d), s.rq[d].curr)
        BY DEF Books
      <3>7. /\ t.rq[d] = s.rq[d] /\ t.rd.cpupri[d] = s.rd.cpupri[d]
            /\ d \in t.rd.rto_mask <=> d \in s.rd.rto_mask
        BY <1>2, <2>2 DEF Elsewhere
      <3> QED
        BY <3>4, <3>5, <3>6, <3>7, ExactCarries
    <2> QED
      BY <2>1, <2>2
  <1>5. CurrHere(t)
    <2> SUFFICES ASSUME NEW d \in CPU, t.rq[d].curr # IDLE
                 PROVE  t.task[t.rq[d].curr].cpu = d
      BY DEF CurrHere
    <2>1. t.rq[d].curr = s.rq[d].curr
      BY <1>3 DEF Quietly, SameRunning
    <2>2. s.rq[d].curr \in Task /\ s.task[s.rq[d].curr].cpu = d
      BY <1>1, <2>1, RqFacts DEF RqType, Books, CurrHere
    <2> QED
      BY <2>1, <2>2
  <1> QED
    BY <1>1, <1>3, <1>4, <1>5 DEF Books, OnQueue

LEMMA EnqueueBooks ==
    ASSUME NEW s, Books(s), NEW c \in CPU, NEW p \in Task, NEW head,
           ~ s.task[p].on_rq, s.task[p].cpu = c, s.task[p].prio < MAX_RT_PRIO
    PROVE  LET t == enqueue_task_rt(s, c, p, head) IN
           /\ Books(t) /\ Quietly(s, t, c) /\ t.task = [s.task EXCEPT ![p].on_rq = TRUE]
  <1> DEFINE t == enqueue_task_rt(s, c, p, head)
  <1>1. /\ s \in StateType /\ Exact(s, c, Queued(s, c), s.rq[c].curr)
        /\ s.rd.rto_count = Cardinality(s.rd.rto_mask)
        /\ Queued(s, c) \in SUBSET Task
    BY DEF Books, Queued
  <1>2. p \notin Queued(s, c)
    BY <1>1, QueuedFacts
  <1>3. /\ OnQueue(s, t, c) /\ t.task = [s.task EXCEPT ![p].on_rq = TRUE]
        /\ Exact(t, c, Queued(s, c) \cup {p}, s.rq[c].curr)
    BY <1>1, <1>2, EnqueueTask
  <1> HIDE DEF t
  <1>4. s.task \in [Task -> TaskType] /\ s.task[p] \in TaskType
    BY <1>1, TaskFacts
  <1>5. /\ \A q \in Task \ {p} : t.task[q] = s.task[q]
        /\ t.task[p] = [s.task[p] EXCEPT !.on_rq = TRUE]
    BY <1>3, <1>4
  <1>6. t.task[p].cpu = c /\ t.task[p].on_rq /\ t.task[p].prio < MAX_RT_PRIO
    BY <1>4, <1>5 DEF TaskType
  <1>7. t \in StateType
    BY <1>3 DEF OnQueue
  <1>8. Queued(t, c) = Queued(s, c) \cup {p}
    <2>1. p \in Queued(t, c)
      BY <1>6, <1>7, QueuedFacts
    <2>2. ASSUME NEW q \in Task \ {p} PROVE q \in Queued(t, c) <=> q \in Queued(s, c)
      BY <1>1, <1>5, <1>7, <2>2, QueuedFacts
    <2>3. Queued(s, c) \in SUBSET Task /\ Queued(t, c) \in SUBSET Task
      BY DEF Queued
    <2> QED
      BY <2>1, <2>2, <2>3
  <1>9. Books(t) /\ Quietly(s, t, c)
    BY <1>3, <1>5, <1>6, <1>8, QueueBooks
  <1> QED
    BY <1>3, <1>9 DEF t

LEMMA DequeueBooks ==
    ASSUME NEW s, Books(s), NEW c \in CPU, NEW p \in Task,
           s.task[p].on_rq, s.task[p].cpu = c, s.task[p].prio < MAX_RT_PRIO
    PROVE  LET t == dequeue_task_rt(s, c, p) IN
           /\ Books(t) /\ Quietly(s, t, c) /\ t.task = [s.task EXCEPT ![p].on_rq = FALSE]
  <1> DEFINE t == dequeue_task_rt(s, c, p)
  <1>1. /\ s \in StateType /\ Exact(s, c, Queued(s, c), s.rq[c].curr)
        /\ s.rd.rto_count = Cardinality(s.rd.rto_mask)
        /\ Queued(s, c) \in SUBSET Task
    BY DEF Books, Queued
  <1>2. p \in Queued(s, c)
    BY <1>1, QueuedFacts
  <1>3. /\ OnQueue(s, t, c) /\ t.task = [s.task EXCEPT ![p].on_rq = FALSE]
        /\ Exact(t, c, Queued(s, c) \ {p}, s.rq[c].curr)
    BY <1>1, <1>2, DequeueTask
  <1> HIDE DEF t
  <1>4. s.task \in [Task -> TaskType] /\ s.task[p] \in TaskType
    BY <1>1, TaskFacts
  <1>5. /\ \A q \in Task \ {p} : t.task[q] = s.task[q]
        /\ t.task[p] = [s.task[p] EXCEPT !.on_rq = FALSE]
    BY <1>3, <1>4
  <1>6. t.task[p].cpu = c /\ ~ t.task[p].on_rq
    BY <1>4, <1>5 DEF TaskType
  <1>7. t \in StateType
    BY <1>3 DEF OnQueue
  <1>8. Queued(t, c) = Queued(s, c) \ {p}
    <2>1. p \notin Queued(t, c)
      BY <1>6, <1>7, QueuedFacts
    <2>2. ASSUME NEW q \in Task \ {p} PROVE q \in Queued(t, c) <=> q \in Queued(s, c)
      BY <1>1, <1>5, <1>7, <2>2, QueuedFacts
    <2>3. Queued(s, c) \in SUBSET Task /\ Queued(t, c) \in SUBSET Task
      BY DEF Queued
    <2> QED
      BY <2>1, <2>2, <2>3
  <1>9. Books(t) /\ Quietly(s, t, c)
    BY <1>3, <1>5, <1>6, <1>8, QueueBooks
  <1> QED
    BY <1>3, <1>9 DEF t

\* The other tasks are left alone.
OnlyTask(s, t, p, y) == t.task[p] = y /\ \A q \in Task \ {p} : t.task[q] = s.task[q]

LEMMA ActivateBooks ==
    ASSUME NEW s, Books(s), NEW c \in CPU, NEW p \in Task, ~ s.task[p].on_rq,
           \A d \in CPU : s.rq[d].curr = p => d = c,
           NEW t, t = activate_task(s, c, p)
    PROVE  /\ Books(t) /\ Quietly(s, t, c)
           /\ OnlyTask(s, t, p, [s.task[p] EXCEPT !.cpu = c, !.on_rq = TRUE])
  <1> DEFINE y == [s.task[p] EXCEPT !.cpu = c]
             z == [s.task[p] EXCEPT !.cpu = c, !.on_rq = TRUE]
             u == WithTask(s, p, y)
  <1>1. s \in StateType /\ s.task \in [Task -> TaskType] /\ s.task[p] \in TaskType
    BY TaskFacts DEF Books
  <1>2. y \in TaskType /\ y.cpu = c /\ ~ y.on_rq /\ y.prio = s.task[p].prio
    BY <1>1 DEF TaskType
  <1>3. z \in TaskType /\ z = [y EXCEPT !.on_rq = TRUE] /\ z.cpu = c /\ z.on_rq
        /\ z.prio = s.task[p].prio
    BY <1>1 DEF TaskType
  <1>4. u = [s EXCEPT !.task[p].cpu = c]
    BY <1>1 DEF WithTask, StateType
  <1> HIDE DEF y, z
  <1>6. Books(u)
    BY <1>2, TaskBooks
  <1>7. /\ u \in StateType /\ u.task[p] = y /\ \A q \in Task \ {p} : u.task[q] = s.task[q]
        /\ u.rd = s.rd /\ u.rq = s.rq /\ u.task \in [Task -> TaskType]
    BY <1>1, <1>2 DEF WithTask, StateType
  <1> HIDE DEF u
  <1>5. t = IF rt_task(s, p) THEN enqueue_task_rt(u, c, p, FALSE)
            ELSE [u EXCEPT !.task[p].on_rq = TRUE]
    BY <1>4 DEF activate_task
  <1>8. CASE s.task[p].prio < MAX_RT_PRIO
    <2>1. t = enqueue_task_rt(u, c, p, FALSE)
      BY <1>1, <1>5, <1>8, TaskFacts
    <2>2. ~ u.task[p].on_rq /\ u.task[p].cpu = c /\ u.task[p].prio < MAX_RT_PRIO
      BY <1>2, <1>7, <1>8
    <2>3. Books(t) /\ Quietly(u, t, c) /\ t.task = [u.task EXCEPT ![p].on_rq = TRUE]
      <3>0. PICK head : head = FALSE
        OBVIOUS
      <3> DEFINE v == enqueue_task_rt(u, c, p, head)
      <3>1. Books(v) /\ Quietly(u, v, c) /\ v.task = [u.task EXCEPT ![p].on_rq = TRUE]
        BY <1>6, <2>2, EnqueueBooks
      <3> HIDE DEF v
      <3>2. t = v
        BY <2>1, <3>0 DEF v
      <3> QED
        BY <3>1, <3>2
    <2>4. OnlyTask(s, t, p, z)
      BY <1>3, <1>7, <2>3 DEF OnlyTask
    <2>5. Quietly(s, t, c)
      BY <1>7, <2>3 DEF Quietly
    <2> QED
      BY <2>3, <2>4, <2>5 DEF z
  <1>9. CASE ~ (s.task[p].prio < MAX_RT_PRIO)
    <2>1. t = WithTask(u, p, z)
      BY <1>1, <1>3, <1>5, <1>7, <1>9, TaskFacts DEF WithTask, StateType
    <2>2. ~ u.task[p].on_rq /\ z \in TaskType /\ ~ (z.prio < MAX_RT_PRIO)
          /\ \A d \in CPU : u.rq[d].curr = p => z.cpu = d
      BY <1>2, <1>3, <1>7, <1>9
    <2>3. Books(t)
      BY <1>6, <2>1, <2>2, TaskBooks
    <2>4. t.task[p] = z /\ (\A q \in Task \ {p} : t.task[q] = u.task[q]) /\ t.rq = u.rq
      BY <1>7, <2>1, <2>2 DEF WithTask, StateType
    <2>5. OnlyTask(s, t, p, z) /\ Quietly(s, t, c)
      BY <1>7, <2>4 DEF OnlyTask, Quietly, SameRunning
    <2> QED
      BY <2>3, <2>5 DEF z
  <1> QED
    BY <1>8, <1>9

LEMMA DeactivateBooks ==
    ASSUME NEW s, Books(s), NEW c \in CPU, NEW p \in Task, s.task[p].on_rq, s.task[p].cpu = c,
           NEW t, t = deactivate_task(s, c, p)
    PROVE  /\ Books(t) /\ Quietly(s, t, c)
           /\ OnlyTask(s, t, p, [s.task[p] EXCEPT !.on_rq = FALSE])
  <1> DEFINE z == [s.task[p] EXCEPT !.on_rq = FALSE]
  <1>1. s \in StateType /\ s.task \in [Task -> TaskType] /\ s.task[p] \in TaskType
    BY TaskFacts DEF Books
  <1>2. z \in TaskType /\ z.cpu = c /\ ~ z.on_rq /\ z.prio = s.task[p].prio
    BY <1>1 DEF TaskType
  <1>3. CASE s.task[p].prio < MAX_RT_PRIO
    <2>1. t = dequeue_task_rt(s, c, p)
      BY <1>1, <1>3, TaskFacts DEF deactivate_task
    <2>2. Books(t) /\ Quietly(s, t, c) /\ t.task = [s.task EXCEPT ![p].on_rq = FALSE]
      BY <1>3, <2>1, DequeueBooks
    <2> QED
      BY <1>1, <2>2 DEF OnlyTask
  <1>4. CASE ~ (s.task[p].prio < MAX_RT_PRIO)
    <2>1. t = WithTask(s, p, z)
      BY <1>1, <1>4, TaskFacts DEF WithTask, StateType, deactivate_task
    <2> HIDE DEF z
    <2>2. \A d \in CPU : s.rq[d].curr = p => z.cpu = d
      BY <1>2, Names DEF Books, CurrHere
    <2>3. Books(t)
      BY <1>2, <1>4, <2>1, <2>2, TaskBooks
    <2>4. t.task[p] = z /\ (\A q \in Task \ {p} : t.task[q] = s.task[q]) /\ t.rq = s.rq
      BY <1>1, <1>2, <2>1 DEF WithTask, StateType
    <2> QED
      BY <2>3, <2>4 DEF OnlyTask, Quietly, SameRunning, z
  <1> QED
    BY <1>3, <1>4

\* A task that waits on one CPU is moved to another one.
LEMMA MoveBooks ==
    ASSUME NEW s, Books(s), NEW c \in CPU, NEW d \in CPU, NEW p \in Task,
           s.task[p].on_rq, s.task[p].cpu = c, s.rq[c].curr # p,
           NEW t, t = move_task(s, p, c, d)
    PROVE  /\ Books(t) /\ \A e \in CPU : SameRunning(s.rq[e], t.rq[e])
           /\ \A e \in CPU \ {c, d} : t.rq[e] = s.rq[e]
           /\ OnlyTask(s, t, p, [s.task[p] EXCEPT !.cpu = d])
  <1> DEFINE u == deactivate_task(s, c, p)
  <1>1. s \in StateType /\ s.task \in [Task -> TaskType] /\ s.task[p] \in TaskType
    BY TaskFacts DEF Books
  <1>2. t = activate_task(u, d, p)
    BY DEF move_task
  <1>3. /\ Books(u) /\ Quietly(s, u, c)
        /\ OnlyTask(s, u, p, [s.task[p] EXCEPT !.on_rq = FALSE])
    BY DeactivateBooks
  <1> HIDE DEF u
  <1>4. \A e \in CPU : u.rq[e].curr # p
    <2>1. \A e \in CPU : s.rq[e].curr # p
      BY Names DEF Books, CurrHere
    <2> QED
      BY <1>3, <2>1 DEF Quietly, SameRunning
  <1>5. ~ u.task[p].on_rq
    BY <1>1, <1>3 DEF OnlyTask, TaskType
  <1>6. /\ Books(t) /\ Quietly(u, t, d)
        /\ OnlyTask(u, t, p, [u.task[p] EXCEPT !.cpu = d, !.on_rq = TRUE])
    BY <1>2, <1>3, <1>4, <1>5, ActivateBooks
  <1>7. [[s.task[p] EXCEPT !.on_rq = FALSE] EXCEPT !.cpu = d, !.on_rq = TRUE]
          = [s.task[p] EXCEPT !.cpu = d]
    BY <1>1 DEF TaskType
  <1>8. OnlyTask(s, t, p, [s.task[p] EXCEPT !.cpu = d])
    BY <1>3, <1>6, <1>7 DEF OnlyTask
  <1>9. /\ \A e \in CPU : SameRunning(s.rq[e], t.rq[e])
        /\ \A e \in CPU \ {c, d} : t.rq[e] = s.rq[e]
    BY <1>3, <1>6 DEF Quietly, SameRunning
  <1> QED
    BY <1>6, <1>8, <1>9

\* Only flags of the queue of c change, or the order of the tasks on it.
Steady(s, t, c) ==
    /\ \A d \in CPU \ {c} : t.rq[d] = s.rq[d]
    /\ t.rq[c].curr = s.rq[c].curr /\ t.rq[c].online = s.rq[c].online
    /\ t.task = s.task /\ t.rd = s.rd

LEMMA FlagBooks ==
    ASSUME NEW s, Books(s), NEW c \in CPU, NEW r \in RqType,
           ListOf(r.queue, Queued(s, c)), r.pushable = s.rq[c].pushable, r.next = s.rq[c].next,
           SameCounts(s.rq[c], r), r.curr = s.rq[c].curr, r.online = s.rq[c].online,
           NEW t, t = WithRq(s, c, r)
    PROVE  Books(t) /\ Steady(s, t, c) /\ t.rq[c] = r
  <1>1. s \in StateType
    BY DEF Books
  <1>2. /\ t \in StateType /\ t.rq[c] = r /\ t.rd = s.rd /\ t.task = s.task
        /\ \A d \in CPU \ {c} : t.rq[d] = s.rq[d]
    BY <1>1 DEF WithRq, StateType
  <1>3. ASSUME NEW d \in CPU PROVE Exact(t, d, Queued(t, d), t.rq[d].curr)
    <2>1. Queued(t, d) = Queued(s, d) /\ SameAttr(s, t, Queued(s, d))
      BY <1>2 DEF Queued, rt_task, PrioOf, SameAttr
    <2>2. Exact(s, d, Queued(s, d), s.rq[d].curr)
      BY DEF Books
    <2>3. CASE d # c
      BY <1>2, <2>1, <2>2, <2>3, ExactCarries
    <2>4. CASE d = c
      <3> DEFINE Q == Queued(s, c)
                 x == s.rq[c].curr
      <3> HIDE DEF Q, x
      <3>1. /\ ListOf(s.rq[c].queue, Q) /\ Pushable(s, s.rq[c], Movable(s, Q) \ {x})
            /\ CountsExact(s, c, Q)
        BY <2>2, <2>4 DEF Exact, ListsExact, Q, x
      <3>2. Movable(t, Q) = Movable(s, Q)
        BY <1>2 DEF Movable, migratory
      <3>3. Pushable(t, r, Movable(t, Q) \ {x}) /\ ListOf(r.queue, Q)
        BY <1>2, <3>1, <3>2 DEF Pushable, InOrder, Best, Q
      <3>4. ListsExact(t, c, Q, x)
        BY <1>2, <3>3 DEF ListsExact
      <3>5. CountsExact(t, c, Q)
        BY <1>2, <3>1, <3>2 DEF CountsExact, SameCounts, Best
      <3> QED
        BY <1>2, <2>1, <2>4, <3>4, <3>5 DEF Exact, Q, x
    <2> QED
      BY <2>3, <2>4
  <1>4. CurrHere(t)
    BY <1>2 DEF Books, CurrHere
  <1> QED
    BY <1>2, <1>3, <1>4 DEF Books, Steady

\* What FlagBooks asks of the queue of c.
LEMMA BooksFacts ==
    ASSUME NEW s, Books(s), NEW c \in CPU
    PROVE  /\ s \in StateType /\ s.rq[c] \in RqType /\ Queued(s, c) \in SUBSET Task
           /\ ListOf(s.rq[c].queue, Queued(s, c))
           /\ Pushable(s, s.rq[c], Movable(s, Queued(s, c)) \ {s.rq[c].curr})
           /\ CountsExact(s, c, Queued(s, c))
           /\ s.rq[c].curr # IDLE => s.rq[c].curr \in Task /\ s.task[s.rq[c].curr].cpu = c
  <1>1. s \in StateType /\ s.rq[c] \in RqType /\ Queued(s, c) \in SUBSET Task
    BY RqFacts DEF Books, Queued
  <1>2. Exact(s, c, Queued(s, c), s.rq[c].curr)
    BY DEF Books
  <1>3. s.rq[c].curr # IDLE => s.rq[c].curr \in Task /\ s.task[s.rq[c].curr].cpu = c
    BY <1>1 DEF Books, CurrHere, RqType
  <1> QED
    BY <1>1, <1>2, <1>3 DEF Exact, ListsExact

LEMMA ReschedBooks ==
    ASSUME NEW s, Books(s), NEW c \in CPU, NEW t, t = resched_curr(s, c)
    PROVE  Books(t) /\ Steady(s, t, c)
  <1> DEFINE r == [s.rq[c] EXCEPT !.resched = TRUE]
  <1>1. s \in StateType /\ s.rq[c] \in RqType /\ ListOf(s.rq[c].queue, Queued(s, c))
    BY BooksFacts
  <1>2. t = WithRq(s, c, r)
    BY <1>1 DEF resched_curr, WithRq, StateType
  <1>3. /\ r \in RqType /\ r.queue = s.rq[c].queue /\ r.pushable = s.rq[c].pushable
        /\ r.next = s.rq[c].next /\ SameCounts(s.rq[c], r)
        /\ r.curr = s.rq[c].curr /\ r.online = s.rq[c].online
    BY <1>1 DEF RqType, SameCounts
  <1> HIDE DEF r
  <1> QED
    BY <1>1, <1>2, <1>3, FlagBooks

LEMMA PostBooks ==
    ASSUME NEW s, Books(s), NEW c \in CPU, NEW t, t = [s EXCEPT !.rq[c].post = FALSE]
    PROVE  Books(t) /\ Steady(s, t, c) /\ t.rq[c].resched = s.rq[c].resched
  <1> DEFINE r == [s.rq[c] EXCEPT !.post = FALSE]
  <1>1. s \in StateType /\ s.rq[c] \in RqType /\ ListOf(s.rq[c].queue, Queued(s, c))
    BY BooksFacts
  <1>2. t = WithRq(s, c, r)
    BY <1>1 DEF WithRq, StateType
  <1>3. /\ r \in RqType /\ r.queue = s.rq[c].queue /\ r.pushable = s.rq[c].pushable
        /\ r.next = s.rq[c].next /\ SameCounts(s.rq[c], r)
        /\ r.curr = s.rq[c].curr /\ r.online = s.rq[c].online /\ r.resched = s.rq[c].resched
    BY <1>1 DEF RqType, SameCounts
  <1> DEFINE u == WithRq(s, c, r)
  <1> HIDE DEF r, u
  <1>4. ListOf(r.queue, Queued(s, c)) /\ u = WithRq(s, c, r)
    BY <1>1, <1>3 DEF u
  <1>5. Books(u) /\ Steady(s, u, c) /\ u.rq[c] = r
    BY <1>3, <1>4, FlagBooks
  <1> QED
    BY <1>2, <1>3, <1>5 DEF u

LEMMA PreemptBooks ==
    ASSUME NEW s, Books(s), NEW c \in CPU, NEW p \in Task, s.task[p].on_rq, s.task[p].cpu = c,
           NEW t, t = check_preempt_curr(s, c, p)
    PROVE  Books(t) /\ Steady(s, t, c)
  <1> DEFINE v == [s EXCEPT !.rq[c].queue = <<p>> \o Delete(@, p)]
  <1>1. \/ t = s
        \/ t = resched_curr(s, c)
        \/ rt_task(s, p) /\ t = resched_curr(v, c)
    <2> HIDE DEF v
    <2>1. \/ t = s
          \/ t = resched_curr(s, c)
          \/ rt_task(s, p) /\ t = check_preempt_equal_prio(s, c, p)
      BY DEF check_preempt_curr
    <2>2. check_preempt_equal_prio(s, c, p) \in {s, resched_curr(v, c)}
      BY DEF check_preempt_equal_prio, v
    <2> QED
      BY <2>1, <2>2
  <1>2. CASE t = s
    BY <1>2 DEF Steady
  <1>3. CASE t = resched_curr(s, c)
    BY <1>3, ReschedBooks
  <1>4. CASE rt_task(s, p) /\ t = resched_curr(v, c)
    <2> DEFINE l == <<p>> \o Delete(s.rq[c].queue, p)
               r == [s.rq[c] EXCEPT !.queue = l]
    <2>1. s \in StateType /\ s.rq[c] \in RqType /\ ListOf(s.rq[c].queue, Queued(s, c))
      BY BooksFacts
    <2>2. p \in Queued(s, c)
      BY <1>4 DEF Queued
    <2>3. ListOf(l, Queued(s, c)) /\ l \in Seq(Task)
      <3> DEFINE m == Delete(s.rq[c].queue, p)
      <3>1. m \in Seq(Task) /\ Distinct(m) /\ Elems(m) = Queued(s, c) \ {p}
        BY <2>1, DeleteFacts DEF ListOf
      <3> HIDE DEF m
      <3>2. /\ <<p>> \o m \in Seq(Task) /\ Distinct(<<p>> \o m)
            /\ Elems(<<p>> \o m) = (Queued(s, c) \ {p}) \cup {p}
        BY <3>1, PrependFacts
      <3>3. ListOf(<<p>> \o m, Queued(s, c))
        BY <2>2, <3>2 DEF ListOf
      <3> QED
        BY <3>2, <3>3 DEF m
    <2>4. v = WithRq(s, c, r)
      BY <2>1 DEF WithRq, StateType
    <2> HIDE DEF l, v
    <2>5. /\ r \in RqType /\ r.queue = l /\ r.pushable = s.rq[c].pushable
          /\ r.next = s.rq[c].next /\ SameCounts(s.rq[c], r)
          /\ r.curr = s.rq[c].curr /\ r.online = s.rq[c].online
      BY <2>1, <2>3 DEF RqType, SameCounts
    <2> HIDE DEF r
    <2>6. Books(v) /\ Steady(s, v, c)
      BY <2>3, <2>4, <2>5, FlagBooks
    <2>7. Books(t) /\ Steady(v, t, c)
      BY <1>4, <2>6, ReschedBooks
    <2> QED
      BY <2>6, <2>7 DEF Steady
  <1> HIDE DEF v
  <1> QED
    BY <1>1, <1>2, <1>3, <1>4

LEMMA PrioBooks ==
    ASSUME NEW s, Books(s), NEW p \in Task, s.task[p].on_rq, NEW prio \in Prio,
           NEW c \in CPU, c = s.task[p].cpu, NEW t, t = change_prio(s, p, prio)
    PROVE  /\ Books(t) /\ Quietly(s, t, c)
           /\ OnlyTask(s, t, p, [s.task[p] EXCEPT !.prio = prio])
  <1> DEFINE u == deactivate_task(s, c, p)
             y == [s.task[p] EXCEPT !.on_rq = FALSE, !.prio = prio]
             z == [s.task[p] EXCEPT !.prio = prio]
             v == WithTask(u, p, y)
  <1>1. s \in StateType /\ s.task \in [Task -> TaskType] /\ s.task[p] \in TaskType
    BY TaskFacts DEF Books
  <1>2. /\ y \in TaskType /\ y.cpu = c /\ ~ y.on_rq /\ y.prio = prio
        /\ [y EXCEPT !.on_rq = TRUE] = z /\ [y EXCEPT !.cpu = c, !.on_rq = TRUE] = z
        /\ y = [[s.task[p] EXCEPT !.on_rq = FALSE] EXCEPT !.prio = prio]
    BY <1>1 DEF TaskType
  <1>3. /\ Books(u) /\ Quietly(s, u, c)
        /\ OnlyTask(s, u, p, [s.task[p] EXCEPT !.on_rq = FALSE])
    BY DeactivateBooks
  <1> HIDE DEF u
  <1>4. /\ u \in StateType /\ u.task \in [Task -> TaskType]
        /\ ~ u.task[p].on_rq /\ u.task[p].cpu = c /\ y = [u.task[p] EXCEPT !.prio = prio]
    BY <1>1, <1>2, <1>3, TaskFacts DEF Books, OnlyTask, TaskType
  <1>5. v = [u EXCEPT !.task[p].prio = prio]
    BY <1>4 DEF WithTask, StateType
  <1> HIDE DEF y, z
  <1>6. \A d \in CPU : u.rq[d].curr = p => d = c
    <2>1. CurrHere(u) /\ p # IDLE
      BY <1>3, Names DEF Books
    <2>2. SUFFICES ASSUME NEW d \in CPU, u.rq[d].curr = p
                   PROVE  d = c
      OBVIOUS
    <2>3. u.task[p].cpu = d
      BY <2>1, <2>2 DEF CurrHere
    <2> QED
      BY <1>4, <2>3
  <1>7. Books(v)
    BY <1>2, <1>3, <1>4, <1>6, TaskBooks
  <1>8. /\ v \in StateType /\ v.task[p] = y /\ \A q \in Task \ {p} : v.task[q] = u.task[q]
        /\ v.rq = u.rq /\ v.task \in [Task -> TaskType]
    BY <1>2, <1>4 DEF WithTask, StateType
  <1> HIDE DEF v
  <1>9. PICK head : head = (s.task[p].prio <= prio)
    OBVIOUS
  <1>10. t = IF prio < MAX_RT_PRIO THEN enqueue_task_rt(v, c, p, head)
             ELSE activate_task(v, c, p)
    BY <1>5, <1>9 DEF change_prio, u
  <1>11. CASE prio < MAX_RT_PRIO
    <2> DEFINE w == enqueue_task_rt(v, c, p, head)
    <2>1. ~ v.task[p].on_rq /\ v.task[p].cpu = c /\ v.task[p].prio < MAX_RT_PRIO
      BY <1>2, <1>8, <1>11
    <2>2. Books(w) /\ Quietly(v, w, c) /\ w.task = [v.task EXCEPT ![p].on_rq = TRUE]
      BY <1>7, <2>1, EnqueueBooks
    <2> HIDE DEF w
    <2>3. OnlyTask(s, w, p, z)
      BY <1>2, <1>3, <1>8, <2>2 DEF OnlyTask
    <2>4. Quietly(s, w, c)
      BY <1>3, <1>8, <2>2 DEF Quietly, SameRunning
    <2>5. t = w
      BY <1>10, <1>11 DEF w
    <2> QED
      BY <2>2, <2>3, <2>4, <2>5 DEF z
  <1>12. CASE ~ (prio < MAX_RT_PRIO)
    <2> DEFINE w == activate_task(v, c, p)
    <2> HIDE DEF w
    <2>1. ~ v.task[p].on_rq /\ (\A d \in CPU : v.rq[d].curr = p => d = c)
          /\ w = activate_task(v, c, p)
      BY <1>2, <1>6, <1>8 DEF w
    <2>2. /\ Books(w) /\ Quietly(v, w, c)
          /\ OnlyTask(v, w, p, [v.task[p] EXCEPT !.cpu = c, !.on_rq = TRUE])
      BY <1>7, <2>1, ActivateBooks
    <2>3. OnlyTask(s, w, p, z)
      BY <1>2, <1>3, <1>8, <2>2 DEF OnlyTask
    <2>4. Quietly(s, w, c)
      BY <1>3, <1>8, <2>2 DEF Quietly, SameRunning
    <2>5. t = w
      BY <1>10, <1>12 DEF w
    <2> QED
      BY <2>2, <2>3, <2>4, <2>5 DEF z
  <1> QED
    BY <1>11, <1>12

Many(mask) == Cardinality(mask) > 1

\* The movable tasks, once the mask of p has changed.
NowMovable(F, p, mask) == IF Many(mask) THEN F \cup {p} ELSE F \ {p}

\* What set_cpus_allowed_rt() does to the list of pushable tasks.
Relisted(s, c, p, x, mask) ==
    IF x = p THEN s
    ELSE IF Many(mask) THEN enqueue_pushable_task(s, c, p) ELSE dequeue_pushable_task(s, c, p)

LEMMA MaskListed ==
    ASSUME NEW s \in StateType, NEW c \in CPU, NEW p \in Task, NEW P \in SUBSET Task,
           NEW x \in Task \cup {IDLE}, NEW mask \in Masks, Pushable(s, s.rq[c], P)
    PROVE  LET u == Relisted(s, c, p, x, mask) IN
           /\ u \in StateType /\ u.task = s.task /\ u.rd = s.rd
           /\ \A d \in CPU \ {c} : u.rq[d] = s.rq[d]
           /\ u.rq[c].queue = s.rq[c].queue
           /\ SameRunning(s.rq[c], u.rq[c]) /\ SameCounts(s.rq[c], u.rq[c])
  <1> DEFINE u == Relisted(s, c, p, x, mask)
  <1>1. CASE x = p
    <2>1. u = s
      BY <1>1 DEF Relisted
    <2> HIDE DEF u
    <2> QED
      BY <1>1, <2>1 DEF SameRunning, SameCounts, u
  <1>2. CASE x # p /\ Many(mask)
    <2> DEFINE w == enqueue_pushable_task(s, c, p)
    <2>1. /\ w \in StateType /\ w.task = s.task /\ w.rd = s.rd
          /\ \A d \in CPU \ {c} : w.rq[d] = s.rq[d]
          /\ w.rq[c].queue = s.rq[c].queue
          /\ SameRunning(s.rq[c], w.rq[c]) /\ SameCounts(s.rq[c], w.rq[c])
          /\ Pushable(w, w.rq[c], P \cup {p})
      BY EnqueuePushable
    <2> HIDE DEF w
    <2>2. u = w
      BY <1>2 DEF w, Relisted
    <2> HIDE DEF u
    <2> QED
      BY <1>2, <2>1, <2>2 DEF u
  <1>3. CASE x # p /\ ~ Many(mask)
    <2> DEFINE w == dequeue_pushable_task(s, c, p)
    <2>1. /\ w \in StateType /\ w.task = s.task /\ w.rd = s.rd
          /\ \A d \in CPU \ {c} : w.rq[d] = s.rq[d]
          /\ w.rq[c].queue = s.rq[c].queue
          /\ SameRunning(s.rq[c], w.rq[c]) /\ SameCounts(s.rq[c], w.rq[c])
          /\ Pushable(w, w.rq[c], P \ {p})
      BY DequeuePushable
    <2> HIDE DEF w
    <2>2. u = w
      BY <1>3 DEF w, Relisted
    <2> HIDE DEF u
    <2> QED
      BY <1>3, <2>1, <2>2 DEF u
  <1> QED
    BY <1>1, <1>2, <1>3

LEMMA MaskPushable ==
    ASSUME NEW s \in StateType, NEW c \in CPU, NEW p \in Task, NEW P \in SUBSET Task,
           NEW x \in Task \cup {IDLE}, NEW mask \in Masks, Pushable(s, s.rq[c], P)
    PROVE  LET u == Relisted(s, c, p, x, mask) IN
           /\ x = p => Pushable(u, u.rq[c], P)
           /\ x # p /\ Many(mask) => Pushable(u, u.rq[c], P \cup {p})
           /\ x # p /\ ~ Many(mask) => Pushable(u, u.rq[c], P \ {p})
  <1> DEFINE u == Relisted(s, c, p, x, mask)
  <1>1. CASE x = p
    <2>1. u = s
      BY <1>1 DEF Relisted
    <2> HIDE DEF u
    <2> QED
      BY <1>1, <2>1 DEF SameRunning, SameCounts, u
  <1>2. CASE x # p /\ Many(mask)
    <2> DEFINE w == enqueue_pushable_task(s, c, p)
    <2>1. /\ w \in StateType /\ w.task = s.task /\ w.rd = s.rd
          /\ \A d \in CPU \ {c} : w.rq[d] = s.rq[d]
          /\ w.rq[c].queue = s.rq[c].queue
          /\ SameRunning(s.rq[c], w.rq[c]) /\ SameCounts(s.rq[c], w.rq[c])
          /\ Pushable(w, w.rq[c], P \cup {p})
      BY EnqueuePushable
    <2> HIDE DEF w
    <2>2. u = w
      BY <1>2 DEF w, Relisted
    <2> HIDE DEF u
    <2> QED
      BY <1>2, <2>1, <2>2 DEF u
  <1>3. CASE x # p /\ ~ Many(mask)
    <2> DEFINE w == dequeue_pushable_task(s, c, p)
    <2>1. /\ w \in StateType /\ w.task = s.task /\ w.rd = s.rd
          /\ \A d \in CPU \ {c} : w.rq[d] = s.rq[d]
          /\ w.rq[c].queue = s.rq[c].queue
          /\ SameRunning(s.rq[c], w.rq[c]) /\ SameCounts(s.rq[c], w.rq[c])
          /\ Pushable(w, w.rq[c], P \ {p})
      BY DequeuePushable
    <2> HIDE DEF w
    <2>2. u = w
      BY <1>3 DEF w, Relisted
    <2> HIDE DEF u
    <2> QED
      BY <1>3, <2>1, <2>2 DEF u
  <1> QED
    BY <1>1, <1>2, <1>3

\* set_cpus_allowed_rt() for a task that becomes movable or ceases to be.
LEMMA MaskQueue ==
    ASSUME NEW s, Books(s), NEW p \in Task, NEW mask \in Masks, NEW c \in CPU,
           p \in Queued(s, c),
           Many(mask) <=> ~ migratory(s, p),
           NEW t, t = set_cpus_allowed_rt(s, p, mask), NEW M,
           M = NowMovable(Movable(s, Queued(s, c)), p, mask)
    PROVE  /\ OnQueue(s, t, c) /\ t.task = s.task /\ t.rd.cpupri = s.rd.cpupri /\ Registered(t, c)
           /\ t.rq[c].queue = s.rq[c].queue /\ t.rq[c].highest = s.rq[c].highest
           /\ Pushable(s, t.rq[c], M \ {s.rq[c].curr})
           /\ t.rq[c].migratory = Cardinality(M)
           /\ t.rq[c].overloaded <=> M # {} /\ Cardinality(Queued(s, c)) > 1
  <1> DEFINE Q == Queued(s, c)
             x == s.rq[c].curr
             u == Relisted(s, c, p, x, mask)
             n == IF Many(mask) THEN s.rq[c].migratory + 1 ELSE s.rq[c].migratory - 1
             v == [u EXCEPT !.rq[c].migratory = IF Many(mask) THEN @ + 1 ELSE @ - 1]
  <1>1. /\ s \in StateType /\ s.rq[c] \in RqType /\ Q \in SUBSET Task
        /\ ListOf(s.rq[c].queue, Q) /\ Pushable(s, s.rq[c], Movable(s, Q) \ {x})
        /\ CountsExact(s, c, Q)
    BY BooksFacts
  <1>2. p \in Q /\ (p \in Movable(s, Q) <=> ~ Many(mask))
    BY DEF Movable
  <1>3. t = update_rt_migration(v, c)
    <2>1. c = s.task[p].cpu /\ rt_task(s, p) /\ s.task[p].on_rq
      BY DEF Queued
    <2> QED
      BY Zenon, <2>1 DEF set_cpus_allowed_rt, Many, Relisted
  <1>4. /\ u \in StateType /\ u.task = s.task /\ u.rd = s.rd
        /\ \A d \in CPU \ {c} : u.rq[d] = s.rq[d]
        /\ u.rq[c].queue = s.rq[c].queue
        /\ SameRunning(s.rq[c], u.rq[c]) /\ SameCounts(s.rq[c], u.rq[c])
        /\ Pushable(u, u.rq[c], M \ {x})
    <2> DEFINE P == Movable(s, Q) \ {x}
    <2> HIDE DEF P, x
    <2>1. s \in StateType /\ P \in SUBSET Task /\ Pushable(s, s.rq[c], P)
      BY <1>1 DEF P, Movable, x
    <2>2. x \in Task \cup {IDLE}
      BY <1>1 DEF RqType, x
    <2>3. /\ u \in StateType /\ u.task = s.task /\ u.rd = s.rd
          /\ \A d \in CPU \ {c} : u.rq[d] = s.rq[d]
          /\ u.rq[c].queue = s.rq[c].queue
          /\ SameRunning(s.rq[c], u.rq[c]) /\ SameCounts(s.rq[c], u.rq[c])
      BY <2>1, <2>2, MaskListed
    <2>4. x = p => Pushable(u, u.rq[c], P)
      BY <2>1, <2>2, MaskPushable, Zenon
    <2>5. x # p /\ Many(mask) => Pushable(u, u.rq[c], P \cup {p})
      BY <2>1, <2>2, MaskPushable, Zenon
    <2>6. x # p /\ ~ Many(mask) => Pushable(u, u.rq[c], P \ {p})
      BY <2>1, <2>2, MaskPushable, Zenon
    <2>7. M \ {x} = IF x = p THEN P ELSE IF Many(mask) THEN P \cup {p} ELSE P \ {p}
      BY DEF P, NowMovable
    <2> HIDE DEF u
    <2> QED
      BY <2>3, <2>4, <2>5, <2>6, <2>7
  <1> HIDE DEF u
  <1>5. s.rq[c].migratory = Cardinality(Movable(s, Q)) /\ Registered(s, c)
    BY <1>1 DEF CountsExact, Registered, Books
  <1>6. n = Cardinality(M) /\ n \in Nat /\ (n = 0 <=> M = {})
    <2> DEFINE F == Movable(s, Q)
    <2>1. IsFiniteSet(F) /\ Cardinality(F) \in Nat
      BY <1>1, Counted
    <2> HIDE DEF F, Q
    <2>2. M = IF Many(mask) THEN F \cup {p} ELSE F \ {p}
      BY DEF F, Q, NowMovable
    <2>3. p \in F <=> ~ Many(mask)
      BY <1>2 DEF F
    <2>4. IsFiniteSet(M) /\ Cardinality(M) = n
      <3>1. CASE Many(mask)
        <4>1. IsFiniteSet(F \cup {p}) /\ Cardinality(F \cup {p}) = Cardinality(F) + 1
          BY <2>1, <2>3, <3>1, FS_AddElement
        <4> QED
          BY <1>5, <2>2, <3>1, <4>1 DEF F
      <3>2. CASE ~ Many(mask)
        <4>1. IsFiniteSet(F \ {p}) /\ Cardinality(F \ {p}) = Cardinality(F) - 1
          BY <2>1, <2>3, <3>2, FS_RemoveElement
        <4> QED
          BY <1>5, <2>2, <3>2, <4>1 DEF F
      <3> QED
        BY <3>1, <3>2
    <2>5. Cardinality(M) \in Nat /\ (Cardinality(M) = 0 <=> M = {})
      BY <2>4, FS_CardinalityType, FS_EmptySet
    <2> HIDE DEF n
    <2> QED
      BY <2>4, <2>5
  <1>7. u.rq[c] \in RqType /\ u.rq[c].migratory = s.rq[c].migratory
    BY <1>4, RqFacts DEF SameCounts
  <1> DEFINE r == [u.rq[c] EXCEPT !.migratory = n]
  <1>8. v = WithRq(u, c, r)
    BY <1>4, <1>7 DEF WithRq, StateType
  <1> HIDE DEF n, v
  <1>9. /\ r \in RqType /\ SameRunning(u.rq[c], r) /\ SameLists(u.rq[c], r)
        /\ r.highest = u.rq[c].highest /\ r.overloaded = u.rq[c].overloaded /\ r.migratory = n
    BY <1>6, <1>7 DEF RqType, SameRunning, SameLists
  <1> HIDE DEF r
  <1>10. /\ v \in StateType /\ v.rq[c] = r /\ v.rd = u.rd /\ v.task = u.task
         /\ \A d \in CPU \ {c} : v.rq[d] = u.rq[d]
    BY <1>4, <1>8, <1>9 DEF WithRq, StateType
  <1>11. Registered(v, c)
    BY <1>4, <1>5, <1>9, <1>10 DEF Registered, SameRunning, SameCounts
  <1> DEFINE w == update_rt_migration(v, c)
  <1>12. /\ w \in StateType /\ w.task = v.task /\ Elsewhere(v, w, c) /\ Registered(w, c)
         /\ w.rd.cpupri = v.rd.cpupri
         /\ SameRunning(v.rq[c], w.rq[c]) /\ SameLists(v.rq[c], w.rq[c])
         /\ w.rq[c].highest = v.rq[c].highest /\ w.rq[c].migratory = v.rq[c].migratory
         /\ w.rq[c].overloaded <=> v.rq[c].migratory # 0 /\ Len(v.rq[c].queue) > 1
    BY <1>10, <1>11, UpdateMigration
  <1> HIDE DEF w
  <1>13. t = w
    BY <1>3 DEF w
  <1>14. Len(s.rq[c].queue) = Cardinality(Q)
    BY <1>1, Counted
  <1>15. OnQueue(s, w, c)
    <2>1. Elsewhere(s, w, c)
      BY <1>4, <1>10, <1>12 DEF Elsewhere
    <2>2. SameRunning(s.rq[c], w.rq[c])
      BY <1>4, <1>9, <1>10, <1>12 DEF SameRunning
    <2> QED
      BY <1>12, <2>1, <2>2 DEF OnQueue, Registered
  <1>16. /\ w.rq[c].queue = s.rq[c].queue /\ w.rq[c].highest = s.rq[c].highest
         /\ w.rq[c].pushable = u.rq[c].pushable /\ w.rq[c].next = u.rq[c].next
    BY <1>4, <1>9, <1>10, <1>12 DEF SameLists, SameCounts
  <1>17. Pushable(s, w.rq[c], M \ {x})
    BY SMTT(30), <1>4, <1>16 DEF Pushable, InOrder, Best
  <1>18. w.rq[c].overloaded <=> M # {} /\ Cardinality(Q) > 1
    <2>1. v.rq[c].migratory = n /\ v.rq[c].queue = s.rq[c].queue
      BY <1>4, <1>9, <1>10 DEF SameLists
    <2>2. Len(v.rq[c].queue) = Cardinality(Q)
      BY <1>14, <2>1
    <2> HIDE DEF Q
    <2> QED
      BY <1>6, <1>12, <2>1, <2>2
  <1> QED
    BY <1>4, <1>6, <1>9, <1>10, <1>12, <1>13, <1>15, <1>16, <1>17, <1>18

\* Only the mask of p changes.
Remask(s, p, mask) == WithTask(s, p, [s.task[p] EXCEPT !.mask = mask])

LEMMA Remasked ==
    ASSUME NEW s \in StateType, NEW p \in Task, NEW mask \in Masks,
           NEW Q \in SUBSET Task, p \in Q
    PROVE  LET t == Remask(s, p, mask) IN
           /\ t \in StateType /\ t.rq = s.rq /\ t.rd = s.rd
           /\ OnlyTask(s, t, p, [s.task[p] EXCEPT !.mask = mask])
           /\ \A q \in Task : /\ t.task[q].prio = s.task[q].prio
                              /\ t.task[q].on_rq = s.task[q].on_rq
                              /\ t.task[q].cpu = s.task[q].cpu
           /\ Movable(t, Q) = NowMovable(Movable(s, Q), p, mask)
  <1> DEFINE y == [s.task[p] EXCEPT !.mask = mask]
             t == Remask(s, p, mask)
  <1>1. s.task \in [Task -> TaskType] /\ s.task[p] \in TaskType
    BY TaskFacts
  <1>2. /\ y \in TaskType /\ y.prio = s.task[p].prio /\ y.on_rq = s.task[p].on_rq
        /\ y.cpu = s.task[p].cpu /\ y.mask = mask
    BY <1>1 DEF TaskType
  <1> HIDE DEF y
  <1>3. /\ t \in StateType /\ t.rq = s.rq /\ t.rd = s.rd /\ t.task[p] = y
        /\ \A q \in Task \ {p} : t.task[q] = s.task[q]
    BY <1>1, <1>2 DEF WithTask, StateType, y, Remask
  <1> HIDE DEF t
  <1>4. \A q \in Task : /\ t.task[q].prio = s.task[q].prio
                        /\ t.task[q].on_rq = s.task[q].on_rq
                        /\ t.task[q].cpu = s.task[q].cpu
    BY <1>2, <1>3
  <1>5. migratory(t, p) <=> Many(mask)
    BY <1>2, <1>3 DEF migratory, Many
  <1>6. \A q \in Task \ {p} : migratory(t, q) <=> migratory(s, q)
    BY <1>3 DEF migratory
  <1>7. Movable(t, Q) = NowMovable(Movable(s, Q), p, mask)
    BY <1>5, <1>6 DEF Movable, NowMovable
  <1> QED
    BY <1>3, <1>4, <1>7 DEF OnlyTask, y, t

LEMMA MaskKept ==
    ASSUME NEW s, NEW p, NEW mask, Many(mask) <=> migratory(s, p)
    PROVE  set_cpus_allowed_rt(s, p, mask) = s
  <1>1. (Cardinality(mask) > 1) = migratory(s, p)
    BY DEF Many, migratory
  <1> QED
    BY <1>1 DEF set_cpus_allowed_rt

LEMMA MaskBooks ==
    ASSUME NEW s, Books(s), NEW p \in Task, NEW mask \in Masks,
           NEW t, t = [set_cpus_allowed_rt(s, p, mask) EXCEPT !.task[p].mask = mask]
    PROVE  /\ Books(t) /\ Quietly(s, t, s.task[p].cpu)
           /\ OnlyTask(s, t, p, [s.task[p] EXCEPT !.mask = mask])
  <1> DEFINE u == set_cpus_allowed_rt(s, p, mask)
             y == [s.task[p] EXCEPT !.mask = mask]
             v == WithTask(u, p, y)
  <1>1. s \in StateType /\ s.task \in [Task -> TaskType] /\ s.task[p] \in TaskType
    BY TaskFacts DEF Books
  <1>2. /\ y \in TaskType /\ y.prio = s.task[p].prio /\ y.on_rq = s.task[p].on_rq
        /\ y.cpu = s.task[p].cpu /\ y.mask = mask
    BY <1>1 DEF TaskType
  <1>3. ASSUME u = s PROVE t = v
    BY <1>1, <1>3 DEF WithTask, StateType
  <1>4. ASSUME u \in StateType, u.task = s.task PROVE t = v
    <2> HIDE DEF u
    <2> QED
      BY <1>1, <1>4 DEF WithTask, StateType, u
  <1>5. CASE ~ (s.task[p].prio < MAX_RT_PRIO /\ s.task[p].on_rq)
    <2>1. u = s
      BY Zenon, <1>1, <1>5, TaskFacts DEF set_cpus_allowed_rt
    <2>2. t = WithTask(s, p, y)
      BY <1>3, <2>1
    <2> HIDE DEF y
    <2>3. \A d \in CPU : s.rq[d].curr = p => y.cpu = d
      BY <1>2, Names DEF Books, CurrHere
    <2>4. Books(t)
      BY <1>2, <1>5, <2>2, <2>3, TaskBooks
    <2>5. t.rq = s.rq /\ OnlyTask(s, t, p, y)
      BY <1>1, <1>2, <2>2 DEF WithTask, StateType, OnlyTask
    <2> QED
      BY <2>4, <2>5 DEF Quietly, SameRunning, y
  <1>6. CASE s.task[p].prio < MAX_RT_PRIO /\ s.task[p].on_rq
    <2>1. PICK c \in CPU : c = s.task[p].cpu
      BY <1>1, TaskFacts
    <2> DEFINE Q == Queued(s, c)
               M == NowMovable(Movable(s, Q), p, mask)
    <2>2. /\ s.rq[c] \in RqType /\ Q \in SUBSET Task /\ p \in Q
          /\ ListOf(s.rq[c].queue, Q) /\ Pushable(s, s.rq[c], Movable(s, Q) \ {s.rq[c].curr})
          /\ CountsExact(s, c, Q)
      BY <1>1, <1>6, <2>1, BooksFacts, QueuedFacts
    <2> HIDE DEF Q
    <2>3. /\ OnQueue(s, u, c) /\ u.task = s.task /\ u.rd.cpupri = s.rd.cpupri /\ Registered(u, c)
          /\ u.rq[c].queue = s.rq[c].queue /\ u.rq[c].highest = s.rq[c].highest
          /\ Pushable(s, u.rq[c], M \ {s.rq[c].curr})
          /\ u.rq[c].migratory = Cardinality(M)
          /\ u.rq[c].overloaded <=> M # {} /\ Cardinality(Q) > 1
      <3>1. CASE Many(mask) <=> ~ migratory(s, p)
        BY <2>2, <3>1, MaskQueue DEF Q
      <3>2. CASE Many(mask) <=> migratory(s, p)
        <4>1. u = s
          BY <3>2, MaskKept
        <4>2. M = Movable(s, Q)
          BY <2>2, <3>2 DEF Movable, NowMovable
        <4> HIDE DEF u, M
        <4> QED
          BY <1>1, <2>2, <4>1, <4>2
             DEF Books, CountsExact, OnQueue, Elsewhere, SameRunning, Registered
      <3> QED
        BY <3>1, <3>2 DEF migratory
    <2> HIDE DEF M
    <2>4. t = WithTask(u, p, [u.task[p] EXCEPT !.mask = mask])
      BY <1>4, <2>3 DEF OnQueue
    <2> HIDE DEF u
    <2>5. u \in StateType
      BY <2>3 DEF OnQueue
    <2>6. /\ t \in StateType /\ t.rq = u.rq /\ t.rd = u.rd
          /\ OnlyTask(u, t, p, [u.task[p] EXCEPT !.mask = mask])
          /\ \A q \in Task : /\ t.task[q].prio = u.task[q].prio
                             /\ t.task[q].on_rq = u.task[q].on_rq
                             /\ t.task[q].cpu = u.task[q].cpu
          /\ Movable(t, Q) = NowMovable(Movable(u, Q), p, mask)
      <3> DEFINE w == Remask(u, p, mask)
      <3>1. /\ w \in StateType /\ w.rq = u.rq /\ w.rd = u.rd
            /\ OnlyTask(u, w, p, [u.task[p] EXCEPT !.mask = mask])
            /\ \A q \in Task : /\ w.task[q].prio = u.task[q].prio
                               /\ w.task[q].on_rq = u.task[q].on_rq
                               /\ w.task[q].cpu = u.task[q].cpu
            /\ Movable(w, Q) = NowMovable(Movable(u, Q), p, mask)
        BY <2>2, <2>5, Remasked
      <3> HIDE DEF w
      <3>2. t = w
        BY <2>4 DEF w, Remask
      <3> QED
        BY <3>1, <3>2
    <2>7. OnlyTask(s, t, p, y)
      BY <2>3, <2>6 DEF OnlyTask
    <2>8. Movable(t, Q) = M
      <3>1. Movable(u, Q) = Movable(s, Q)
        BY <2>3 DEF Movable, migratory
      <3> QED
        BY <2>6, <3>1 DEF M
    <2> DEFINE x == s.rq[c].curr
    <2> HIDE DEF x
    <2>9. \A q \in Task : t.task[q].prio = s.task[q].prio
      BY <2>3, <2>6
    <2>10. ListsExact(t, c, Q, x)
      <3>1. Pushable(s, t.rq[c], M \ {x})
        BY <2>3, <2>6 DEF x
      <3>2. M \ {x} \subseteq Task
        BY <2>8 DEF Movable, Q, Queued
      <3>3. Pushable(t, t.rq[c], M \ {x})
        <4>1. /\ t.rq[c].pushable \in Seq(Task)
              /\ \A i \in 1 .. Len(t.rq[c].pushable) : t.rq[c].pushable[i] \in Task
          BY <3>1 DEF Pushable, ListOf
        <4> QED
          BY <2>9, <3>1, <3>2, <4>1 DEF Pushable, InOrder, Best
      <3> QED
        BY <2>2, <2>3, <2>6, <2>8, <3>3 DEF ListsExact
    <2>11. CountsExact(t, c, Q)
      <3>1. /\ Best(s, s.rq[c].highest, Q)
            /\ s.rd.cpupri[c] = IF s.rq[c].online THEN s.rq[c].highest ELSE INVALID
        BY <2>2 DEF CountsExact
      <3>2. Best(t, t.rq[c].highest, Q)
        BY <2>2, <2>3, <2>6, <2>9, <3>1 DEF Best
      <3>3. t.rd.cpupri[c] = IF t.rq[c].online THEN t.rq[c].highest ELSE INVALID
        BY <2>3, <2>6, <3>1 DEF OnQueue, SameRunning
      <3> QED
        BY <2>3, <2>6, <2>8, <3>2, <3>3 DEF CountsExact, Registered
    <2>12. Queued(t, c) = Q
      <3>1. ASSUME NEW q \in Task PROVE q \in Queued(t, c) <=> q \in Queued(s, c)
        <4>1. rt_task(t, q) <=> rt_task(s, q)
          BY <2>9, Names DEF rt_task, PrioOf
        <4> QED
          BY <2>3, <2>6, <4>1 DEF Queued
      <3> QED
        BY <3>1 DEF Q, Queued
    <2>13. OnQueue(s, t, c)
      BY <2>3, <2>6 DEF OnQueue, Elsewhere
    <2>14. Exact(t, c, Queued(t, c), s.rq[c].curr)
      BY <2>10, <2>11, <2>12 DEF Exact, x
    <2>15. s.task[p].cpu = c /\ t.task[p].cpu = c /\ \A q \in Task \ {p} : t.task[q] = s.task[q]
      BY <1>2, <2>1, <2>7 DEF OnlyTask
    <2>16. Books(t) /\ Quietly(s, t, c)
      BY <2>13, <2>14, <2>15, QueueBooks
    <2> QED
      BY <2>1, <2>7, <2>16
  <1> QED
    BY <1>5, <1>6

-----------------------------------------------------------------------------
(* Switching *)

\* CPU c runs x now, which is one of its tasks; the books are those of s.
Runs(s, t, c, x) ==
    /\ t \in StateType /\ t.task = s.task /\ t.rd = s.rd
    /\ \A d \in CPU \ {c} : t.rq[d] = s.rq[d]
    /\ t.rq[c].queue = s.rq[c].queue /\ SameCounts(s.rq[c], t.rq[c])
    /\ t.rq[c].online = s.rq[c].online /\ t.rq[c].curr = x
    /\ Pushable(s, t.rq[c], Movable(s, Queued(s, c)) \ {x})

LEMMA SwitchBooks ==
    ASSUME NEW s, Books(s), NEW c \in CPU, NEW x \in Task \cup {IDLE},
           x # IDLE => s.task[x].cpu = c, NEW t, Runs(s, t, c, x)
    PROVE  Books(t)
  <1>1. /\ t \in StateType /\ t.task = s.task /\ t.rd = s.rd
        /\ \A d \in CPU \ {c} : t.rq[d] = s.rq[d]
        /\ t.rq[c].queue = s.rq[c].queue /\ SameCounts(s.rq[c], t.rq[c])
        /\ t.rq[c].online = s.rq[c].online /\ t.rq[c].curr = x
        /\ Pushable(s, t.rq[c], Movable(s, Queued(s, c)) \ {x})
    BY DEF Runs
  <1>2. ASSUME NEW d \in CPU PROVE Exact(t, d, Queued(t, d), t.rq[d].curr)
    <2>1. Queued(t, d) = Queued(s, d) /\ SameAttr(s, t, Queued(s, d))
      BY <1>1 DEF Queued, rt_task, PrioOf, SameAttr
    <2>2. Exact(s, d, Queued(s, d), s.rq[d].curr)
      BY DEF Books
    <2>3. CASE d # c
      BY <1>1, <2>1, <2>2, <2>3, ExactCarries
    <2>4. CASE d = c
      <3> DEFINE Q == Queued(s, c)
      <3> HIDE DEF Q
      <3>1. ListOf(s.rq[c].queue, Q) /\ CountsExact(s, c, Q)
        BY <2>2, <2>4 DEF Exact, ListsExact, Q
      <3>2. Movable(t, Q) = Movable(s, Q)
        BY <1>1 DEF Movable, migratory
      <3>3. Pushable(t, t.rq[c], Movable(t, Q) \ {x})
        BY <1>1, <3>2 DEF Pushable, InOrder, Best, Q
      <3>4. ListsExact(t, c, Q, x)
        BY <1>1, <3>1, <3>3 DEF ListsExact
      <3>5. CountsExact(t, c, Q)
        BY <1>1, <3>1, <3>2 DEF CountsExact, SameCounts, Best
      <3> QED
        BY <1>1, <2>1, <2>4, <3>4, <3>5 DEF Exact, Q
    <2> QED
      BY <2>3, <2>4
  <1>3. CurrHere(t)
    <2> SUFFICES ASSUME NEW d \in CPU, t.rq[d].curr # IDLE
                 PROVE  t.task[t.rq[d].curr].cpu = d
      BY DEF CurrHere
    <2>1. CASE d = c
      BY <1>1, <2>1
    <2>2. CASE d # c
      BY <1>1, <2>2 DEF Books, CurrHere
    <2> QED
      BY <2>1, <2>2
  <1> QED
    BY <1>1, <1>2, <1>3 DEF Books

\* put_prev_task_rt(): nobody is running, all that can be moved are pushable.
LEMMA PutPrev ==
    ASSUME NEW s, Books(s), NEW c \in CPU
    PROVE  LET t == put_prev_task(s, c) IN
           /\ t \in StateType /\ t.task = s.task /\ t.rd = s.rd
           /\ \A d \in CPU \ {c} : t.rq[d] = s.rq[d]
           /\ t.rq[c].queue = s.rq[c].queue
           /\ SameRunning(s.rq[c], t.rq[c]) /\ SameCounts(s.rq[c], t.rq[c])
           /\ Pushable(t, t.rq[c], Movable(s, Queued(s, c)))
  <1> DEFINE x == s.rq[c].curr
             Q == Queued(s, c)
             P == Movable(s, Q) \ {x}
             t == put_prev_task(s, c)
  <1>1. /\ s \in StateType /\ s.rq[c] \in RqType /\ Q \in SUBSET Task
        /\ Pushable(s, s.rq[c], P)
        /\ x # IDLE => x \in Task /\ s.task[x].cpu = c
    BY BooksFacts
  <1>2. P \in SUBSET Task
    BY <1>1 DEF Movable
  <1>3. rt_task(s, x) => x # IDLE
    BY Names DEF rt_task, PrioOf
  <1>4. CASE rt_task(s, x) /\ s.task[x].on_rq /\ migratory(s, x)
    <2>1. x \in Movable(s, Q) /\ x \in Task
      BY <1>1, <1>3, <1>4 DEF Movable, Queued
    <2>2. t = enqueue_pushable_task(s, c, x)
      BY <1>4 DEF put_prev_task
    <2>3. Movable(s, Q) = P \cup {x}
      BY <2>1
    <2> HIDE DEF x, Q, P
    <2> DEFINE w == enqueue_pushable_task(s, c, x)
    <2>4. /\ w \in StateType /\ w.task = s.task /\ w.rd = s.rd
          /\ \A d \in CPU \ {c} : w.rq[d] = s.rq[d]
          /\ w.rq[c].queue = s.rq[c].queue
          /\ SameRunning(s.rq[c], w.rq[c]) /\ SameCounts(s.rq[c], w.rq[c])
          /\ Pushable(w, w.rq[c], P \cup {x})
      BY <1>1, <1>2, <2>1, EnqueuePushable
    <2> HIDE DEF w
    <2>5. t = w
      BY <2>2 DEF w
    <2> HIDE DEF t
    <2> QED
      BY <2>3, <2>4, <2>5 DEF t, Q
  <1>5. CASE ~ (rt_task(s, x) /\ s.task[x].on_rq /\ migratory(s, x))
    <2>1. t = s
      BY <1>5 DEF put_prev_task
    <2>2. P = Movable(s, Q)
      BY <1>5 DEF Movable, Queued
    <2> HIDE DEF t, x, P, Q
    <2> QED
      BY <1>1, <2>1, <2>2 DEF SameRunning, SameCounts, t, Q
  <1> QED
    BY <1>4, <1>5

LEMMA BestQueued ==
    ASSUME NEW s, Books(s), NEW c \in CPU, s.rq[c].queue # <<>>
    PROVE  best_queued(s, c) \in Queued(s, c)
  <1> DEFINE l == s.rq[c].queue
             T == {i \in 1 .. Len(l) : s.task[l[i]].prio = s.rq[c].highest}
             Q == Queued(s, c)
  <1>1. /\ s \in StateType /\ s.rq[c] \in RqType /\ ListOf(l, Q) /\ CountsExact(s, c, Q)
    BY BooksFacts
  <1>2. l \in Seq(Task) /\ Elems(l) = Q /\ Q # {}
    BY <1>1, HeadFacts DEF ListOf
  <1>3. \E p \in Q : s.rq[c].highest = s.task[p].prio
    BY <1>1, <1>2 DEF CountsExact, Best
  <1>4. T # {}
    BY <1>2, <1>3 DEF Elems
  <1>5. Min(T) \in T
    <2>1. T \in SUBSET Nat
      BY <1>2
    <2> QED
      BY Zenon, <1>4, <2>1, MinFacts
  <1>6. best_queued(s, c) = l[Min(T)]
    BY DEF best_queued
  <1> QED
    BY Zenon, <1>2, <1>5, <1>6 DEF Elems

\* CPU c has switched to one of the tasks on it, or to the idle task.
Switched(s, t, c) ==
    /\ t.task = s.task /\ t.rd = s.rd
    /\ \A d \in CPU \ {c} : t.rq[d] = s.rq[d]
    /\ t.rq[c].online = s.rq[c].online
    /\ \/ t.rq[c].curr = IDLE
       \/ /\ t.rq[c].curr \in Task /\ s.task[t.rq[c].curr].on_rq
          /\ s.task[t.rq[c].curr].cpu = c

LEMMA PickRt ==
    ASSUME NEW s, Books(s), NEW c \in CPU, s.rq[c].queue # <<>>,
           NEW t, t = pick_next_task_rt(s, c)
    PROVE  Books(t) /\ Switched(s, t, c) /\ t.rq[c].resched = s.rq[c].resched
           /\ t.rq[c].curr # IDLE
  <1> DEFINE Q == Queued(s, c)
             u == put_prev_task(s, c)
             x == best_queued(s, c)
             v == dequeue_pushable_task(u, c, x)
             post == v.rq[c].pushable # <<>>
             r == [v.rq[c] EXCEPT !.curr = x, !.post = post]
  <1>1. t = [v EXCEPT !.rq[c].curr = x, !.rq[c].post = v.rq[c].pushable # <<>>]
    BY DEF pick_next_task_rt
  <1>2. /\ u \in StateType /\ u.task = s.task /\ u.rd = s.rd
        /\ \A d \in CPU \ {c} : u.rq[d] = s.rq[d]
        /\ u.rq[c].queue = s.rq[c].queue
        /\ SameRunning(s.rq[c], u.rq[c]) /\ SameCounts(s.rq[c], u.rq[c])
        /\ Pushable(u, u.rq[c], Movable(s, Q))
    BY PutPrev
  <1> HIDE DEF u
  <1>3. x \in Q
    BY BestQueued
  <1>4. x \in Task /\ s.task[x].on_rq /\ s.task[x].cpu = c
    BY <1>3 DEF Queued
  <1> HIDE DEF x, Q
  <1> DEFINE M == Movable(s, Q)
  <1>5. M \in SUBSET Task
    BY DEF Movable, Q, Queued
  <1> HIDE DEF M
  <1>6. /\ v \in StateType /\ v.task = u.task /\ v.rd = u.rd
        /\ \A d \in CPU \ {c} : v.rq[d] = u.rq[d]
        /\ v.rq[c].queue = u.rq[c].queue
        /\ SameRunning(u.rq[c], v.rq[c]) /\ SameCounts(u.rq[c], v.rq[c])
        /\ Pushable(v, v.rq[c], M \ {x})
    <2>1. u \in StateType /\ Pushable(u, u.rq[c], M)
      BY <1>2 DEF M
    <2> QED
      BY ZenonT(30), <1>4, <1>5, <2>1, DequeuePushable
  <1> HIDE DEF v
  <1>7. v.rq[c] \in RqType /\ post \in BOOLEAN
    BY <1>6, RqFacts
  <1>8. t = WithRq(v, c, r)
    BY <1>1, <1>6, <1>7 DEF WithRq, StateType
  <1> HIDE DEF post
  <1>9. /\ r \in RqType /\ r.curr = x /\ r.online = v.rq[c].online /\ r.queue = v.rq[c].queue
        /\ r.pushable = v.rq[c].pushable /\ r.next = v.rq[c].next /\ SameCounts(v.rq[c], r)
        /\ r.resched = v.rq[c].resched
    BY <1>4, <1>7 DEF RqType, SameCounts
  <1> HIDE DEF r
  <1>10. /\ t \in StateType /\ t.rq[c] = r /\ t.rd = v.rd /\ t.task = v.task
         /\ \A d \in CPU \ {c} : t.rq[d] = v.rq[d]
    BY <1>6, <1>8, <1>9 DEF WithRq, StateType
  <1>11. Pushable(s, t.rq[c], Movable(s, Queued(s, c)) \ {x})
    <2>1. Pushable(v, r, M \ {x})
      BY <1>6, <1>9 DEF Pushable
    <2>2. Pushable(s, r, M \ {x})
      BY SMTT(30), <1>2, <1>6, <2>1 DEF Pushable, InOrder, Best
    <2> QED
      BY <1>10, <2>2 DEF M, Q
  <1>12. Runs(s, t, c, x)
    <2>1. SameCounts(s.rq[c], t.rq[c]) /\ t.rq[c].queue = s.rq[c].queue
      BY <1>2, <1>6, <1>9, <1>10 DEF SameCounts
    <2>2. t.rq[c].online = s.rq[c].online /\ t.rq[c].curr = x
      BY <1>2, <1>6, <1>9, <1>10 DEF SameRunning
    <2> QED
      BY <1>2, <1>6, <1>10, <1>11, <2>1, <2>2 DEF Runs
  <1>13. Books(t)
    BY <1>4, <1>12, SwitchBooks
  <1>14. Switched(s, t, c)
    BY <1>4, <1>12 DEF Switched, Runs
  <1>15. t.rq[c].resched = s.rq[c].resched /\ t.rq[c].curr # IDLE
    BY <1>2, <1>4, <1>6, <1>9, <1>10, Names DEF SameRunning
  <1> QED
    BY <1>13, <1>14, <1>15

LEMMA PickedBooks ==
    ASSUME NEW s, Books(s), NEW c \in CPU, NEW t \in picked(s, c)
    PROVE  Books(t) /\ Switched(s, t, c) /\ t.rq[c].resched = s.rq[c].resched
  <1>1. CASE s.rq[c].queue # <<>>
    <2>1. t = pick_next_task_rt(s, c)
      BY <1>1 DEF picked
    <2> QED
      BY <1>1, <2>1, PickRt
  <1>2. CASE s.rq[c].queue = <<>>
    <2>1. PICK x \in others(s, c) \cup {IDLE} : t = [s EXCEPT !.rq[c].curr = x]
      BY <1>2 DEF picked
    <2> DEFINE r == [s.rq[c] EXCEPT !.curr = x]
    <2>2. x \in Task \cup {IDLE} /\ (x # IDLE => s.task[x].on_rq /\ s.task[x].cpu = c)
      BY DEF others
    <2>3. /\ s \in StateType /\ s.rq[c] \in RqType /\ ListOf(s.rq[c].queue, Queued(s, c))
          /\ Pushable(s, s.rq[c], Movable(s, Queued(s, c)) \ {s.rq[c].curr})
      BY BooksFacts
    <2>4. t = WithRq(s, c, r)
      BY <2>1, <2>3 DEF WithRq, StateType
    <2>5. /\ r \in RqType /\ r.curr = x /\ r.online = s.rq[c].online /\ r.queue = s.rq[c].queue
          /\ r.pushable = s.rq[c].pushable /\ r.next = s.rq[c].next /\ SameCounts(s.rq[c], r)
          /\ r.resched = s.rq[c].resched
      BY <2>2, <2>3 DEF RqType, SameCounts
    <2> HIDE DEF r
    <2>6. /\ t \in StateType /\ t.rq[c] = r /\ t.rd = s.rd /\ t.task = s.task
          /\ \A d \in CPU \ {c} : t.rq[d] = s.rq[d]
      BY <2>3, <2>4, <2>5 DEF WithRq, StateType
    <2>7. Queued(s, c) = {}
      BY <1>2, <2>3 DEF ListOf, Elems
    <2>8. Pushable(s, r, Movable(s, Queued(s, c)) \ {x})
      <3>1. Movable(s, Queued(s, c)) \ {s.rq[c].curr} = Movable(s, Queued(s, c)) \ {x}
        BY <2>7 DEF Movable
      <3>2. Pushable(s, s.rq[c], Movable(s, Queued(s, c)) \ {x})
        BY <2>3, <3>1
      <3> QED
        BY <2>5, <3>2 DEF Pushable
    <2>9. Runs(s, t, c, x)
      BY <2>5, <2>6, <2>8 DEF Runs
    <2>10. Books(t)
      BY <2>2, <2>9, SwitchBooks
    <2> QED
      BY <2>2, <2>5, <2>6, <2>10 DEF Switched
  <1> QED
    BY <1>1, <1>2

\* The task that was running is put back, for the stopper thread or to be moved.
LEMMA PutBooks ==
    ASSUME NEW s, Books(s), NEW c \in CPU, NEW t,
           \/ t = [put_prev_task(s, c) EXCEPT !.rq[c].curr = IDLE, !.rq[c].resched = FALSE]
           \/ ~ s.rq[c].resched /\ t = [put_prev_task(s, c) EXCEPT !.rq[c].curr = IDLE]
    PROVE  /\ Books(t) /\ Switched(s, t, c) /\ t.rq[c].curr = IDLE /\ ~ t.rq[c].resched
  <1> DEFINE Q == Queued(s, c)
             u == put_prev_task(s, c)
             r == [u.rq[c] EXCEPT !.curr = IDLE, !.resched = FALSE]
  <1>1. /\ u \in StateType /\ u.task = s.task /\ u.rd = s.rd
        /\ \A d \in CPU \ {c} : u.rq[d] = s.rq[d]
        /\ u.rq[c].queue = s.rq[c].queue
        /\ SameRunning(s.rq[c], u.rq[c]) /\ SameCounts(s.rq[c], u.rq[c])
        /\ Pushable(u, u.rq[c], Movable(s, Q))
    BY PutPrev
  <1>2. \/ t = [u EXCEPT !.rq[c].curr = IDLE, !.rq[c].resched = FALSE]
        \/ ~ s.rq[c].resched /\ t = [u EXCEPT !.rq[c].curr = IDLE]
    OBVIOUS
  <1> HIDE DEF u
  <1>3. u.rq[c] \in RqType
    BY <1>1, RqFacts
  <1>4. t = WithRq(u, c, r)
    <2>1. CASE t = [u EXCEPT !.rq[c].curr = IDLE, !.rq[c].resched = FALSE]
      BY <1>1, <1>3, <2>1 DEF WithRq, StateType
    <2>2. CASE ~ s.rq[c].resched /\ t = [u EXCEPT !.rq[c].curr = IDLE]
      <3>1. u.rq[c].resched = FALSE
        BY <1>1, <1>3, <2>2 DEF SameRunning, RqType
      <3>2. [u.rq[c] EXCEPT !.curr = IDLE] = r
        BY <1>3, <3>1 DEF RqType
      <3> HIDE DEF r
      <3> QED
        BY <1>1, <2>2, <3>2 DEF WithRq, StateType
    <2> QED
      BY <1>2, <2>1, <2>2
  <1>5. /\ r \in RqType /\ r.curr = IDLE /\ r.online = u.rq[c].online /\ r.queue = u.rq[c].queue
        /\ r.pushable = u.rq[c].pushable /\ r.next = u.rq[c].next /\ SameCounts(u.rq[c], r)
        /\ ~ r.resched
    BY <1>3 DEF RqType, SameCounts
  <1> HIDE DEF r
  <1>6. /\ t \in StateType /\ t.rq[c] = r /\ t.rd = u.rd /\ t.task = u.task
        /\ \A d \in CPU \ {c} : t.rq[d] = u.rq[d]
    BY <1>1, <1>4, <1>5 DEF WithRq, StateType
  <1>7. Pushable(s, t.rq[c], Movable(s, Queued(s, c)) \ {IDLE})
    <2>1. Movable(s, Q) = Movable(s, Q) \ {IDLE}
      BY Names DEF Movable, Queued
    <2> HIDE DEF Q
    <2>2. Pushable(s, r, Movable(s, Q))
      BY SMTT(30), <1>1, <1>5 DEF Pushable, InOrder, Best
    <2> QED
      BY <1>6, <2>1, <2>2 DEF Q
  <1>8. Runs(s, t, c, IDLE)
    <2>1. SameCounts(s.rq[c], t.rq[c]) /\ t.rq[c].queue = s.rq[c].queue
      BY <1>1, <1>5, <1>6 DEF SameCounts
    <2>2. t.rq[c].online = s.rq[c].online /\ t.rq[c].curr = IDLE
      BY <1>1, <1>5, <1>6 DEF SameRunning
    <2> QED
      BY <1>1, <1>6, <1>7, <2>1, <2>2 DEF Runs
  <1>9. Books(t)
    <2>1. PICK x \in Task \cup {IDLE} : x = IDLE
      OBVIOUS
    <2>2. Runs(s, t, c, x) /\ (x # IDLE => s.task[x].cpu = c)
      BY <1>8, <2>1
    <2> QED
      BY <2>2, SwitchBooks
  <1>10. Switched(s, t, c)
    BY <1>8 DEF Switched, Runs
  <1> QED
    BY <1>5, <1>6, <1>9, <1>10

-----------------------------------------------------------------------------
(* CPUs that leave and join the root domain *)

\* r and e differ from the queue of c and the root domain of s by whether c is in it.
Joins(s, c, r, e) ==
    /\ SameLists(s.rq[c], r) /\ SameCounts(s.rq[c], r) /\ r.curr = s.rq[c].curr
    /\ \A d \in CPU \ {c} : /\ e.cpupri[d] = s.rd.cpupri[d]
                            /\ d \in e.rto_mask <=> d \in s.rd.rto_mask
    /\ e.cpupri[c] = IF r.online THEN r.highest ELSE INVALID
    /\ c \in e.rto_mask <=> r.overloaded /\ r.online
    /\ e.rto_count = Cardinality(e.rto_mask)

LEMMA OnlineBooks ==
    ASSUME NEW s, Books(s), NEW c \in CPU, NEW e \in RdType, NEW r \in RqType,
           Joins(s, c, r, e)
    PROVE  LET t == WithBoth(s, c, r, e) IN
           /\ Books(t) /\ t.task = s.task /\ t.rq[c] = r
           /\ \A d \in CPU \ {c} : t.rq[d] = s.rq[d]
  <1> DEFINE t == WithBoth(s, c, r, e)
  <1>1. s \in StateType
    BY DEF Books
  <1>2. /\ t \in StateType /\ t.rq[c] = r /\ t.rd = e /\ t.task = s.task
        /\ \A d \in CPU \ {c} : t.rq[d] = s.rq[d]
    BY <1>1 DEF WithBoth, StateType, RdType
  <1> HIDE DEF t
  <1>3. ASSUME NEW d \in CPU PROVE Exact(t, d, Queued(t, d), t.rq[d].curr)
    <2>1. Queued(t, d) = Queued(s, d) /\ SameAttr(s, t, Queued(s, d))
      BY <1>2 DEF Queued, rt_task, PrioOf, SameAttr
    <2>2. Exact(s, d, Queued(s, d), s.rq[d].curr)
      BY DEF Books
    <2>3. CASE d # c
      <3>1. /\ t.rq[d] = s.rq[d] /\ t.rd.cpupri[d] = s.rd.cpupri[d]
            /\ d \in t.rd.rto_mask <=> d \in s.rd.rto_mask
        BY <1>2, <2>3 DEF Joins
      <3> QED
        BY <2>1, <2>2, <3>1, ExactCarries
    <2>4. CASE d = c
      <3> DEFINE Q == Queued(s, c)
                 x == s.rq[c].curr
      <3> HIDE DEF Q, x
      <3>1. /\ ListOf(s.rq[c].queue, Q) /\ Pushable(s, s.rq[c], Movable(s, Q) \ {x})
            /\ CountsExact(s, c, Q)
        BY <2>2, <2>4 DEF Exact, ListsExact, Q, x
      <3>2. Movable(t, Q) = Movable(s, Q)
        BY <1>2 DEF Movable, migratory
      <3>3. Pushable(t, r, Movable(t, Q) \ {x}) /\ ListOf(r.queue, Q)
        BY <1>2, <3>1, <3>2 DEF Pushable, InOrder, Best, SameLists, Joins
      <3>4. ListsExact(t, c, Q, x)
        BY <1>2, <3>3 DEF ListsExact
      <3>5. CountsExact(t, c, Q)
        BY <1>2, <3>1, <3>2 DEF CountsExact, SameCounts, Best, Joins
      <3> QED
        BY <1>2, <2>1, <2>4, <3>4, <3>5 DEF Exact, Q, x, Joins
    <2> QED
      BY <2>3, <2>4
  <1>4. CurrHere(t)
    BY <1>2 DEF Books, CurrHere, Joins
  <1> QED
    BY <1>2, <1>3, <1>4 DEF Books, Joins, t

\* set_rq_offline() and set_rq_online(), as RqOffline and RqOnline have them.
Offlined(s, c) ==
    LET u == IF s.rq[c].overloaded THEN rt_clear_overload(s, c) ELSE s
    IN  [u EXCEPT !.rd.cpupri[c] = INVALID, !.rq[c].online = FALSE]

Onlined(s, c) ==
    LET on == [s EXCEPT !.rq[c].online = TRUE, !.rd.cpupri[c] = s.rq[c].highest]
    IN  IF s.rq[c].overloaded THEN rt_set_overload(on, c) ELSE on

Plugged(s, t, c) ==
    /\ Books(t) /\ t.task = s.task /\ t.rq[c].curr = s.rq[c].curr
    /\ \A d \in CPU \ {c} : t.rq[d] = s.rq[d]

LEMMA OfflineBooks ==
    ASSUME NEW s, Books(s), NEW c \in CPU, s.rq[c].online
    PROVE  Plugged(s, Offlined(s, c), c)
  <1> SUFFICES ASSUME NEW u, u = IF s.rq[c].overloaded THEN rt_clear_overload(s, c) ELSE s,
                      NEW t, t = [u EXCEPT !.rd.cpupri[c] = INVALID, !.rq[c].online = FALSE]
               PROVE  Plugged(s, t, c)
    BY DEF Offlined
  <1> DEFINE over == s.rq[c].overloaded
             m == IF over THEN s.rd.rto_mask \ {c} ELSE s.rd.rto_mask
             n == IF over THEN s.rd.rto_count - 1 ELSE s.rd.rto_count
             e == [rto_mask |-> m, rto_count |-> n,
                   cpupri |-> [s.rd.cpupri EXCEPT ![c] = INVALID]]
             r == [s.rq[c] EXCEPT !.online = FALSE]
  <1>1. /\ s \in StateType /\ s.rq[c] \in RqType /\ CountsExact(s, c, Queued(s, c))
        /\ s.rd \in RdType /\ s.rd.rto_count = Cardinality(s.rd.rto_mask)
    BY BooksFacts DEF Books, StateType, RdType
  <1>2. t = WithBoth(s, c, r, e)
    <2>1. CASE over
      BY <1>1, <2>1 DEF rt_clear_overload, WithBoth, StateType, RdType
    <2>2. CASE ~ over
      BY <1>1, <2>2 DEF WithBoth, StateType, RdType
    <2> QED
      BY <2>1, <2>2
  <1>3. c \in s.rd.rto_mask <=> over
    BY <1>1 DEF CountsExact
  <1>4. m \in SUBSET CPU /\ n \in Int /\ n = Cardinality(m) /\ c \notin m
        /\ \A d \in CPU \ {c} : d \in m <=> d \in s.rd.rto_mask
    <2>1. s.rd.rto_mask \in SUBSET CPU /\ s.rd.rto_count \in Int
      BY <1>1 DEF RdType
    <2>2. IsFiniteSet(s.rd.rto_mask)
      BY <2>1, Names, FS_Subset
    <2>3. CASE over
      <3>1. Cardinality(s.rd.rto_mask \ {c}) = Cardinality(s.rd.rto_mask) - 1
        BY <1>3, <2>2, <2>3, FS_RemoveElement
      <3> QED
        BY <1>1, <2>1, <2>3, <3>1
    <2>4. CASE ~ over
      BY <1>1, <1>3, <2>1, <2>4
    <2> QED
      BY <2>3, <2>4
  <1> HIDE DEF m, n
  <1>5. /\ e \in RdType /\ e.cpupri[c] = INVALID /\ e.rto_mask = m /\ e.rto_count = n
        /\ \A d \in CPU \ {c} : e.cpupri[d] = s.rd.cpupri[d]
    BY <1>1, <1>4 DEF RdType
  <1>6. /\ r \in RqType /\ SameLists(s.rq[c], r) /\ SameCounts(s.rq[c], r)
        /\ r.curr = s.rq[c].curr /\ ~ r.online
    BY <1>1 DEF RqType, SameLists, SameCounts
  <1> HIDE DEF e, r
  <1>7. /\ Books(t) /\ t.task = s.task /\ t.rq[c] = r
        /\ \A d \in CPU \ {c} : t.rq[d] = s.rq[d]
    <2> DEFINE w == WithBoth(s, c, r, e)
    <2>1. Joins(s, c, r, e)
      BY <1>4, <1>5, <1>6 DEF Joins, SameCounts
    <2>2. /\ Books(w) /\ w.task = s.task /\ w.rq[c] = r
          /\ \A d \in CPU \ {c} : w.rq[d] = s.rq[d]
      BY <1>5, <1>6, <2>1, OnlineBooks
    <2> HIDE DEF w
    <2>3. t = w
      BY <1>2 DEF w
    <2> QED
      BY <2>2, <2>3
  <1> QED
    BY <1>6, <1>7 DEF Plugged

LEMMA BackOnlineBooks ==
    ASSUME NEW s, Books(s), NEW c \in CPU, ~ s.rq[c].online
    PROVE  Plugged(s, Onlined(s, c), c)
  <1> SUFFICES ASSUME NEW on,
                      on = [s EXCEPT !.rq[c].online = TRUE, !.rd.cpupri[c] = s.rq[c].highest],
                      NEW t, t = IF s.rq[c].overloaded THEN rt_set_overload(on, c) ELSE on
               PROVE  Plugged(s, t, c)
    BY DEF Onlined
  <1> DEFINE over == s.rq[c].overloaded
             m == IF over THEN s.rd.rto_mask \cup {c} ELSE s.rd.rto_mask
             n == IF over THEN s.rd.rto_count + 1 ELSE s.rd.rto_count
             D == [s.rd EXCEPT !.cpupri[c] = s.rq[c].highest]
             e == [D EXCEPT !.rto_mask = m, !.rto_count = n]
             r == [s.rq[c] EXCEPT !.online = TRUE]
             A == [s.rq EXCEPT ![c] = r]
  <1>1. /\ s \in StateType /\ s.rq[c] \in RqType /\ CountsExact(s, c, Queued(s, c))
        /\ s.rd \in RdType /\ s.rd.rto_count = Cardinality(s.rd.rto_mask)
    BY BooksFacts DEF Books, StateType, RdType
  <1>2. /\ D \in RdType /\ D.rto_mask = s.rd.rto_mask /\ D.rto_count = s.rd.rto_count
        /\ D.cpupri = [s.rd.cpupri EXCEPT ![c] = s.rq[c].highest]
    BY <1>1 DEF RdType, RqType
  <1>3. t = WithBoth(s, c, r, e)
    <2>1. A[c].online
      BY <1>1 DEF StateType, RqType
    <2>2. on = [rq |-> A, rd |-> D, task |-> s.task]
      BY <1>1 DEF StateType, RdType
    <2>3. t = IF over THEN rt_set_overload([rq |-> A, rd |-> D, task |-> s.task], c)
              ELSE [rq |-> A, rd |-> D, task |-> s.task]
      BY <2>2
    <2>4. WithBoth(s, c, r, e) = [rq |-> A, rd |-> e, task |-> s.task]
      BY DEF WithBoth
    <2> HIDE DEF A, D
    <2>5. CASE over
      <3>1. rt_set_overload([rq |-> A, rd |-> D, task |-> s.task], c)
              = [rq |-> A, task |-> s.task,
                 rd |-> [D EXCEPT !.rto_mask = D.rto_mask \cup {c},
                                  !.rto_count = D.rto_count + 1]]
        BY <2>1 DEF rt_set_overload
      <3>2. [D EXCEPT !.rto_mask = D.rto_mask \cup {c}, !.rto_count = D.rto_count + 1] = e
        BY <1>2, <2>5
      <3> HIDE DEF e
      <3> QED
        BY <2>3, <2>4, <2>5, <3>1, <3>2
    <2>6. CASE ~ over
      <3>1. D = e
        BY <1>2, <2>6 DEF RdType
      <3> HIDE DEF e
      <3> QED
        BY <2>3, <2>4, <2>6, <3>1
    <2> QED
      BY <2>5, <2>6
  <1>4. c \notin s.rd.rto_mask /\ s.rq[c].highest \in Prio
    BY <1>1 DEF CountsExact, RqType
  <1>5. m \in SUBSET CPU /\ n \in Int /\ n = Cardinality(m) /\ (c \in m <=> over)
        /\ \A d \in CPU \ {c} : d \in m <=> d \in s.rd.rto_mask
    <2>1. s.rd.rto_mask \in SUBSET CPU /\ s.rd.rto_count \in Int
      BY <1>1 DEF RdType
    <2>2. IsFiniteSet(s.rd.rto_mask)
      BY <2>1, Names, FS_Subset
    <2>3. CASE over
      <3>1. Cardinality(s.rd.rto_mask \cup {c}) = Cardinality(s.rd.rto_mask) + 1
        BY <1>4, <2>2, <2>3, FS_AddElement
      <3> QED
        BY <1>1, <2>1, <2>3, <3>1
    <2>4. CASE ~ over
      BY <1>1, <1>4, <2>1, <2>4
    <2> QED
      BY <2>3, <2>4
  <1> HIDE DEF m, n, D
  <1>6. /\ e \in RdType /\ e.cpupri[c] = s.rq[c].highest /\ e.rto_mask = m /\ e.rto_count = n
        /\ \A d \in CPU \ {c} : e.cpupri[d] = s.rd.cpupri[d]
    BY <1>1, <1>2, <1>4, <1>5 DEF RdType
  <1>7. /\ r \in RqType /\ SameLists(s.rq[c], r) /\ SameCounts(s.rq[c], r)
        /\ r.curr = s.rq[c].curr /\ r.online
    BY <1>1 DEF RqType, SameLists, SameCounts
  <1> HIDE DEF e, r
  <1>8. /\ Books(t) /\ t.task = s.task /\ t.rq[c] = r
        /\ \A d \in CPU \ {c} : t.rq[d] = s.rq[d]
    <2> DEFINE w == WithBoth(s, c, r, e)
    <2>1. Joins(s, c, r, e)
      BY <1>5, <1>6, <1>7 DEF Joins, SameCounts
    <2>2. /\ Books(w) /\ w.task = s.task /\ w.rq[c] = r
          /\ \A d \in CPU \ {c} : w.rq[d] = s.rq[d]
      BY <1>6, <1>7, <2>1, OnlineBooks
    <2> HIDE DEF w
    <2>3. t = w
      BY <1>3 DEF w
    <2> QED
      BY <2>2, <2>3
  <1> QED
    BY <1>7, <1>8 DEF Plugged

\* Where select_fallback_rq() may put a task.
LEMMA FallbackFacts ==
    ASSUME NEW s \in StateType, NEW p \in Task, CpusOK
    PROVE  /\ fallback_mask(s, p) \in Masks
           /\ fallback_cpu(s, p) \in fallback_mask(s, p) /\ fallback_cpu(s, p) \in cpus.active
           /\ fallback_cpu(s, p) \in CPU
  <1> DEFINE F == fallback_mask(s, p)
             T == F \cap cpus.active
  <1>1. s.task[p].mask \in Masks /\ s.task[p].mask \subseteq CPU
    BY TaskFacts
  <1>2. cpus.active \subseteq CPU /\ CPU \ Pluggable \subseteq cpus.active
    BY DEF CpusOK
  <1>3. F \in Masks /\ T # {}
    BY <1>1, <1>2, Names DEF fallback_mask
  <1>4. T \in SUBSET Nat
    BY <1>2, Names
  <1>5. fallback_cpu(s, p) = Min(T)
    BY DEF fallback_cpu
  <1>6. Min(T) \in T
    BY <1>3, <1>4, MinFacts
  <1> QED
    BY <1>2, <1>3, <1>5, <1>6

LEMMA MigrateBooks ==
    ASSUME NEW s, Books(s), CpusOK, NEW c \in CPU, c \notin cpus.active, NEW p \in Task,
           s.task[p].on_rq, s.task[p].cpu = c, s.rq[c].curr # p,
           NEW t, t = migrate_away(s, c, p)
    PROVE  \E d \in cpus.active : \E mask \in Masks :
             /\ d \in CPU /\ d \in mask /\ d # c
             /\ Books(t) /\ SameRunning(s.rq[c], t.rq[c])
             /\ t.rq[d].curr = s.rq[d].curr /\ t.rq[d].online = s.rq[d].online
             /\ \A e \in CPU \ {c, d} : t.rq[e] = s.rq[e]
             /\ OnlyTask(s, t, p, [s.task[p] EXCEPT !.mask = mask, !.cpu = d])
  <1> DEFINE d == fallback_cpu(s, p)
             mask == fallback_mask(s, p)
             u == [set_cpus_allowed_rt(s, p, mask) EXCEPT !.task[p].mask = mask]
             v == move_task(u, p, c, d)
  <1>1. s \in StateType /\ s.task \in [Task -> TaskType] /\ s.task[p] \in TaskType
    BY TaskFacts DEF Books
  <1>2. mask \in Masks /\ d \in mask /\ d \in cpus.active /\ d \in CPU /\ d # c
    BY <1>1, FallbackFacts
  <1>3. t = check_preempt_curr(v, d, p)
    BY DEF migrate_away
  <1> HIDE DEF d, mask
  <1>4. /\ Books(u) /\ Quietly(s, u, c) /\ OnlyTask(s, u, p, [s.task[p] EXCEPT !.mask = mask])
    <2> HIDE DEF u
    <2>1. u = [set_cpus_allowed_rt(s, p, mask) EXCEPT !.task[p].mask = mask]
      BY DEF u
    <2>2. /\ Books(u) /\ Quietly(s, u, s.task[p].cpu)
          /\ OnlyTask(s, u, p, [s.task[p] EXCEPT !.mask = mask])
      BY <1>2, <2>1, MaskBooks
    <2> QED
      BY <2>2
  <1> HIDE DEF u
  <1>5. u.task[p].on_rq /\ u.task[p].cpu = c /\ u.rq[c].curr # p
    BY <1>1, <1>4 DEF OnlyTask, Quietly, SameRunning, TaskType
  <1>6. /\ Books(v) /\ \A e \in CPU : SameRunning(u.rq[e], v.rq[e])
        /\ \A e \in CPU \ {c, d} : v.rq[e] = u.rq[e]
        /\ OnlyTask(u, v, p, [u.task[p] EXCEPT !.cpu = d])
    BY <1>2, <1>4, <1>5, MoveBooks
  <1> HIDE DEF v
  <1>7. u.task[p] \in TaskType
    BY <1>4, TaskFacts DEF Books
  <1>8. v.task[p].on_rq /\ v.task[p].cpu = d
    BY <1>5, <1>6, <1>7 DEF OnlyTask, TaskType
  <1>9. Books(t) /\ Steady(v, t, d)
    BY <1>2, <1>3, <1>6, <1>8, PreemptBooks
  <1>10. SameRunning(s.rq[c], t.rq[c])
    BY <1>2, <1>4, <1>6, <1>9 DEF Steady, Quietly, SameRunning
  <1>11. t.rq[d].curr = s.rq[d].curr /\ t.rq[d].online = s.rq[d].online
    BY <1>2, <1>4, <1>6, <1>9 DEF Steady, Quietly, SameRunning
  <1>12. \A e \in CPU \ {c, d} : t.rq[e] = s.rq[e]
    BY <1>4, <1>6, <1>9 DEF Steady, Quietly
  <1>13. OnlyTask(s, t, p, [s.task[p] EXCEPT !.mask = mask, !.cpu = d])
    <2>1. [[s.task[p] EXCEPT !.mask = mask] EXCEPT !.cpu = d]
            = [s.task[p] EXCEPT !.mask = mask, !.cpu = d]
      BY <1>1 DEF TaskType
    <2> QED
      BY <1>4, <1>6, <1>9, <2>1 DEF OnlyTask, Steady
  <1> QED
    BY <1>2, <1>9, <1>10, <1>11, <1>12, <1>13
-----------------------------------------------------------------------------
(* What a step leaves to the others *)

\* From s to t, all is left alone but the queues L, their tasks, and the tasks P.
Leaves(s, t, L, P) ==
    /\ \A d \in CPU \ L : SameRunning(s.rq[d], t.rq[d])
    /\ \A p \in Task : s.task[p].on_rq /\ s.task[p].cpu \notin L => t.task[p] = s.task[p]
    /\ \A p \in Task \ P : ~ s.task[p].on_rq =>
         /\ t.task[p] = s.task[p]
         /\ \A d \in CPU : s.rq[d].curr # p => t.rq[d].curr # p

LEMMA LeavesTrans ==
    ASSUME NEW s, NEW t, NEW u, NEW L, NEW P, NEW M, NEW R,
           Leaves(s, t, L, P), Leaves(t, u, M, R)
    PROVE  Leaves(s, u, L \cup M, P \cup R)
  <1>1. ASSUME NEW d \in CPU \ (L \cup M)
        PROVE  SameRunning(s.rq[d], u.rq[d])
    <2>1. SameRunning(s.rq[d], t.rq[d]) /\ SameRunning(t.rq[d], u.rq[d])
      BY <1>1 DEF Leaves
    <2> QED
      BY <2>1 DEF SameRunning
  <1>2. ASSUME NEW p \in Task, s.task[p].on_rq, s.task[p].cpu \notin L \cup M
        PROVE  u.task[p] = s.task[p]
    <2>1. t.task[p] = s.task[p]
      BY <1>2 DEF Leaves
    <2> QED
      BY <1>2, <2>1 DEF Leaves
  <1>3. ASSUME NEW p \in Task \ (P \cup R), ~ s.task[p].on_rq
        PROVE  /\ u.task[p] = s.task[p]
               /\ \A d \in CPU : s.rq[d].curr # p => u.rq[d].curr # p
    <2>1. t.task[p] = s.task[p] /\ \A d \in CPU : s.rq[d].curr # p => t.rq[d].curr # p
      BY <1>3 DEF Leaves
    <2>2. u.task[p] = t.task[p] /\ \A d \in CPU : t.rq[d].curr # p => u.rq[d].curr # p
      BY <1>3, <2>1 DEF Leaves
    <2> QED
      BY <2>1, <2>2
  <1> QED
    BY <1>1, <1>2, <1>3, Zenon DEF Leaves

LEMMA SteadyLeaves ==
    ASSUME NEW s \in StateType, NEW t \in StateType, NEW c \in CPU, Steady(s, t, c)
    PROVE  Leaves(s, t, {c}, {})
  <1>1. \A d \in CPU : t.rq[d].curr = s.rq[d].curr
    BY DEF Steady
  <1>2. \A d \in CPU \ {c} : SameRunning(s.rq[d], t.rq[d])
    BY DEF Steady, SameRunning
  <1> QED
    BY <1>1, <1>2 DEF Steady, Leaves

LEMMA SwitchedLeaves ==
    ASSUME NEW s \in StateType, NEW t \in StateType, NEW c \in CPU, Switched(s, t, c)
    PROVE  Leaves(s, t, {c}, {})
  <1>1. \A d \in CPU \ {c} : SameRunning(s.rq[d], t.rq[d])
    BY DEF Switched, SameRunning
  <1>2. ASSUME NEW p \in Task, ~ s.task[p].on_rq, NEW d \in CPU, s.rq[d].curr # p
        PROVE  t.rq[d].curr # p
    <2>1. CASE d = c
      BY <2>1, <1>2, Names DEF Switched
    <2>2. CASE d # c
      BY <2>2, <1>2 DEF Switched
    <2> QED
      BY <2>1, <2>2
  <1>3. t.task = s.task
    BY DEF Switched
  <1> QED
    BY <1>1, <1>2, <1>3 DEF Leaves

\* One task changes: one on the queue c,
LEMMA QueuedLeaves ==
    ASSUME NEW s \in StateType, NEW t \in StateType, NEW p \in Task, NEW L \in SUBSET CPU,
           s.task[p].on_rq, s.task[p].cpu \in L,
           \A d \in CPU : SameRunning(s.rq[d], t.rq[d]), NEW y, OnlyTask(s, t, p, y)
    PROVE  Leaves(s, t, L, {})
  <1>1. \A d \in CPU : t.rq[d].curr = s.rq[d].curr
    BY DEF SameRunning
  <1>2. \A q \in Task \ {p} : t.task[q] = s.task[q]
    BY DEF OnlyTask
  <1> QED
    BY <1>1, <1>2, Zenon DEF Leaves

\* or one that is on none.
LEMMA ApartLeaves ==
    ASSUME NEW s \in StateType, NEW t \in StateType, NEW p \in Task, ~ s.task[p].on_rq,
           \A d \in CPU : SameRunning(s.rq[d], t.rq[d]), NEW y, OnlyTask(s, t, p, y)
    PROVE  Leaves(s, t, {}, {p})
  <1>1. \A d \in CPU : t.rq[d].curr = s.rq[d].curr
    BY DEF SameRunning
  <1>2. \A q \in Task \ {p} : t.task[q] = s.task[q]
    BY DEF OnlyTask
  <1> QED
    BY <1>1, <1>2, Zenon DEF Leaves

LEMMA FrameKept ==
    ASSUME NEW s \in StateType, NEW t \in StateType, NEW f \in FrameType, NEW d \in CPU,
           FrameOK(s, f, d), f.pc # "dying", NEW L, NEW P, Leaves(s, t, L, P),
           f.held \cap L = {}, f.p \notin P
    PROVE  FrameOK(t, f, d)
  <1>1. ASSUME NEW p \in Task, NEW q \in CPU, q \in f.held, Pushee(s, p, q)
        PROVE  Pushee(t, p, q) /\ t.task[p] = s.task[p]
    <2>1. q \notin L
      BY <1>1
    <2>2. t.rq[q].curr = s.rq[q].curr
      BY <2>1, Zenon DEF Leaves, SameRunning
    <2>3. t.task[p] = s.task[p]
      BY <1>1, <2>1, Zenon DEF Leaves, Pushee
    <2> QED
      BY <1>1, <2>2, <2>3 DEF Pushee
  <1>2. CASE f.pc = "out"
    BY <1>2 DEF FrameOK
  <1>3. CASE f.pc = "wake"
    <2>1. WakeOK(s, f)
      BY <1>3 DEF FrameOK
    <2>2. f.p \in Task \ P /\ ~ s.task[f.p].on_rq /\ \A e \in CPU : s.rq[e].curr # f.p
      BY <2>1, Zenon DEF WakeOK
    <2>3. t.task[f.p] = s.task[f.p] /\ \A e \in CPU : t.rq[e].curr # f.p
      BY <2>2, Zenon DEF Leaves
    <2>4. WakeOK(t, f)
      BY <2>1, <2>3, Zenon DEF WakeOK
    <2> QED
      BY <1>3, <2>4 DEF FrameOK
  <1>4. CASE f.pc = "post"
    BY <1>4 DEF FrameOK
  <1>5. ASSUME PushOK(s, f, d), BalanceOK(s, f, d)
        PROVE  PushOK(t, f, d)
    <2>1. ASSUME f.pc = "push", f.next # NONE
          PROVE  Pushee(t, f.next, f.q)
      <3>1. Pushee(s, f.next, f.q) /\ f.q \in CPU /\ f.q \in f.held
        BY <1>5, <2>1 DEF PushOK, BalanceOK
      <3>2. f.next \in Task
        BY <3>1 DEF Pushee
      <3> QED
        BY <3>1, <3>2, <1>1
    <2>2. ASSUME f.pc = "find"
          PROVE  Pushee(t, f.next, f.q)
      <3>1. Pushee(s, f.next, f.q) /\ f.q \in CPU /\ f.q \in f.held
        BY <1>5, <2>2 DEF PushOK, BalanceOK
      <3>2. f.next \in Task
        BY <3>1 DEF Pushee
      <3> QED
        BY <3>1, <3>2, <1>1
    <2>3. ASSUME f.pc \in {"lock", "locked"}, ~ f.dropped
          PROVE  Pushee(t, f.next, f.q) /\ f.peer \in t.task[f.next].mask
      <3>1. /\ Pushee(s, f.next, f.q) /\ f.peer \in s.task[f.next].mask
            /\ f.q \in CPU /\ f.next \in Task
        BY <1>5, <2>3 DEF PushOK, BalanceOK
      <3>2. f.q \in f.held
        BY <1>5, <2>3 DEF BalanceOK
      <3>3. Pushee(t, f.next, f.q) /\ t.task[f.next] = s.task[f.next]
        BY <3>1, <3>2, <1>1
      <3> QED
        BY <3>1, <3>3
    <2> QED
      BY <1>5, <2>1, <2>2, <2>3 DEF PushOK
  <1>6. BalanceOK(s, f, d) <=> BalanceOK(t, f, d)
    BY DEF BalanceOK
  <1>7. PullOK(s, f, d) <=> PullOK(t, f, d)
    BY DEF PullOK
  <1>8. CASE f.pc \in {"push", "find"}
    BY <1>5, <1>6, <1>8 DEF FrameOK
  <1>9. CASE f.pc = "pull"
    BY <1>6, <1>7, <1>9 DEF FrameOK
  <1>10. CASE f.pc \in {"lock", "locked"}
    BY <1>5, <1>6, <1>7, <1>10 DEF FrameOK
  <1>11. f.pc \in {"out", "wake", "post", "push", "find", "pull", "lock", "locked", "dying"}
    BY DEF FrameType
  <1> QED
    BY <1>2, <1>3, <1>4, <1>8, <1>9, <1>10, <1>11

-----------------------------------------------------------------------------
(* What a step has to show *)

Fits(s) == \A p \in Task : s.task[p].on_rq => s.task[p].cpu \in s.task[p].mask \cap cpus.online

\* CPU c alone may touch the queues L and the tasks P.
Mine(c, L, P) == \A d \in CPU \ {c} : at[d].held \cap L = {} /\ at[d].p \notin P

\* The frame f that CPU c goes on with.
NextFrame(c, t, f) ==
    /\ f \in FrameType /\ f.pc # "dying" /\ FrameOK(t, f, c)
    /\ Mine(c, f.held, {f.p} \ {NONE})

\* It changes the state of the scheduler to t,
Change(c, t, L, P) ==
    /\ L \subseteq cpus.online /\ Mine(c, L, P) /\ Leaves(S, t, L, P)
    /\ Books(t) /\ Fits(t)

\* and goes on with f.
StepTo(c, t, f, L, P) ==
    Change(c, t, L, P) /\ AwakeAt(t, [at EXCEPT ![c] = f]) /\ NextFrame(c, t, f)

LEMMA FramePrimed ==
    ASSUME NEW t, NEW f \in FrameType, NEW d \in CPU, FrameOK(t, f, d), S' = t, at'[d] = f,
           cpus.online \subseteq cpus'.online, f.pc = "dying" => cpus' = cpus
    PROVE  FrameOK(S, at[d], d)'
  <1>1. BalanceOK(t, f, d) => BalanceOK(S, at[d], d)'
    BY DEF BalanceOK
  <1>2. PushOK(t, f, d) => PushOK(S, at[d], d)'
    BY DEF PushOK, Pushee
  <1>3. PullOK(t, f, d) => PullOK(S, at[d], d)'
    BY DEF PullOK
  <1>4. WakeOK(t, f) => WakeOK(S, at[d])'
    BY DEF WakeOK
  <1>5. f.pc = "dying" /\ DyingOK(t, f, d) => DyingOK(S, at[d], d)'
    BY DEF DyingOK
  <1>6. CASE f.pc = "out"
    BY <1>6 DEF FrameOK, Outside
  <1>7. CASE f.pc = "wake"
    BY <1>7, <1>4 DEF FrameOK
  <1>8. CASE f.pc = "post"
    BY <1>8 DEF FrameOK
  <1>9. CASE f.pc \in {"push", "find"}
    BY <1>9, <1>1, <1>2 DEF FrameOK
  <1>10. CASE f.pc = "pull"
    BY <1>10, <1>1, <1>3 DEF FrameOK
  <1>11. CASE f.pc \in {"lock", "locked"}
    BY <1>11, <1>1, <1>2, <1>3 DEF FrameOK
  <1>12. CASE f.pc = "dying"
    BY <1>12, <1>5 DEF FrameOK
  <1> QED
    BY <1>6, <1>7, <1>8, <1>9, <1>10, <1>11, <1>12 DEF FrameType

LEMMA InvPrimed ==
    ASSUME NEW t, Books(t), S' = t, Placed(S)', CpusOK', Exclusive', at' \in [CPU -> FrameType],
           \A d \in CPU : FrameOK(S, at[d], d)', NEW a, at' = a, AwakeAt(t, a),
           missed' \subseteq Task
    PROVE  IInv'
  <1>1. Books(S)'
    OBVIOUS
  <1>2. AwakeAt(S, at)'
    OBVIOUS
  <1>3. Frames'
    BY DEF Frames
  <1> QED
    BY <1>1, <1>2, <1>3 DEF IInv

LEMMA StepKeeps ==
    ASSUME IInv, ~ Stopped, NEW c \in CPU, NEW t, NEW f, NEW L, NEW P, StepTo(c, t, f, L, P),
           S' = t, at' = [at EXCEPT ![c] = f], cpus' = cpus, missed' \subseteq Task
    PROVE  IInv'
  <1> DEFINE a == [at EXCEPT ![c] = f]
  <1>1. /\ Books(S) /\ S \in StateType /\ Books(t) /\ t \in StateType
        /\ Placed(S) /\ CpusOK /\ Exclusive /\ at \in [CPU -> FrameType]
        /\ \A d \in CPU : FrameOK(S, at[d], d) /\ at[d].pc # "dying"
    BY DEF IInv, Frames, Books, StepTo, Change, Stopped
  <1>2. f \in FrameType /\ f.pc # "dying" /\ FrameOK(t, f, c)
    BY DEF StepTo, NextFrame
  <1>3. a \in [CPU -> FrameType] /\ a[c] = f /\ \A d \in CPU \ {c} : a[d] = at[d]
    BY <1>1, <1>2
  <1>4. ASSUME NEW d \in CPU
        PROVE  FrameOK(S, at[d], d)'
    <2>1. CASE d = c
      <3>1. at'[d] = f
        BY <2>1, <1>3
      <3> QED
        BY <3>1, <2>1, <1>2, FramePrimed
    <2>2. CASE d # c
      <3>1. at[d].held \cap L = {} /\ at[d].p \notin P
        BY <2>2, Zenon DEF StepTo, Change, Mine
      <3>2. at[d] \in FrameType /\ FrameOK(S, at[d], d) /\ at[d].pc # "dying" /\ Leaves(S, t, L, P)
        BY <1>1 DEF StepTo, Change
      <3>3. FrameOK(t, at[d], d)
        BY <3>1, <3>2, <1>1, FrameKept
      <3>4. at'[d] = at[d]
        BY <2>2, <1>3
      <3> QED
        BY <3>2, <3>3, <3>4, FramePrimed
    <2> QED
      BY <2>1, <2>2
  <1>5. Exclusive'
    <2>1. ASSUME NEW d \in CPU, NEW e \in CPU, d # e
          PROVE  /\ a[d].held \cap a[e].held = {}
                 /\ a[d].p = a[e].p => a[d].p = NONE
                 /\ a[d].pc # "dying"
      <3>1. CASE d # c /\ e # c
        BY <3>1, <2>1, <1>1, <1>3, Zenon DEF Exclusive
      <3>2. ASSUME NEW x \in CPU \ {c}
            PROVE  /\ at[x].held \cap f.held = {}
                   /\ at[x].p = f.p => f.p = NONE
        BY DEF StepTo, NextFrame, Mine
      <3>3. CASE d = c
        BY <3>3, <3>2, <2>1, <1>2, <1>3
      <3>4. CASE e = c
        BY <3>4, <3>2, <2>1, <1>1, <1>3
      <3> QED
        BY <3>1, <3>3, <3>4
    <2> QED
      BY <2>1 DEF Exclusive
  <1>6. Placed(S)'
    <2>1. Fits(t) /\ L \subseteq cpus.online /\ Leaves(S, t, L, P)
      BY DEF StepTo, Change
    <2>2. ASSUME NEW d \in CPU \ cpus.online
          PROVE  t.rq[d].curr = IDLE /\ ~ t.rq[d].resched /\ ~ t.rq[d].online
      <3>1. SameRunning(S.rq[d], t.rq[d])
        BY <2>1, Zenon DEF Leaves
      <3>2. S.rq[d].curr = IDLE /\ ~ S.rq[d].resched /\ ~ S.rq[d].online
        BY <1>1, Zenon DEF Placed
      <3> QED
        BY <3>1, <3>2 DEF SameRunning
    <2> QED
      BY <2>1, <2>2 DEF Placed, Fits
  <1>7. CpusOK'
    BY <1>1 DEF CpusOK
  <1>8. at' = a /\ at' \in [CPU -> FrameType] /\ AwakeAt(t, a)
    BY <1>3 DEF StepTo
  <1> HIDE DEF a
  <1> QED
    BY <1>1, <1>4, <1>5, <1>6, <1>7, <1>8, InvPrimed

LEMMA BecomesFacts ==
    ASSUME NEW s \in StateType, NEW b \in SUBSET Task, missed \subseteq Task, Becomes(s, b)
    PROVE  S' = s /\ missed' \subseteq Task
  <1>1. s = [rq |-> s.rq, rd |-> s.rd, task |-> s.task]
    BY DEF StateType
  <1>2. S' = s
    BY <1>1 DEF Becomes, S
  <1> QED
    BY <1>2 DEF Becomes

LEMMA SameState ==
    ASSUME UNCHANGED <<rq, rd, task, missed>>, missed \subseteq Task
    PROVE  S' = S /\ missed' \subseteq Task
  BY DEF S

LEMMA AwakeKept ==
    ASSUME NEW s \in StateType, NEW t \in StateType, NEW a \in [CPU -> FrameType],
           AwakeAt(s, a), NEW c \in CPU, NEW f \in FrameType,
           \A d \in CPU : t.rq[d].curr = s.rq[d].curr,
           \A p \in Task : s.task[p].on_rq => t.task[p].on_rq,
           Picking(a[c]) => Picking(f)
    PROVE  AwakeAt(t, [a EXCEPT ![c] = f])
  <1> DEFINE b == [a EXCEPT ![c] = f]
  <1>1. SUFFICES ASSUME NEW d \in CPU, t.rq[d].curr # IDLE
                 PROVE  t.task[t.rq[d].curr].on_rq \/ Picking(b[d])
    BY Zenon DEF AwakeAt
  <1>2. s.rq[d] \in RqType
    BY RqFacts
  <1>3. s.rq[d].curr \in Task
    BY <1>1, <1>2 DEF RqType
  <1>4. s.task[s.rq[d].curr].on_rq \/ Picking(a[d])
    BY <1>1, <1>3, Zenon DEF AwakeAt
  <1>5. Picking(a[d]) => Picking(b[d])
    OBVIOUS
  <1> QED
    BY <1>3, <1>4, <1>5

-----------------------------------------------------------------------------
(* The changes that steps are made of *)

\* Nobody starts or stops running, and nobody goes to sleep.
Calm(s, t) ==
    /\ \A d \in CPU : t.rq[d].curr = s.rq[d].curr
    /\ \A p \in Task : s.task[p].on_rq => t.task[p].on_rq

LEMMA InvFacts ==
    ASSUME IInv
    PROVE  /\ Books(S) /\ S \in StateType /\ S.rq = rq /\ S.rd = rd /\ S.task = task
           /\ Fits(S) /\ CpusOK /\ cpus.online \subseteq CPU /\ cpus.active \subseteq cpus.online
           /\ at \in [CPU -> FrameType] /\ \A c \in CPU : FrameOK(S, at[c], c)
           /\ AwakeAt(S, at) /\ missed \subseteq Task
           /\ \A c \in CPU \ cpus.online : rq[c].curr = IDLE /\ ~ rq[c].resched /\ ~ rq[c].online
  <1>1. S.rq = rq /\ S.rd = rd /\ S.task = task
    BY DEF S
  <1>2. /\ Books(S) /\ Placed(S) /\ CpusOK /\ Frames /\ AwakeAt(S, at) /\ missed \subseteq Task
    BY DEF IInv
  <1>3. S \in StateType
    BY <1>2 DEF Books
  <1>4. /\ Fits(S)
        /\ \A c \in CPU \ cpus.online : rq[c].curr = IDLE /\ ~ rq[c].resched /\ ~ rq[c].online
    BY <1>1, <1>2 DEF Placed, Fits
  <1>5. cpus.online \subseteq CPU /\ cpus.active \subseteq cpus.online
    BY <1>2 DEF CpusOK
  <1>6. at \in [CPU -> FrameType] /\ \A c \in CPU : FrameOK(S, at[c], c)
    BY <1>2 DEF Frames
  <1> QED
    BY <1>1, <1>2, <1>3, <1>4, <1>5, <1>6

LEMMA MineFacts ==
    ASSUME IInv, NEW c \in CPU
    PROVE  /\ Mine(c, at[c].held, {at[c].p} \ {NONE})
           /\ \A q \in CPU : Free(q) => Mine(c, {q}, {})
           /\ \A p \in Task : PiFree(p) => Mine(c, {}, {p})
  <1>1. Exclusive
    BY DEF IInv
  <1>2. ASSUME NEW d \in CPU \ {c}
        PROVE  at[d].held \cap at[c].held = {} /\ at[d].p \notin {at[c].p} \ {NONE}
    BY <1>1 DEF Exclusive
  <1>3. Mine(c, at[c].held, {at[c].p} \ {NONE})
    BY <1>2 DEF Mine
  <1>4. \A q \in CPU : Free(q) => Mine(c, {q}, {})
    BY DEF Mine, Free
  <1>5. \A p \in Task : PiFree(p) => Mine(c, {}, {p})
    BY DEF Mine, PiFree
  <1> QED
    BY <1>3, <1>4, <1>5

LEMMA MineLess ==
    ASSUME NEW c, NEW L, NEW P, NEW M, NEW R, Mine(c, L, P), M \subseteq L, R \subseteq P
    PROVE  Mine(c, M, R)
  BY DEF Mine

LEMMA ChangeNone ==
    ASSUME IInv, NEW c, NEW L, NEW P, L \subseteq cpus.online, Mine(c, L, P)
    PROVE  Change(c, S, L, P) /\ Calm(S, S)
  BY InvFacts DEF Change, Calm, Leaves, SameRunning

\* More of the same: s is the state so far, t the next one.
LEMMA ChangeMore ==
    ASSUME NEW c, NEW s, NEW t, NEW L, NEW P, NEW M, NEW R, Change(c, s, L, P),
           Leaves(s, t, M, R), M \subseteq L, R \subseteq P, Books(t), Fits(t)
    PROVE  Change(c, t, L, P)
  <1>1. Leaves(S, t, L \cup M, P \cup R)
    BY LeavesTrans DEF Change
  <1>2. L \cup M = L /\ P \cup R = P
    OBVIOUS
  <1> QED
    BY <1>1, <1>2 DEF Change

LEMMA ChangeSteady ==
    ASSUME NEW c, NEW s, NEW t, NEW L, NEW P, Change(c, s, L, P),
           NEW q \in CPU, q \in L, Books(t), Steady(s, t, q)
    PROVE  Change(c, t, L, P) /\ (Calm(S, s) => Calm(S, t))
  <1>1. s \in StateType /\ t \in StateType
    BY DEF Change, Books
  <1>2. Leaves(s, t, {q}, {})
    BY <1>1, SteadyLeaves
  <1>3. t.task = s.task /\ \A d \in CPU : t.rq[d].curr = s.rq[d].curr
    BY DEF Steady
  <1>4. Fits(t)
    BY <1>3 DEF Fits, Change
  <1>5. Change(c, t, L, P)
    BY <1>2, <1>4, ChangeMore
  <1> QED
    BY <1>3, <1>5 DEF Calm

LEMMA ChangeTold ==
    ASSUME NEW c, NEW s, NEW t, NEW L, NEW P, Change(c, s, L, P), Calm(S, s),
           NEW q \in CPU, q \in L, t \in {s, resched_curr(s, q)}
    PROVE  Change(c, t, L, P) /\ Calm(S, t)
  <1>1. ASSUME t = resched_curr(s, q)
        PROVE  Books(t) /\ Steady(s, t, q)
    BY <1>1, ReschedBooks DEF Change
  <1>2. CASE t = resched_curr(s, q)
    BY <1>1, <1>2, ChangeSteady
  <1> QED
    BY <1>2

\* One task becomes y: it is on a queue of L,
LEMMA ChangeQueued ==
    ASSUME NEW c, NEW s, NEW t, NEW L, NEW P, Change(c, s, L, P), L \in SUBSET CPU,
           NEW p \in Task, s.task[p].on_rq, s.task[p].cpu \in L,
           Books(t), \A d \in CPU : SameRunning(s.rq[d], t.rq[d]),
           NEW y, OnlyTask(s, t, p, y), y.on_rq => y.cpu \in y.mask \cap cpus.online
    PROVE  Change(c, t, L, P) /\ (Calm(S, s) /\ y.on_rq => Calm(S, t))
  <1>1. s \in StateType /\ t \in StateType
    BY DEF Change, Books
  <1>2. Leaves(s, t, L, {})
    BY <1>1, QueuedLeaves
  <1>3. t.task[p] = y /\ \A q \in Task \ {p} : t.task[q] = s.task[q]
    BY DEF OnlyTask
  <1>4. \A d \in CPU : t.rq[d].curr = s.rq[d].curr
    BY DEF SameRunning
  <1>5. Fits(t)
    BY <1>3, Zenon DEF Fits, Change
  <1>6. Change(c, t, L, P)
    BY <1>2, <1>5, ChangeMore
  <1>7. Calm(S, s) /\ y.on_rq => Calm(S, t)
    BY <1>3, <1>4 DEF Calm
  <1> QED
    BY <1>6, <1>7

\* or on none, and in P.
LEMMA ChangeApart ==
    ASSUME NEW c, NEW s, NEW t, NEW L, NEW P, Change(c, s, L, P),
           NEW p \in Task, ~ s.task[p].on_rq, p \in P,
           Books(t), \A d \in CPU : SameRunning(s.rq[d], t.rq[d]),
           NEW y, OnlyTask(s, t, p, y), y.on_rq => y.cpu \in y.mask \cap cpus.online
    PROVE  Change(c, t, L, P) /\ (Calm(S, s) => Calm(S, t))
  <1>1. s \in StateType /\ t \in StateType
    BY DEF Change, Books
  <1>2. Leaves(s, t, {}, {p})
    BY <1>1, ApartLeaves
  <1>3. t.task[p] = y /\ \A q \in Task \ {p} : t.task[q] = s.task[q]
    BY DEF OnlyTask
  <1>4. \A d \in CPU : t.rq[d].curr = s.rq[d].curr
    BY DEF SameRunning
  <1>5. Fits(t)
    BY <1>3, Zenon DEF Fits, Change
  <1>6. Change(c, t, L, P)
    BY <1>2, <1>5, ChangeMore
  <1>7. Calm(S, s) => Calm(S, t)
    BY <1>3, <1>4 DEF Calm
  <1> QED
    BY <1>6, <1>7

LEMMA CalmKeeps ==
    ASSUME IInv, ~ Stopped, NEW c \in CPU, NEW t, NEW L, NEW P, Change(c, t, L, P), Calm(S, t),
           NEW f, NextFrame(c, t, f), Picking(at[c]) => Picking(f),
           S' = t, at' = [at EXCEPT ![c] = f], cpus' = cpus, missed' \subseteq Task
    PROVE  IInv'
  <1>1. t \in StateType /\ f \in FrameType
    BY DEF Change, Books, NextFrame
  <1>2. /\ \A d \in CPU : t.rq[d].curr = S.rq[d].curr
        /\ \A p \in Task : S.task[p].on_rq => t.task[p].on_rq
    BY Zenon DEF Calm
  <1>3. S \in StateType /\ at \in [CPU -> FrameType] /\ AwakeAt(S, at)
    BY InvFacts
  <1>4. AwakeAt(t, [at EXCEPT ![c] = f])
    BY <1>1, <1>2, <1>3, AwakeKept
  <1>5. StepTo(c, t, f, L, P)
    BY <1>4 DEF StepTo
  <1> QED
    BY <1>5, StepKeeps

-----------------------------------------------------------------------------
(* How a step goes on *)

LEMMA OutsideType ==
    /\ Outside \in FrameType /\ Outside.pc = "out" /\ Outside.caller = NONE /\ Outside.held = {}
    /\ Outside.p = NONE /\ Outside.q = NONE /\ Outside.next = NONE /\ Outside.peer = NONE
    /\ Outside.tries = 0 /\ Outside.dropped = FALSE /\ Outside.ret = FALSE
  BY Names DEF Outside, FrameType

LEMMA OutFrame ==
    ASSUME NEW c, NEW t
    PROVE  NextFrame(c, t, Outside)
  <1>1. Mine(c, Outside.held, {Outside.p} \ {NONE})
    BY OutsideType DEF Mine
  <1> QED
    BY <1>1, OutsideType DEF NextFrame, FrameOK

LEMMA PostFrame ==
    ASSUME NEW c \in CPU, c \in cpus.online, NEW t
    PROVE  NextFrame(c, t, [Outside EXCEPT !.pc = "post"])
  <1> DEFINE f == [Outside EXCEPT !.pc = "post"]
  <1>1. f \in FrameType /\ f.pc = "post" /\ f.held = {} /\ f.p = NONE
    BY OutsideType DEF FrameType
  <1>2. Mine(c, f.held, {f.p} \ {NONE})
    BY <1>1 DEF Mine
  <1> QED
    BY <1>1, <1>2 DEF NextFrame, FrameOK

\* A push or pull of queue q on behalf of p.
LEMMA PushFrame ==
    ASSUME NEW c, NEW t, NEW q \in CPU, q \in cpus.online, NEW caller \in PushCaller,
           NEW p \in Task \cup {NONE}, caller \in {"woken", "to"} => p \in Task,
           Mine(c, {q}, {p} \ {NONE})
    PROVE  NextFrame(c, t, Push(q, caller, p))
  <1> DEFINE f == Push(q, caller, p)
  <1>1. /\ f \in FrameType /\ f.pc = "push" /\ f.held = {q} /\ f.p = p /\ f.q = q
        /\ f.caller = caller /\ f.next = NONE
    BY OutsideType DEF FrameType, Push, PushCaller
  <1> HIDE DEF f
  <1>2. BalanceOK(t, f, c) /\ PushOK(t, f, c)
    BY <1>1 DEF BalanceOK, PushOK
  <1>3. FrameOK(t, f, c)
    BY <1>1, <1>2 DEF FrameOK
  <1>4. NextFrame(c, t, f)
    BY <1>1, <1>3 DEF NextFrame
  <1> QED
    BY <1>4 DEF f

LEMMA PullFrame ==
    ASSUME NEW c, NEW t, NEW q \in CPU, q \in cpus.online, NEW caller \in PullCaller,
           NEW p \in Task \cup {NONE}, caller \in {"prio", "from"} => p \in Task,
           caller = "pick" => q = c, Mine(c, {q}, {p} \ {NONE})
    PROVE  NextFrame(c, t, Pull(q, caller, p)) /\ Pull(q, caller, p).caller = caller
  <1> DEFINE f == Pull(q, caller, p)
  <1>1. /\ f \in FrameType /\ f.pc = "pull" /\ f.held = {q} /\ f.p = p /\ f.q = q
        /\ f.caller = caller
    BY OutsideType DEF FrameType, Pull, PullCaller
  <1> HIDE DEF f
  <1>2. BalanceOK(t, f, c) /\ PullOK(t, f, c)
    BY <1>1 DEF BalanceOK, PullOK
  <1>3. FrameOK(t, f, c)
    BY <1>1, <1>2 DEF FrameOK
  <1>4. NextFrame(c, t, f)
    BY <1>1, <1>3 DEF NextFrame
  <1> QED
    BY <1>1, <1>4 DEF f

LEMMA GotoKeeps ==
    ASSUME IInv, ~ Stopped, NEW c \in CPU, NEW t, NEW L, NEW P, Change(c, t, L, P), Calm(S, t),
           NEW f, NextFrame(c, t, f), Picking(at[c]) => Picking(f),
           NEW b \in SUBSET Task, Becomes(t, b), Goto(c, f), UNCHANGED cpus
    PROVE  IInv'
  <1>1. t \in StateType /\ missed \subseteq Task
    BY InvFacts DEF Change, Books
  <1>2. S' = t /\ missed' \subseteq Task
    BY <1>1, BecomesFacts
  <1>3. at' = [at EXCEPT ![c] = f]
    BY DEF Goto
  <1> QED
    BY <1>2, <1>3, CalmKeeps

LEMMA StayKeeps ==
    ASSUME IInv, ~ Stopped, NEW c \in CPU, NEW t, NEW L, NEW P, Change(c, t, L, P), Calm(S, t),
           at[c] = Outside, NEW b \in SUBSET Task, Becomes(t, b), UNCHANGED <<at, cpus>>
    PROVE  IInv'
  <1>1. Goto(c, Outside)
    BY InvFacts DEF Goto
  <1>2. ~ Picking(at[c])
    BY OutsideType DEF Picking
  <1> QED
    BY <1>1, <1>2, OutFrame, GotoKeeps

LEMMA SkipKeeps ==
    ASSUME IInv, ~ Stopped, NEW c \in CPU, NEW f, NextFrame(c, S, f),
           Picking(at[c]) => Picking(f),
           UNCHANGED <<rq, rd, task, missed>>, Goto(c, f), UNCHANGED cpus
    PROVE  IInv'
  <1>1. Mine(c, {}, {})
    BY DEF Mine
  <1>2. Change(c, S, {}, {}) /\ Calm(S, S)
    BY <1>1, ChangeNone
  <1>3. S' = S /\ missed' \subseteq Task
    BY SameState, InvFacts
  <1>4. at' = [at EXCEPT ![c] = f]
    BY DEF Goto
  <1> QED
    BY <1>2, <1>3, <1>4, CalmKeeps

-----------------------------------------------------------------------------
(* Wakeups *)

\* A task that is on no queue becomes y.
LEMMA ChangeAsleep ==
    ASSUME IInv, NEW c \in CPU, NEW p \in Task, ~ task[p].on_rq, Mine(c, {}, {p}),
           NEW y \in TaskType, ~ y.on_rq, y.cpu = task[p].cpu
    PROVE  LET t == WithTask(S, p, y) IN
           /\ Change(c, t, {}, {p}) /\ Calm(S, t) /\ t \in StateType /\ t.rq = rq /\ t.rd = rd
           /\ t.task = [task EXCEPT ![p] = y] /\ t.task[p] = y
  <1> DEFINE t == WithTask(S, p, y)
  <1>1. Books(S) /\ S \in StateType /\ S.rq = rq /\ S.task = task /\ S.rd = rd
    BY InvFacts
  <1>2. /\ t \in StateType /\ t.rq = rq /\ t.rd = rd /\ t.task = [task EXCEPT ![p] = y]
        /\ OnlyTask(S, t, p, y)
    BY <1>1 DEF WithTask, StateType, OnlyTask
  <1>3. \A d \in CPU : S.rq[d].curr = p => y.cpu = d
    BY <1>1, Names DEF Books, CurrHere
  <1>4. ~ S.task[p].on_rq
    BY <1>1
  <1>5. Books(t)
    BY <1>1, <1>3, <1>4, TaskBooks
  <1> HIDE DEF t
  <1>6. \A d \in CPU : SameRunning(S.rq[d], t.rq[d])
    BY <1>1, <1>2 DEF SameRunning
  <1>7. Change(c, S, {}, {p}) /\ Calm(S, S)
    BY ChangeNone
  <1>8. Change(c, t, {}, {p}) /\ Calm(S, t)
    BY <1>2, <1>4, <1>5, <1>6, <1>7, ChangeApart
  <1>9. t.task[p] = y
    BY <1>2 DEF OnlyTask
  <1> QED
    BY <1>2, <1>8, <1>9 DEF t

LEMMA WakeSelectKeeps ==
    ASSUME IInv, ~ Stopped, NEW c \in CPU, NEW p \in Task, WakeSelect(c, p), UNCHANGED cpus
    PROVE  IInv'
  <1>1. /\ at[c] = Outside /\ ~ task[p].on_rq /\ PiFree(p) /\ \A d \in CPU : rq[d].curr # p
        /\ UNCHANGED <<rq, rd, missed>>
    BY DEF WakeSelect
  <1>2. PICK d \in select_task_rq_rt(S, p) :
            LET good == d \in task[p].mask \cap cpus.online
                cpu == IF good THEN d ELSE fallback_cpu(S, p)
            IN  /\ Goto(c, [Outside EXCEPT !.pc = "wake", !.p = p, !.q = cpu])
                /\ task' = [task EXCEPT ![p].mask = IF good THEN @ ELSE fallback_mask(S, p)]
    BY DEF WakeSelect
  <1> DEFINE good == d \in task[p].mask \cap cpus.online
             cpu == IF good THEN d ELSE fallback_cpu(S, p)
             mask == IF good THEN task[p].mask ELSE fallback_mask(S, p)
             y == [task[p] EXCEPT !.mask = mask]
             f == [Outside EXCEPT !.pc = "wake", !.p = p, !.q = cpu]
             t == WithTask(S, p, y)
  <1>3. S \in StateType /\ S.task = task /\ CpusOK /\ cpus.active \subseteq cpus.online
    BY InvFacts
  <1>4. task[p] \in TaskType /\ task[p].mask \in Masks /\ task[p].mask \subseteq CPU
    BY <1>3, TaskFacts
  <1>5. cpu \in CPU /\ cpu \in mask /\ cpu \in cpus.online /\ mask \in Masks
    BY <1>3, <1>4, FallbackFacts
  <1>6. Goto(c, f) /\ task' = [task EXCEPT ![p] = y]
    BY <1>2, <1>3
  <1> HIDE DEF good, cpu, mask
  <1>7. /\ y \in TaskType /\ ~ y.on_rq /\ y.cpu = task[p].cpu /\ y.mask = mask
    BY <1>1, <1>4, <1>5 DEF TaskType
  <1>8. Mine(c, {}, {p})
    BY <1>1, MineFacts
  <1> HIDE DEF y, t
  <1>9. /\ Change(c, t, {}, {p}) /\ Calm(S, t) /\ t \in StateType /\ t.rq = rq /\ t.rd = rd
        /\ t.task = [task EXCEPT ![p] = y] /\ t.task[p] = y
    BY <1>1, <1>7, <1>8, ChangeAsleep DEF t
  <1>10. /\ f \in FrameType /\ f.pc = "wake" /\ f.p = p /\ f.q = cpu /\ f.held = {}
    BY <1>5, OutsideType DEF FrameType
  <1> HIDE DEF f
  <1>11. WakeOK(t, f)
    BY <1>1, <1>5, <1>7, <1>9, <1>10 DEF WakeOK
  <1>12. Mine(c, f.held, {f.p} \ {NONE})
    BY <1>8, <1>10 DEF Mine
  <1>13. NextFrame(c, t, f)
    BY <1>10, <1>11, <1>12 DEF NextFrame, FrameOK
  <1>14. S' = t
    <2>1. t = [rq |-> t.rq, rd |-> t.rd, task |-> t.task]
      BY <1>9 DEF StateType
    <2> QED
      BY <2>1, <1>1, <1>6, <1>9 DEF S
  <1>15. /\ missed' \subseteq Task /\ ~ Picking(at[c]) /\ at' = [at EXCEPT ![c] = f]
         /\ cpus' = cpus
    BY <1>1, <1>6, InvFacts, OutsideType DEF Picking, Goto
  <1> QED
    BY <1>9, <1>13, <1>14, <1>15, CalmKeeps

LEMMA WakeActivateKeeps ==
    ASSUME IInv, ~ Stopped, NEW c \in CPU, WakeActivate(c), UNCHANGED cpus
    PROVE  IInv'
  <1> DEFINE q == at[c].q
             p == at[c].p
             u == activate_task(S, q, p)
             s == check_preempt_curr(u, q, p)
             y == [task[p] EXCEPT !.cpu = q, !.on_rq = TRUE]
  <1>1. /\ at[c].pc = "wake" /\ Free(q) /\ Becomes(s, {})
        /\ Goto(c, IF task_woken_rt(s, q, p) THEN Push(q, "woken", p) ELSE Outside)
    BY DEF WakeActivate
  <1>2. /\ Books(S) /\ S \in StateType /\ S.rq = rq /\ S.task = task
        /\ FrameOK(S, at[c], c)
    BY InvFacts
  <1>3. WakeOK(S, at[c])
    BY <1>1, <1>2 DEF FrameOK
  <1>4. /\ p \in Task /\ q \in CPU /\ ~ task[p].on_rq /\ q \in task[p].mask /\ q \in cpus.online
        /\ \A d \in CPU : rq[d].curr # p
    BY <1>2, <1>3 DEF WakeOK
  <1>5. Mine(c, {q}, {p})
    <2>1. Mine(c, at[c].held, {p} \ {NONE}) /\ Mine(c, {q}, {})
      BY <1>1, <1>4, MineFacts
    <2> QED
      BY <2>1, <1>4, Names DEF Mine
  <1> HIDE DEF q, p, u, s
  <1>6. Change(c, S, {q}, {p}) /\ Calm(S, S)
    BY <1>4, <1>5, ChangeNone
  <1>7. /\ ~ S.task[p].on_rq /\ \A d \in CPU : S.rq[d].curr = p => d = q
    BY <1>2, <1>4
  <1>8. Books(u) /\ Quietly(S, u, q) /\ OnlyTask(S, u, p, y)
    BY <1>2, <1>4, <1>7, ActivateBooks DEF u
  <1>9. y.on_rq /\ y.cpu = q /\ y.mask = task[p].mask
    BY <1>2, <1>4, TaskFacts DEF TaskType
  <1> HIDE DEF y
  <1>10. Change(c, u, {q}, {p}) /\ Calm(S, u)
    <2>1. \A d \in CPU : SameRunning(S.rq[d], u.rq[d])
      BY <1>8 DEF Quietly
    <2>2. y.on_rq => y.cpu \in y.mask \cap cpus.online
      BY <1>4, <1>9
    <2> QED
      BY <1>4, <1>6, <1>7, <1>8, <2>1, <2>2, ChangeApart
  <1>11. u.task[p].on_rq /\ u.task[p].cpu = q
    BY <1>8, <1>9 DEF OnlyTask
  <1>12. Books(s) /\ Steady(u, s, q)
    BY <1>4, <1>8, <1>11, PreemptBooks DEF s
  <1>13. Change(c, s, {q}, {p}) /\ Calm(S, s)
    BY <1>4, <1>10, <1>12, ChangeSteady
  <1>14. NextFrame(c, s, Push(q, "woken", p)) /\ NextFrame(c, s, Outside)
    <2>1. Mine(c, {q}, {p} \ {NONE})
      BY <1>5 DEF Mine
    <2> QED
      BY <1>4, <2>1, PushFrame, OutFrame DEF PushCaller
  <1>15. ~ Picking(at[c])
    BY <1>1 DEF Picking
  <1>16. \E f : NextFrame(c, s, f) /\ Goto(c, f)
    BY <1>1, <1>14
  <1> QED
    BY <1>1, <1>13, <1>15, <1>16, GotoKeeps

-----------------------------------------------------------------------------
(* __schedule() *)

LEMMA SettledBooks ==
    ASSUME NEW s, Books(s), NEW c \in CPU, NEW t, t = [s EXCEPT !.rq[c].resched = FALSE]
    PROVE  Books(t) /\ Steady(s, t, c)
  <1> DEFINE r == [s.rq[c] EXCEPT !.resched = FALSE]
  <1>1. s \in StateType /\ s.rq[c] \in RqType /\ ListOf(s.rq[c].queue, Queued(s, c))
    BY BooksFacts
  <1>2. t = WithRq(s, c, r)
    BY <1>1 DEF WithRq, StateType
  <1>3. /\ r \in RqType /\ r.queue = s.rq[c].queue /\ r.pushable = s.rq[c].pushable
        /\ r.next = s.rq[c].next /\ SameCounts(s.rq[c], r)
        /\ r.curr = s.rq[c].curr /\ r.online = s.rq[c].online
    BY <1>1 DEF RqType, SameCounts
  <1> DEFINE u == WithRq(s, c, r)
  <1> HIDE DEF r, u
  <1>4. ListOf(r.queue, Queued(s, c)) /\ u = WithRq(s, c, r)
    BY <1>1, <1>3 DEF u
  <1>5. Books(u) /\ Steady(s, u, c)
    BY <1>3, <1>4, FlagBooks
  <1> QED
    BY <1>2, <1>5 DEF u

\* The CPUs other than c run tasks that are on their queues, or look for one.
AwakeBut(s, c) ==
    \A d \in CPU \ {c} : s.rq[d].curr # IDLE => s.task[s.rq[d].curr].on_rq \/ Picking(at[d])

LEMMA SwitchKeeps ==
    ASSUME IInv, ~ Stopped, NEW c \in CPU, c \in cpus.online, NEW s, NEW L, NEW P,
           Change(c, s, L, P), c \in L, AwakeBut(s, c), SwitchTo(c, s), UNCHANGED cpus
    PROVE  IInv'
  <1>1. PICK next \in picked(s, c) :
            /\ Becomes([next EXCEPT !.rq[c].resched = FALSE], {})
            /\ Goto(c, IF next.rq[c].post THEN [Outside EXCEPT !.pc = "post"] ELSE Outside)
    BY DEF SwitchTo
  <1> DEFINE t == [next EXCEPT !.rq[c].resched = FALSE]
  <1>2. Books(s) /\ s \in StateType /\ Fits(s)
    BY DEF Change, Books
  <1>3. Books(next) /\ Switched(s, next, c)
    BY <1>2, PickedBooks
  <1>4. next \in StateType /\ next.task = s.task
    BY <1>3 DEF Books, Switched
  <1>5. Change(c, next, L, P)
    <2>1. Leaves(s, next, {c}, {})
      BY <1>2, <1>3, <1>4, SwitchedLeaves
    <2>2. Fits(next)
      BY <1>2, <1>4 DEF Fits
    <2> QED
      BY <1>3, <2>1, <2>2, ChangeMore
  <1>6. Books(t) /\ Steady(next, t, c)
    BY <1>3, SettledBooks
  <1>7. Becomes(t, {})
    BY <1>1
  <1> HIDE DEF t
  <1>8. Change(c, t, L, P)
    BY <1>5, <1>6, ChangeSteady
  <1>9. PICK f : NextFrame(c, t, f) /\ Goto(c, f)
    BY <1>1, OutFrame, PostFrame
  <1>10. AwakeAt(t, [at EXCEPT ![c] = f])
    <2>1. /\ \A d \in CPU : t.rq[d].curr = next.rq[d].curr
          /\ t.task = s.task
      BY <1>4, <1>6 DEF Steady
    <2>2. \A d \in CPU \ {c} : next.rq[d].curr = s.rq[d].curr
      BY <1>3 DEF Switched
    <2>3. next.rq[c].curr = IDLE \/ s.task[next.rq[c].curr].on_rq
      BY <1>3, Zenon DEF Switched
    <2>4. \A d \in CPU \ {c} : [at EXCEPT ![c] = f][d] = at[d]
      BY InvFacts
    <2> QED
      BY <2>1, <2>2, <2>3, <2>4 DEF AwakeAt, AwakeBut
  <1>11. S' = t /\ missed' \subseteq Task
    <2>1. t \in StateType /\ missed \subseteq Task
      BY <1>6, InvFacts DEF Books
    <2> QED
      BY <1>7, <2>1, BecomesFacts
  <1>12. at' = [at EXCEPT ![c] = f] /\ cpus' = cpus /\ StepTo(c, t, f, L, P)
    BY <1>8, <1>9, <1>10 DEF Goto, StepTo
  <1> QED
    BY <1>11, <1>12, StepKeeps

LEMMA ScheduleInKeeps ==
    ASSUME IInv, ~ Stopped, NEW c \in CPU, c \in cpus.online, NEW s,
           Change(c, s, {c}, {}), AwakeBut(s, c), ScheduleIn(c, s), UNCHANGED cpus
    PROVE  IInv'
  <1>1. CASE SwitchTo(c, s)
    BY <1>1, SwitchKeeps
  <1>2. CASE Becomes(s, {}) /\ Goto(c, Pull(c, "pick", NONE))
    <2> DEFINE f == Pull(c, "pick", NONE)
    <2>1. Mine(c, {c}, {NONE} \ {NONE})
      BY DEF Change, Mine
    <2>2. NextFrame(c, s, f)
      BY <2>1, PullFrame DEF PullCaller
    <2>3. Picking(f)
      BY OutsideType DEF Pull, Picking, FrameType
    <2> HIDE DEF f
    <2>4. AwakeAt(s, [at EXCEPT ![c] = f])
      <3>1. [at EXCEPT ![c] = f][c] = f /\ \A d \in CPU \ {c} : [at EXCEPT ![c] = f][d] = at[d]
        BY InvFacts
      <3> QED
        BY <2>3, <3>1 DEF AwakeAt, AwakeBut
    <2>5. S' = s /\ missed' \subseteq Task
      <3>1. s \in StateType /\ missed \subseteq Task
        BY InvFacts DEF Change, Books
      <3> QED
        BY <1>2, <3>1, BecomesFacts
    <2>6. at' = [at EXCEPT ![c] = f] /\ cpus' = cpus /\ StepTo(c, s, f, {c}, {})
      BY <1>2, <2>2, <2>4 DEF Goto, StepTo, f
    <2> QED
      BY <2>5, <2>6, StepKeeps
  <1> QED
    BY <1>1, <1>2 DEF ScheduleIn

LEMMA PreemptKeeps ==
    ASSUME IInv, ~ Stopped, NEW c \in CPU, Preempt(c), UNCHANGED cpus
    PROVE  IInv'
  <1>1. Free(c) /\ rq[c].resched /\ ScheduleIn(c, S)
    BY DEF Preempt
  <1>2. c \in cpus.online
    BY <1>1, InvFacts
  <1>3. Change(c, S, {c}, {})
    BY <1>1, <1>2, MineFacts, ChangeNone
  <1>4. AwakeBut(S, c)
    BY InvFacts DEF AwakeAt, AwakeBut
  <1> QED
    BY <1>1, <1>2, <1>3, <1>4, ScheduleInKeeps

LEMMA SleepKeeps ==
    ASSUME IInv, ~ Stopped, NEW c \in CPU, Sleep(c), UNCHANGED cpus
    PROVE  IInv'
  <1> DEFINE p == rq[c].curr
             s == deactivate_task(S, c, p)
             y == [S.task[p] EXCEPT !.on_rq = FALSE]
  <1>1. at[c] = Outside /\ Free(c) /\ p # IDLE /\ ScheduleIn(c, s)
    BY DEF Sleep
  <1>2. /\ Books(S) /\ S \in StateType /\ S.rq = rq /\ AwakeAt(S, at)
        /\ c \in cpus.online /\ {c} \in SUBSET CPU
    BY <1>1, InvFacts
  <1>3. p \in Task /\ S.task[p].cpu = c /\ \A d \in CPU \ {c} : S.rq[d].curr # p
    <2>1. \A d \in CPU : S.rq[d].curr # IDLE =>
            S.rq[d].curr \in Task /\ S.task[S.rq[d].curr].cpu = d
      BY <1>2, BooksFacts
    <2> QED
      BY <1>1, <1>2, <2>1
  <1>4. S.task[p].on_rq
    BY <1>1, <1>2, OutsideType DEF AwakeAt, Picking
  <1>5. Change(c, S, {c}, {})
    BY <1>1, <1>2, MineFacts, ChangeNone
  <1> HIDE DEF s, p
  <1>6. Books(s) /\ Quietly(S, s, c) /\ OnlyTask(S, s, p, y)
    BY <1>2, <1>3, <1>4, DeactivateBooks DEF s
  <1>7. ~ y.on_rq
    BY <1>2, <1>3, TaskFacts DEF TaskType
  <1> HIDE DEF y
  <1>8. \A d \in CPU : SameRunning(S.rq[d], s.rq[d])
    BY <1>6 DEF Quietly
  <1>9. Change(c, s, {c}, {})
    BY <1>2, <1>3, <1>4, <1>5, <1>6, <1>7, <1>8, ChangeQueued
  <1>10. AwakeBut(s, c)
    <2>1. ASSUME NEW d \in CPU \ {c}, s.rq[d].curr # IDLE
          PROVE  s.task[s.rq[d].curr].on_rq \/ Picking(at[d])
      <3>1. s.rq[d].curr = S.rq[d].curr
        BY <1>8 DEF SameRunning
      <3>2. S.rq[d].curr \in Task \ {p}
        BY <1>2, <1>3, <2>1, <3>1, BooksFacts
      <3>3. s.task[s.rq[d].curr] = S.task[S.rq[d].curr]
        BY <1>6, <3>1, <3>2 DEF OnlyTask
      <3> QED
        BY <1>2, <2>1, <3>1, <3>3, Zenon DEF AwakeAt
    <2> QED
      BY <2>1, Zenon DEF AwakeBut
  <1> QED
    BY <1>1, <1>2, <1>9, <1>10, ScheduleInKeeps

LEMMA PostScheduleKeeps ==
    ASSUME IInv, ~ Stopped, NEW c \in CPU, PostSchedule(c), UNCHANGED cpus
    PROVE  IInv'
  <1>1. at[c].pc = "post" /\ Free(c)
    BY DEF PostSchedule
  <1>2. Books(S) /\ FrameOK(S, at[c], c)
    BY InvFacts
  <1>3. c \in cpus.online /\ ~ Picking(at[c])
    BY <1>1, <1>2 DEF FrameOK, Picking
  <1>4. Mine(c, {c}, {}) /\ Mine(c, {c}, {NONE} \ {NONE})
    BY <1>1, MineFacts DEF Mine
  <1>5. CASE Goto(c, Push(c, "post", NONE)) /\ UNCHANGED <<rq, rd, task, missed>>
    <2>1. NextFrame(c, S, Push(c, "post", NONE))
      BY <1>3, <1>4, PushFrame DEF PushCaller
    <2> QED
      BY <1>3, <1>5, <2>1, SkipKeeps
  <1>6. CASE Goto(c, Outside) /\ Becomes([S EXCEPT !.rq[c].post = FALSE], {})
    <2> DEFINE t == [S EXCEPT !.rq[c].post = FALSE]
    <2>1. Change(c, S, {c}, {}) /\ Calm(S, S)
      BY <1>3, <1>4, ChangeNone
    <2>2. Books(t) /\ Steady(S, t, c)
      BY <1>2, PostBooks
    <2>3. Goto(c, Outside) /\ Becomes(t, {})
      BY <1>6
    <2> HIDE DEF t
    <2>4. Change(c, t, {c}, {}) /\ Calm(S, t)
      BY <2>1, <2>2, ChangeSteady
    <2> QED
      BY <1>3, <2>3, <2>4, OutFrame, GotoKeeps
  <1> QED
    BY <1>5, <1>6 DEF PostSchedule

-----------------------------------------------------------------------------
(* push_rt_task() *)

LEMMA FirstPushable ==
    ASSUME NEW s, Books(s), NEW q \in CPU, s.rq[q].pushable # <<>>
    PROVE  s.rq[q].pushable[1] \in Task /\ Pushee(s, s.rq[q].pushable[1], q)
  <1> DEFINE l == s.rq[q].pushable
  <1>1. Pushable(s, s.rq[q], Movable(s, Queued(s, q)) \ {s.rq[q].curr})
    BY BooksFacts
  <1>2. l \in Seq(Task) /\ Elems(l) = Movable(s, Queued(s, q)) \ {s.rq[q].curr}
    BY <1>1 DEF Pushable, ListOf
  <1>3. 1 \in 1 .. Len(l)
    BY <1>2
  <1>4. l[1] \in Elems(l)
    BY <1>3 DEF Elems
  <1> HIDE DEF l
  <1>5. l[1] \in Queued(s, q) /\ l[1] # s.rq[q].curr
    BY <1>2, <1>4 DEF Movable
  <1>6. Pushee(s, l[1], q)
    BY <1>5 DEF Queued, Pushee
  <1> QED
    BY <1>6 DEF Pushee, l

\* A CPU in the middle of a push.
Pushing(c) ==
    /\ at[c].pc \in {"push", "find", "locked"} /\ at[c].caller \in PushCaller
    /\ at[c].q \in CPU /\ at[c].q \in cpus.online /\ at[c].q \in at[c].held
    /\ at[c].caller \in {"woken", "to"} => at[c].p \in Task

LEMMA PushingFacts ==
    ASSUME IInv, NEW c \in CPU, Pushing(c)
    PROVE  /\ at[c] \in FrameType /\ at[c].p \in Task \cup {NONE} /\ ~ Picking(at[c])
           /\ Mine(c, at[c].held, {at[c].p} \ {NONE}) /\ Mine(c, {at[c].q}, {at[c].p} \ {NONE})
  <1>1. at[c] \in FrameType /\ at[c].p \in Task \cup {NONE}
    BY InvFacts DEF FrameType
  <1>2. ~ Picking(at[c])
    BY DEF Pushing, PushCaller, Picking
  <1>3. Mine(c, at[c].held, {at[c].p} \ {NONE})
    BY MineFacts
  <1>4. Mine(c, {at[c].q}, {at[c].p} \ {NONE})
    BY <1>3, MineLess DEF Pushing
  <1> QED
    BY <1>1, <1>2, <1>3, <1>4

LEMMA PushReturnKeeps ==
    ASSUME IInv, ~ Stopped, NEW c \in CPU, Pushing(c), NEW s, NEW L, at[c].q \in L,
           Change(c, s, L, {}), Calm(S, s), NEW ret \in BOOLEAN, PushReturn(c, s, ret),
           UNCHANGED cpus
    PROVE  IInv'
  <1> DEFINE q == at[c].q
             p == at[c].p
             u == [s EXCEPT !.rq[q].post = FALSE]
  <1>1. \/ \E t \in {s, resched_curr(s, q)} : Goto(c, Outside) /\ Becomes(t, {})
        \/ at[c].caller # "to" /\ Goto(c, Push(q, at[c].caller, p)) /\ Becomes(s, {})
        \/ Goto(c, Outside) /\ Becomes(u, {})
    BY Zenon DEF PushReturn, Pushing, PushCaller
  <1>2. /\ q \in CPU /\ q \in cpus.online /\ at[c].caller \in PushCaller /\ p \in Task \cup {NONE}
        /\ at[c].caller \in {"woken", "to"} => p \in Task
        /\ ~ Picking(at[c]) /\ Mine(c, {q}, {p} \ {NONE})
    BY PushingFacts DEF Pushing
  <1>3. Books(s)
    BY DEF Change
  <1> HIDE DEF q, p
  <1>4. q \in L
    BY DEF q
  <1>5. ASSUME NEW t \in {s, resched_curr(s, q)}, Goto(c, Outside), Becomes(t, {})
        PROVE  IInv'
    <2>1. Change(c, t, L, {}) /\ Calm(S, t)
      BY <1>2, <1>4, <1>5, ChangeTold
    <2> QED
      BY <1>2, <1>5, <2>1, OutFrame, GotoKeeps
  <1>6. CASE Goto(c, Push(q, at[c].caller, p)) /\ Becomes(s, {})
    <2>1. NextFrame(c, s, Push(q, at[c].caller, p))
      BY <1>2, PushFrame
    <2> QED
      BY <1>2, <1>6, <2>1, GotoKeeps
  <1>7. CASE Goto(c, Outside) /\ Becomes(u, {})
    <2>1. Books(u) /\ Steady(s, u, q)
      BY <1>2, <1>3, PostBooks
    <2> HIDE DEF u
    <2>2. Change(c, u, L, {}) /\ Calm(S, u)
      BY <1>2, <1>4, <2>1, ChangeSteady
    <2> QED
      BY <1>2, <1>7, <2>2, OutFrame, GotoKeeps
  <1> QED
    BY <1>1, <1>5, <1>6, <1>7

LEMMA PushSkips ==
    ASSUME IInv, NEW c \in CPU, Pushing(c)
    PROVE  Change(c, S, {at[c].q}, {}) /\ Calm(S, S)
  <1>1. Mine(c, {at[c].q}, {})
    BY PushingFacts DEF Mine
  <1> QED
    BY <1>1, ChangeNone DEF Pushing

\* Another round, with the task next, or the search for a CPU for it.
LEMMA RoundFrame ==
    ASSUME IInv, NEW c \in CPU, Pushing(c), NEW f \in FrameType, f.pc \in {"push", "find"},
           f.caller = at[c].caller, f.q = at[c].q, f.p = at[c].p, f.held = {at[c].q},
           Pushee(S, f.next, at[c].q)
    PROVE  NextFrame(c, S, f)
  <1>1. at[c].q \in CPU /\ at[c].q \in cpus.online
    BY DEF Pushing
  <1>2. BalanceOK(S, f, c)
    BY <1>1 DEF BalanceOK
  <1>3. PushOK(S, f, c)
    BY DEF PushOK, Pushing
  <1>4. FrameOK(S, f, c)
    BY <1>2, <1>3 DEF FrameOK, Pushing
  <1>5. Mine(c, f.held, {f.p} \ {NONE})
    BY PushingFacts
  <1> QED
    BY <1>4, <1>5 DEF NextFrame

LEMMA NotFoundKeeps ==
    ASSUME IInv, ~ Stopped, NEW c \in CPU, Pushing(c), NotFound(c), UNCHANGED cpus
    PROVE  IInv'
  <1> DEFINE q == at[c].q
             first == rq[q].pushable[1]
             f == [at[c] EXCEPT !.pc = "push", !.next = first, !.held = {q}]
  <1>1. \/ PushReturn(c, S, FALSE)
        \/ /\ rq[q].pushable # <<>> /\ Goto(c, f)
           /\ UNCHANGED <<rq, rd, task, missed>>
    BY Zenon DEF NotFound
  <1>2. CASE PushReturn(c, S, FALSE)
    BY <1>2, PushSkips, PushReturnKeeps
  <1>3. CASE rq[q].pushable # <<>> /\ Goto(c, f) /\ UNCHANGED <<rq, rd, task, missed>>
    <2>1. q \in CPU /\ Books(S) /\ S.rq = rq /\ at[c] \in FrameType /\ ~ Picking(at[c])
      BY InvFacts, PushingFacts DEF Pushing
    <2>2. first \in Task /\ Pushee(S, first, q)
      BY <1>3, <2>1, FirstPushable
    <2> HIDE DEF first
    <2>3. /\ f \in FrameType /\ f.pc = "push" /\ f.caller = at[c].caller /\ f.q = q
          /\ f.p = at[c].p /\ f.held = {q} /\ f.next = first
      BY <2>1, <2>2 DEF FrameType
    <2> HIDE DEF f
    <2>4. NextFrame(c, S, f)
      BY <2>2, <2>3, RoundFrame
    <2> QED
      BY <1>3, <2>1, <2>4, SkipKeeps
  <1> QED
    BY <1>1, <1>2, <1>3

LEMMA PushTaskKeeps ==
    ASSUME IInv, ~ Stopped, NEW c \in CPU, PushTask(c), UNCHANGED cpus
    PROVE  IInv'
  <1> DEFINE q == at[c].q
             again == at[c].next # NONE
             next == IF again THEN at[c].next ELSE rq[q].pushable[1]
             f == [at[c] EXCEPT !.pc = "find", !.next = next, !.tries = 0]
  <1>1. /\ at[c].pc = "push"
        /\ \/ PushReturn(c, S, FALSE)
           \/ /\ again \/ rq[q].pushable # <<>>
              /\ \/ PushReturn(c, resched_curr(S, q), FALSE)
                 \/ Goto(c, f) /\ UNCHANGED <<rq, rd, task, missed>>
    BY DEF PushTask
  <1>2. /\ Books(S) /\ S.rq = rq /\ FrameOK(S, at[c], c) /\ at[c] \in FrameType
    BY InvFacts
  <1>3. at[c].caller \in PushCaller /\ BalanceOK(S, at[c], c) /\ PushOK(S, at[c], c)
    BY <1>1, <1>2 DEF FrameOK
  <1>4. Pushing(c) /\ q \in CPU /\ at[c].held = {q}
    BY <1>1, <1>3 DEF BalanceOK, PushOK, Pushing
  <1>5. Change(c, S, {q}, {}) /\ Calm(S, S)
    BY <1>4, PushSkips
  <1>6. CASE PushReturn(c, S, FALSE)
    BY <1>4, <1>5, <1>6, PushReturnKeeps
  <1>7. CASE PushReturn(c, resched_curr(S, q), FALSE)
    <2>1. Change(c, resched_curr(S, q), {q}, {}) /\ Calm(S, resched_curr(S, q))
      BY <1>4, <1>5, ChangeTold
    <2> QED
      BY <1>4, <1>7, <2>1, PushReturnKeeps
  <1>8. CASE /\ again \/ rq[q].pushable # <<>>
             /\ Goto(c, f) /\ UNCHANGED <<rq, rd, task, missed>>
    <2>1. Pushee(S, next, q)
      <3>1. CASE again
        BY <1>1, <1>3, <3>1 DEF PushOK
      <3>2. CASE ~ again
        BY <1>2, <1>4, <1>8, <3>2, FirstPushable
      <3> QED
        BY <3>1, <3>2
    <2>2. next \in Task /\ ~ Picking(at[c])
      BY <2>1, <1>4, PushingFacts DEF Pushee
    <2> HIDE DEF next
    <2>3. /\ f \in FrameType /\ f.pc = "find" /\ f.caller = at[c].caller /\ f.q = q
          /\ f.p = at[c].p /\ f.held = {q} /\ f.next = next
      <3>1. 0 \in 0 .. RT_MAX_TRIES
        BY Names
      <3> QED
        BY <1>2, <1>4, <2>2, <3>1 DEF FrameType
    <2> HIDE DEF f
    <2>4. NextFrame(c, S, f)
      BY <1>4, <2>1, <2>3, RoundFrame
    <2> QED
      BY <1>8, <2>2, <2>4, SkipKeeps
  <1> QED
    BY <1>1, <1>6, <1>7, <1>8

-----------------------------------------------------------------------------
(* The second lock *)

\* What is known of the search of CPU c for a task or a CPU, whatever it has locked.
Searching(c) ==
    /\ at[c].q \in CPU /\ at[c].q \in cpus.online
    /\ \/ /\ at[c].caller \in PushCaller /\ at[c].next \in Task /\ at[c].tries < RT_MAX_TRIES
          /\ at[c].caller \in {"woken", "to"} => at[c].p \in Task
       \/ at[c].caller \in PullCaller /\ PullOK(S, at[c], c)

\* If the lock of its queue was not dropped: a task to be pushed may still go to d.
Steadfast(c, d) ==
    at[c].caller \in PushCaller => Pushee(S, at[c].next, at[c].q) /\ d \in task[at[c].next].mask

LEMMA LockFrame ==
    ASSUME IInv, NEW c \in CPU, Searching(c), NEW d \in CPU, d \in cpus.online, d # at[c].q,
           NEW f \in FrameType, f.pc \in {"lock", "locked"}, f.peer = d,
           f.caller = at[c].caller, f.q = at[c].q, f.p = at[c].p, f.next = at[c].next,
           f.tries = at[c].tries, ~ f.dropped => Steadfast(c, d),
           f.held = IF f.pc = "locked" THEN {at[c].q, d}
                    ELSE IF f.dropped THEN {} ELSE {at[c].q},
           Mine(c, f.held, {})
    PROVE  NextFrame(c, S, f) /\ (Picking(at[c]) => Picking(f))
  <1>1. BalanceOK(S, f, c)
    BY DEF BalanceOK, Searching
  <1>2. ASSUME at[c].caller \in PushCaller
        PROVE  PushOK(S, f, c)
    <2>1. ~ f.dropped => Pushee(S, f.next, f.q) /\ f.peer \in S.task[f.next].mask
      BY <1>2, InvFacts DEF Steadfast
    <2>2. /\ at[c].next \in Task /\ at[c].tries < RT_MAX_TRIES
          /\ at[c].caller \in {"woken", "to"} => at[c].p \in Task
      BY <1>2 DEF Searching, PushCaller, PullCaller
    <2> QED
      BY <2>1, <2>2 DEF PushOK
  <1>3. ASSUME at[c].caller \in PullCaller
        PROVE  PullOK(S, f, c)
    BY <1>3 DEF Searching, PullOK, PushCaller, PullCaller
  <1>4. FrameOK(S, f, c)
    BY <1>1, <1>2, <1>3 DEF FrameOK, Searching
  <1>5. Mine(c, f.held, {f.p} \ {NONE})
    <2>1. Mine(c, at[c].held, {f.p} \ {NONE})
      BY MineFacts
    <2> QED
      BY <2>1 DEF Mine
  <1>6. Picking(at[c]) => Picking(f)
    BY DEF Picking
  <1> QED
    BY <1>4, <1>5, <1>6 DEF NextFrame

LEMMA DoubleLockKeeps ==
    ASSUME IInv, ~ Stopped, NEW c \in CPU, Searching(c), NEW d \in CPU, d \in cpus.online,
           d # at[c].q, at[c].held = {at[c].q}, Steadfast(c, d), DoubleLock(c, d), UNCHANGED cpus
    PROVE  IInv'
  <1> DEFINE q == at[c].q
             wait == [at[c] EXCEPT !.peer = d, !.pc = "lock"]
             f == [wait EXCEPT !.pc = "locked", !.held = {q, d}, !.dropped = FALSE]
             g == [wait EXCEPT !.dropped = FALSE]
             h == [wait EXCEPT !.held = {}, !.dropped = TRUE]
  <1>1. /\ (Free(d) /\ Goto(c, f)) \/ Goto(c, g) \/ Goto(c, h)
        /\ UNCHANGED <<rq, rd, task, missed>>
    BY DEF DoubleLock
  <1>2. at[c] \in FrameType /\ q \in CPU
    BY InvFacts DEF Searching
  <1>3. Mine(c, {q}, {}) /\ Mine(c, {}, {}) /\ (Free(d) => Mine(c, {q, d}, {}))
    <2>1. Mine(c, at[c].held, {at[c].p} \ {NONE}) /\ (Free(d) => Mine(c, {d}, {}))
      BY MineFacts
    <2> QED
      BY <2>1 DEF Mine
  <1>4. /\ f \in FrameType /\ f.pc = "locked" /\ f.peer = d /\ f.caller = at[c].caller
        /\ f.q = q /\ f.p = at[c].p /\ f.next = at[c].next /\ f.tries = at[c].tries
        /\ f.held = {q, d}
    BY <1>2 DEF FrameType
  <1>5. /\ g \in FrameType /\ g.pc = "lock" /\ g.peer = d /\ g.caller = at[c].caller
        /\ g.q = q /\ g.p = at[c].p /\ g.next = at[c].next /\ g.tries = at[c].tries
        /\ g.held = {q} /\ ~ g.dropped
    BY <1>2 DEF FrameType
  <1>6. /\ h \in FrameType /\ h.pc = "lock" /\ h.peer = d /\ h.caller = at[c].caller
        /\ h.q = q /\ h.p = at[c].p /\ h.next = at[c].next /\ h.tries = at[c].tries
        /\ h.held = {} /\ h.dropped
    BY <1>2 DEF FrameType
  <1> HIDE DEF f, g, h
  <1>7. CASE Free(d) /\ Goto(c, f)
    <2>1. NextFrame(c, S, f) /\ (Picking(at[c]) => Picking(f))
      BY <1>3, <1>4, <1>7, LockFrame
    <2> QED
      BY <1>1, <1>7, <2>1, SkipKeeps
  <1>8. CASE Goto(c, g)
    <2>1. NextFrame(c, S, g) /\ (Picking(at[c]) => Picking(g))
      BY <1>3, <1>5, LockFrame
    <2> QED
      BY <1>1, <1>8, <2>1, SkipKeeps
  <1>9. CASE Goto(c, h)
    <2>1. NextFrame(c, S, h) /\ (Picking(at[c]) => Picking(h))
      BY <1>3, <1>6, LockFrame
    <2> QED
      BY <1>1, <1>9, <2>1, SkipKeeps
  <1> QED
    BY <1>1, <1>7, <1>8, <1>9

\* What a frame in front of the second lock, or behind it, says.
LEMMA LockFacts ==
    ASSUME IInv, NEW c \in CPU, at[c].pc \in {"lock", "locked"}
    PROVE  /\ Searching(c) /\ at[c] \in FrameType
           /\ at[c].peer \in CPU /\ at[c].peer \in cpus.online /\ at[c].peer # at[c].q
           /\ ~ at[c].dropped => Steadfast(c, at[c].peer)
           /\ at[c].pc = "locked" => at[c].held = {at[c].q, at[c].peer}
  <1>1. FrameOK(S, at[c], c) /\ at[c] \in FrameType /\ S.task = task
    BY InvFacts
  <1>2. /\ BalanceOK(S, at[c], c)
        /\ \/ at[c].caller \in PushCaller /\ PushOK(S, at[c], c)
           \/ at[c].caller \in PullCaller /\ PullOK(S, at[c], c)
    BY <1>1 DEF FrameOK
  <1>3. /\ at[c].q \in CPU /\ at[c].q \in cpus.online
        /\ at[c].peer \in CPU /\ at[c].peer \in cpus.online /\ at[c].peer # at[c].q
        /\ at[c].pc = "locked" => at[c].held = {at[c].q, at[c].peer}
    BY <1>2 DEF BalanceOK
  <1>4. CASE at[c].caller \in PushCaller /\ PushOK(S, at[c], c)
    BY <1>1, <1>3, <1>4 DEF PushOK, Searching, Steadfast
  <1>5. CASE at[c].caller \in PullCaller /\ PullOK(S, at[c], c)
    BY <1>1, <1>3, <1>5 DEF PullCaller, PushCaller, Searching, Steadfast
  <1> QED
    BY <1>2, <1>4, <1>5, <1>1, <1>3

LEMMA LockedKeeps ==
    ASSUME IInv, ~ Stopped, NEW c \in CPU, Locked(c), UNCHANGED cpus
    PROVE  IInv'
  <1> DEFINE q == at[c].q
             d == at[c].peer
             f == [at[c] EXCEPT !.pc = "locked", !.held = {q, d}]
  <1>1. /\ at[c].pc = "lock" /\ \A e \in {q, d} \ at[c].held : Free(e)
        /\ Goto(c, f) /\ UNCHANGED <<rq, rd, task, missed>>
    BY DEF Locked
  <1>2. /\ Searching(c) /\ at[c] \in FrameType /\ d \in CPU /\ d \in cpus.online /\ d # q
        /\ ~ at[c].dropped => Steadfast(c, d)
    BY <1>1, LockFacts
  <1>3. q \in CPU
    BY <1>2 DEF Searching
  <1>4. Mine(c, {q, d}, {})
    <2>1. Mine(c, at[c].held, {at[c].p} \ {NONE}) /\ \A e \in CPU : Free(e) => Mine(c, {e}, {})
      BY MineFacts
    <2>2. \A e \in {q, d} : Mine(c, {e}, {})
      BY <1>1, <1>2, <1>3, <2>1 DEF Mine
    <2> QED
      BY <2>2 DEF Mine
  <1>5. /\ f \in FrameType /\ f.pc = "locked" /\ f.peer = d /\ f.caller = at[c].caller
        /\ f.q = q /\ f.p = at[c].p /\ f.next = at[c].next /\ f.tries = at[c].tries
        /\ f.held = {q, d} /\ f.dropped = at[c].dropped
    BY <1>2, <1>3 DEF FrameType
  <1> HIDE DEF f
  <1>6. NextFrame(c, S, f) /\ (Picking(at[c]) => Picking(f))
    BY <1>2, <1>4, <1>5, LockFrame
  <1> QED
    BY <1>1, <1>6, SkipKeeps

-----------------------------------------------------------------------------
(* find_lock_lowest_rq() *)

LEMMA LowestFacts ==
    ASSUME IInv, NEW p \in Task, NEW d \in find_lowest_rq(S, p)
    PROVE  /\ d \in CPU /\ d \in task[p].mask /\ d \in cpus.online
           /\ task[p].cpu \in find_lowest_rq(S, p) => d = task[p].cpu
  <1>1. Books(S) /\ S \in StateType /\ S.rq = rq /\ S.task = task /\ S.rd = rd
    BY InvFacts
  <1>2. d \in cpupri_find(S, p)
    BY DEF find_lowest_rq
  <1>3. d \in task[p].mask /\ rd.cpupri[d] > task[p].prio
    BY <1>1, <1>2 DEF cpupri_find
  <1>4. task[p].mask \subseteq CPU /\ task[p].prio \in Nat
    BY <1>1, TaskFacts
  <1>5. d \in CPU
    BY <1>3, <1>4
  <1>6. rd.cpupri[d] = IF rq[d].online THEN rq[d].highest ELSE INVALID
    BY <1>1, <1>5, BooksFacts DEF CountsExact
  <1>7. rq[d].online
    BY <1>3, <1>4, <1>6 DEF INVALID
  <1>8. d \in cpus.online
    BY <1>5, <1>7, InvFacts
  <1>9. task[p].cpu \in find_lowest_rq(S, p) => d = task[p].cpu
    <2>1. CASE ~ migratory(S, p)
      BY <2>1 DEF find_lowest_rq
    <2>2. CASE migratory(S, p) /\ S.task[p].cpu \in cpupri_find(S, p)
      BY <2>2, <1>1 DEF find_lowest_rq
    <2>3. CASE migratory(S, p) /\ S.task[p].cpu \notin cpupri_find(S, p)
      BY <2>3, <1>1 DEF find_lowest_rq
    <2> QED
      BY <2>1, <2>2, <2>3
  <1> QED
    BY <1>3, <1>5, <1>8, <1>9

LEMMA FindLowestKeeps ==
    ASSUME IInv, ~ Stopped, NEW c \in CPU, FindLowest(c), UNCHANGED cpus
    PROVE  IInv'
  <1> DEFINE q == at[c].q
             p == at[c].next
             lowest == find_lowest_rq(S, p)
  <1>1. /\ at[c].pc = "find"
        /\ \/ NotFound(c)
           \/ /\ at[c].tries # RT_MAX_TRIES /\ ~ (lowest \subseteq {q})
              /\ \E d \in lowest : DoubleLock(c, d)
    BY DEF FindLowest
  <1>2. FrameOK(S, at[c], c) /\ at[c] \in FrameType /\ S.task = task
    BY InvFacts
  <1>3. at[c].caller \in PushCaller /\ BalanceOK(S, at[c], c) /\ PushOK(S, at[c], c)
    BY <1>1, <1>2 DEF FrameOK
  <1>4. Pushing(c) /\ q \in CPU /\ q \in cpus.online /\ at[c].held = {q} /\ Pushee(S, p, q)
    BY <1>1, <1>3 DEF BalanceOK, PushOK, Pushing
  <1>5. CASE NotFound(c)
    BY <1>4, <1>5, NotFoundKeeps
  <1>6. ASSUME at[c].tries # RT_MAX_TRIES, ~ (lowest \subseteq {q}),
               NEW d \in lowest, DoubleLock(c, d)
        PROVE  IInv'
    <2>1. p \in Task /\ task[p].cpu = q
      BY <1>2, <1>4 DEF Pushee
    <2>2. /\ d \in CPU /\ d \in task[p].mask /\ d \in cpus.online
          /\ \A e \in lowest : q \in lowest => e = q
      BY <2>1, LowestFacts
    <2>3. d # q
      BY <1>6, <2>2
    <2>4. at[c].tries < RT_MAX_TRIES
      <3>1. at[c].tries \in 0 .. RT_MAX_TRIES
        BY <1>2 DEF FrameType
      <3> QED
        BY <1>6, <3>1, Names
    <2>5. Searching(c) /\ Steadfast(c, d)
      BY <1>3, <1>4, <2>1, <2>2, <2>4 DEF Searching, Steadfast, Pushing
    <2> QED
      BY <1>4, <1>6, <2>2, <2>3, <2>5, DoubleLockKeeps
  <1> QED
    BY <1>1, <1>5, <1>6

\* A waiting task of queue q goes to d, where it may run.
LEMMA ChangeMove ==
    ASSUME IInv, NEW c \in CPU, NEW q \in CPU, NEW d \in CPU, q \in cpus.online,
           d \in cpus.online, NEW p \in Task, Pushee(S, p, q), d \in task[p].mask,
           Mine(c, {q, d}, {}), NEW t, t = move_task(S, p, q, d)
    PROVE  Change(c, t, {q, d}, {}) /\ Calm(S, t)
  <1> DEFINE y == [S.task[p] EXCEPT !.cpu = d]
  <1>1. Books(S) /\ S \in StateType /\ S.task = task
    BY InvFacts
  <1>2. S.task[p].on_rq /\ S.task[p].cpu = q /\ S.rq[q].curr # p
    BY DEF Pushee
  <1>3. Books(t) /\ (\A e \in CPU : SameRunning(S.rq[e], t.rq[e])) /\ OnlyTask(S, t, p, y)
    BY <1>1, <1>2, MoveBooks
  <1>4. y.on_rq /\ y.cpu = d /\ y.mask = task[p].mask
    BY <1>1, <1>2, TaskFacts DEF TaskType
  <1> HIDE DEF y
  <1>5. Change(c, S, {q, d}, {}) /\ Calm(S, S)
    BY ChangeNone
  <1>6. {q, d} \in SUBSET CPU /\ S.task[p].cpu \in {q, d} /\ y.cpu \in y.mask \cap cpus.online
    BY <1>2, <1>4
  <1> QED
    BY <1>2, <1>3, <1>4, <1>5, <1>6, ChangeQueued

LEMMA PushLockedKeeps ==
    ASSUME IInv, ~ Stopped, NEW c \in CPU, PushLocked(c), UNCHANGED cpus
    PROVE  IInv'
  <1> DEFINE q == at[c].q
             d == at[c].peer
             p == at[c].next
             u == move_task(S, p, q, d)
             s == resched_curr(u, d)
             f == [at[c] EXCEPT !.pc = "find", !.tries = @ + 1, !.held = {q},
                                !.peer = NONE, !.dropped = FALSE]
  <1>1. /\ at[c].pc = "locked" /\ at[c].caller \in PushCaller
        /\ \/ NotFound(c)
           \/ /\ at[c].dropped => still_pushable(S, q, d, p)
              /\ \/ PushReturn(c, s, TRUE)
                 \/ Goto(c, f) /\ UNCHANGED <<rq, rd, task, missed>>
    BY DEF PushLocked, PushCaller
  <1>2. /\ Searching(c) /\ at[c] \in FrameType
        /\ d \in CPU /\ d \in cpus.online /\ d # q /\ at[c].held = {q, d}
        /\ ~ at[c].dropped => Steadfast(c, d)
    BY <1>1, LockFacts
  <1>3. /\ q \in CPU /\ q \in cpus.online /\ p \in Task /\ at[c].tries < RT_MAX_TRIES
        /\ at[c].caller \in {"woken", "to"} => at[c].p \in Task
    BY <1>1, <1>2 DEF Searching, PushCaller, PullCaller
  <1>4. Pushing(c)
    BY <1>1, <1>2, <1>3 DEF Pushing
  <1>5. CASE NotFound(c)
    BY <1>4, <1>5, NotFoundKeeps
  <1>6. ASSUME at[c].dropped => still_pushable(S, q, d, p)
        PROVE  Pushee(S, p, q) /\ d \in task[p].mask
    <2>1. CASE at[c].dropped
      BY <1>3, <1>6, <2>1, InvFacts DEF still_pushable, Pushee
    <2>2. CASE ~ at[c].dropped
      BY <1>1, <1>2, <2>2 DEF Steadfast
    <2> QED
      BY <2>1, <2>2
  <1>7. ASSUME at[c].dropped => still_pushable(S, q, d, p), PushReturn(c, s, TRUE)
        PROVE  IInv'
    <2>1. Mine(c, {q, d}, {})
      BY <1>2, <1>4, PushingFacts DEF Mine
    <2>2. Pushee(S, p, q) /\ d \in task[p].mask
      BY <1>6, <1>7
    <2> HIDE DEF u
    <2>3. Change(c, u, {q, d}, {}) /\ Calm(S, u)
      BY <1>2, <1>3, <2>1, <2>2, ChangeMove DEF u
    <2>4. Change(c, s, {q, d}, {}) /\ Calm(S, s)
      BY <1>2, <2>3, ChangeTold
    <2>5. at[c].q \in {q, d} /\ TRUE \in BOOLEAN
      OBVIOUS
    <2> HIDE DEF s, q, d
    <2> QED
      BY <1>4, <1>7, <2>4, <2>5, PushReturnKeeps
  <1>8. ASSUME at[c].dropped => still_pushable(S, q, d, p), Goto(c, f),
               UNCHANGED <<rq, rd, task, missed>>
        PROVE  IInv'
    <2>1. at[c].tries + 1 \in 0 .. RT_MAX_TRIES
      <3>1. at[c].tries \in 0 .. RT_MAX_TRIES
        BY <1>2 DEF FrameType
      <3> QED
        BY <1>3, <3>1, Names
    <2>2. /\ f \in FrameType /\ f.pc = "find" /\ f.caller = at[c].caller /\ f.q = q
          /\ f.p = at[c].p /\ f.held = {q} /\ f.next = p
      BY <1>2, <1>3, <2>1 DEF FrameType
    <2>3. Pushee(S, p, q) /\ ~ Picking(at[c])
      BY <1>4, <1>6, <1>8, PushingFacts
    <2> HIDE DEF f
    <2>4. NextFrame(c, S, f)
      BY <1>4, <2>2, <2>3, RoundFrame
    <2> QED
      BY <1>8, <2>3, <2>4, SkipKeeps
  <1> QED
    BY <1>1, <1>5, <1>7, <1>8

-----------------------------------------------------------------------------
(* pull_rt_task() *)

\* A CPU in the middle of a pull.
Pulling(c) ==
    /\ at[c].caller \in PullCaller /\ PullOK(S, at[c], c)
    /\ at[c].q \in CPU /\ at[c].q \in cpus.online /\ at[c].held = {at[c].q}

LEMMA PullFacts ==
    ASSUME IInv, NEW c \in CPU, at[c].pc = "pull"
    PROVE  /\ Pulling(c) /\ at[c] \in FrameType /\ Searching(c) /\ \A d : Steadfast(c, d)
           /\ at[c].p \in Task \cup {NONE}
           /\ Mine(c, {at[c].q}, {at[c].p} \ {NONE})
           /\ Change(c, S, {at[c].q}, {}) /\ Calm(S, S)
  <1>1. FrameOK(S, at[c], c) /\ at[c] \in FrameType
    BY InvFacts
  <1>2. at[c].caller \in PullCaller /\ BalanceOK(S, at[c], c) /\ PullOK(S, at[c], c)
    BY <1>1 DEF FrameOK
  <1>3. Pulling(c)
    BY <1>2 DEF BalanceOK, Pulling
  <1>4. Searching(c) /\ \A d : Steadfast(c, d)
    BY <1>2, <1>3 DEF Searching, Steadfast, Pulling, PushCaller, PullCaller
  <1>5. Mine(c, {at[c].q}, {at[c].p} \ {NONE}) /\ at[c].p \in Task \cup {NONE}
    BY <1>1, <1>3, MineFacts DEF Pulling, FrameType
  <1>6. Mine(c, {at[c].q}, {}) /\ {at[c].q} \subseteq cpus.online
    BY <1>3, <1>5 DEF Mine, Pulling
  <1>7. Change(c, S, {at[c].q}, {}) /\ Calm(S, S)
    BY <1>6, ChangeNone
  <1> QED
    BY <1>1, <1>3, <1>4, <1>5, <1>7

LEMMA PullReturnKeeps ==
    ASSUME IInv, ~ Stopped, NEW c \in CPU, at[c].pc = "pull", PullReturn(c), UNCHANGED cpus
    PROVE  IInv'
  <1> DEFINE q == at[c].q
             b == IF rq[q].curr # at[c].p THEN Elems(rq[q].queue) ELSE {}
  <1>1. /\ at[c].caller \in PullCaller /\ PullOK(S, at[c], c) /\ q \in CPU /\ q \in cpus.online
        /\ Change(c, S, {q}, {}) /\ Calm(S, S)
    BY PullFacts DEF Pulling
  <1>2. b \in SUBSET Task /\ {} \in SUBSET Task
    <2>1. ListOf(rq[q].queue, Queued(S, q)) /\ Queued(S, q) \in SUBSET Task
      BY <1>1, InvFacts, BooksFacts
    <2> QED
      BY <2>1 DEF ListOf
  <1>3. \/ at[c].caller = "pick" /\ SwitchTo(c, S)
        \/ /\ at[c].caller # "pick" /\ Goto(c, Outside)
           /\ \E t \in {S, resched_curr(S, q)} : \E x \in {b, {}} : Becomes(t, x)
    BY DEF PullReturn
  <1> HIDE DEF b
  <1>4. CASE at[c].caller = "pick" /\ SwitchTo(c, S)
    <2>1. q = c
      BY <1>1, <1>4 DEF PullOK
    <2>2. AwakeBut(S, c)
      BY InvFacts DEF AwakeAt, AwakeBut
    <2>3. c \in cpus.online /\ Change(c, S, {c}, {}) /\ c \in {c}
      BY <1>1, <2>1
    <2> QED
      BY <1>4, <2>2, <2>3, SwitchKeeps
  <1>5. ASSUME at[c].caller # "pick", Goto(c, Outside),
               NEW t \in {S, resched_curr(S, q)}, NEW x \in {b, {}}, Becomes(t, x)
        PROVE  IInv'
    <2>1. q \in {q}
      OBVIOUS
    <2> HIDE DEF q
    <2>2. Change(c, t, {q}, {}) /\ Calm(S, t)
      BY <1>1, <1>5, <2>1, ChangeTold
    <2>3. ~ Picking(at[c]) /\ x \in SUBSET Task
      BY <1>2, <1>5 DEF Picking
    <2> QED
      BY <1>5, <2>2, <2>3, OutFrame, GotoKeeps
  <1> QED
    BY <1>3, <1>4, <1>5

\* The loop goes on.
LEMMA PullAgain ==
    ASSUME NEW c \in CPU, at[c].caller \in PullCaller, PullOK(S, at[c], c),
           at[c].q \in CPU, at[c].q \in cpus.online, Mine(c, {at[c].q}, {at[c].p} \ {NONE}),
           NEW t, NEW f \in FrameType, f.pc = "pull", f.held = {at[c].q}, f.p = at[c].p,
           f.q = at[c].q, f.caller = at[c].caller
    PROVE  NextFrame(c, t, f) /\ (Picking(at[c]) => Picking(f))
  <1>1. BalanceOK(t, f, c) /\ PullOK(t, f, c)
    BY DEF BalanceOK, PullOK
  <1>2. FrameOK(t, f, c)
    BY <1>1 DEF FrameOK
  <1> QED
    BY <1>2 DEF NextFrame, Picking

LEMMA PullNextKeeps ==
    ASSUME IInv, ~ Stopped, NEW c \in CPU, PullNext(c), UNCHANGED cpus
    PROVE  IInv'
  <1> DEFINE q == at[c].q
             d == Min(to_visit(c))
             f == [at[c] EXCEPT !.peer = d]
  <1>1. /\ at[c].pc = "pull"
        /\ \/ PullReturn(c)
           \/ /\ to_visit(c) # {}
              /\ \/ Goto(c, f) /\ UNCHANGED <<rq, rd, task, missed>>
                 \/ DoubleLock(c, d)
    BY DEF PullNext
  <1>2. CASE PullReturn(c)
    BY <1>1, <1>2, PullReturnKeeps
  <1>3. ASSUME to_visit(c) # {}
        PROVE  d \in CPU /\ d # q /\ d \in cpus.online
    <2>1. /\ Books(S) /\ S \in StateType /\ S.rd = rd /\ S.rq = rq
          /\ rd.rto_mask \in SUBSET CPU /\ to_visit(c) \subseteq rd.rto_mask \ {q}
      BY InvFacts, RqFacts DEF to_visit
    <2>2. d \in to_visit(c)
      <3>1. to_visit(c) \in SUBSET Nat
        BY <2>1, Names
      <3> QED
        BY <1>3, <3>1, MinFacts
    <2> HIDE DEF d
    <2>3. d \in CPU /\ d # q /\ d \in rd.rto_mask
      BY <2>1, <2>2
    <2>4. rq[d].online
      BY <2>1, <2>3, BooksFacts DEF CountsExact
    <2> QED
      BY <2>3, <2>4, InvFacts
  <1> HIDE DEF d
  <1>4. /\ Pulling(c) /\ at[c] \in FrameType /\ Searching(c) /\ Steadfast(c, d)
        /\ Mine(c, {q}, {at[c].p} \ {NONE})
    BY <1>1, PullFacts
  <1>5. ASSUME to_visit(c) # {}, Goto(c, f), UNCHANGED <<rq, rd, task, missed>>
        PROVE  IInv'
    <2>1. /\ f \in FrameType /\ f.pc = "pull" /\ f.held = {q} /\ f.p = at[c].p /\ f.q = q
          /\ f.caller = at[c].caller
      BY <1>1, <1>3, <1>4, <1>5 DEF FrameType, Pulling
    <2> HIDE DEF f
    <2>2. NextFrame(c, S, f) /\ (Picking(at[c]) => Picking(f))
      BY <1>4, <2>1, PullAgain DEF Pulling
    <2> QED
      BY <1>5, <2>2, SkipKeeps
  <1>6. ASSUME to_visit(c) # {}, DoubleLock(c, d)
        PROVE  IInv'
    BY <1>3, <1>4, <1>6, DoubleLockKeeps DEF Pulling
  <1> QED
    BY <1>1, <1>2, <1>5, <1>6

LEMMA BestPushable ==
    ASSUME NEW s, Books(s), NEW d \in CPU, NEW q \in CPU, pushable_to(s, d, q) # {},
           NEW p, p = pick_highest_pushable_task(s, d, q)
    PROVE  p \in Task /\ Pushee(s, p, d) /\ q \in s.task[p].mask
  <1> DEFINE l == s.rq[d].pushable
             I == pushable_to(s, d, q)
  <1>1. Pushable(s, s.rq[d], Movable(s, Queued(s, d)) \ {s.rq[d].curr})
    BY BooksFacts
  <1>2. l \in Seq(Task) /\ Elems(l) = Movable(s, Queued(s, d)) \ {s.rq[d].curr}
    BY <1>1 DEF Pushable, ListOf
  <1>3. \A i \in I : i \in 1 .. Len(l) /\ q \in s.task[l[i]].mask
    BY DEF pushable_to
  <1>4. I \in SUBSET Nat
    BY <1>3
  <1>5. Min(I) \in I
    BY <1>4, MinFacts
  <1> DEFINE m == Min(I)
  <1>6. m \in 1 .. Len(l) /\ q \in s.task[l[m]].mask /\ p = l[m]
    BY <1>3, <1>5 DEF pick_highest_pushable_task
  <1> HIDE DEF m, l
  <1>7. p \in Elems(l)
    BY <1>6 DEF Elems
  <1>8. p \in Queued(s, d) /\ p # s.rq[d].curr
    BY <1>2, <1>7 DEF Movable
  <1>9. p \in Task /\ Pushee(s, p, d)
    BY <1>8 DEF Queued, Pushee
  <1> QED
    BY <1>6, <1>9

LEMMA PullLockedKeeps ==
    ASSUME IInv, ~ Stopped, NEW c \in CPU, PullLocked(c), UNCHANGED cpus
    PROVE  IInv'
  <1> DEFINE q == at[c].q
             d == at[c].peer
             p == pick_highest_pushable_task(S, d, q)
             moves == /\ pushable_to(S, d, q) # {} /\ task[p].prio < rq[q].highest
                      /\ ~ task[p].prio < PrioOf(S, rq[d].curr)
             t == IF moves THEN move_task(S, p, d, q) ELSE S
             f == [at[c] EXCEPT !.pc = "pull", !.held = {q}, !.ret = @ \/ moves,
                                !.dropped = FALSE]
  <1>1. /\ at[c].pc = "locked" /\ at[c].caller \in PullCaller /\ Becomes(t, {}) /\ Goto(c, f)
    BY DEF PullLocked, PullCaller
  <1>2. /\ Searching(c) /\ at[c] \in FrameType
        /\ d \in CPU /\ d \in cpus.online /\ d # q /\ at[c].held = {q, d}
    BY <1>1, LockFacts
  <1>3. q \in CPU /\ q \in cpus.online /\ PullOK(S, at[c], c)
    BY <1>1, <1>2 DEF Searching, PushCaller, PullCaller
  <1>4. Mine(c, {q, d}, {}) /\ Mine(c, {q}, {at[c].p} \ {NONE})
    BY <1>2, MineFacts DEF Mine
  <1>5. /\ f \in FrameType /\ f.pc = "pull" /\ f.held = {q} /\ f.p = at[c].p /\ f.q = q
        /\ f.caller = at[c].caller
    BY Zenon, <1>2, <1>3 DEF FrameType
  <1> HIDE DEF f
  <1>6. Change(c, t, {q, d}, {}) /\ Calm(S, t)
    <2>1. CASE ~ moves
      <3>1. t = S
        BY <2>1
      <3> QED
        BY <1>2, <1>3, <1>4, <3>1, ChangeNone
    <2>2. CASE moves
      <3>1. pushable_to(S, d, q) # {} /\ t = move_task(S, p, d, q) /\ Books(S) /\ S.task = task
        BY <2>2, InvFacts
      <3>2. p \in Task /\ Pushee(S, p, d) /\ q \in task[p].mask
        BY <1>2, <1>3, <3>1, BestPushable
      <3> HIDE DEF p, t
      <3>3. Mine(c, {d, q}, {}) /\ {d, q} = {q, d}
        BY <1>4 DEF Mine
      <3>4. Change(c, t, {d, q}, {}) /\ Calm(S, t)
        BY <1>2, <1>3, <3>1, <3>2, <3>3, ChangeMove
      <3> QED
        BY <3>3, <3>4
    <2> QED
      BY <2>1, <2>2
  <1> HIDE DEF t
  <1>7. NextFrame(c, t, f) /\ (Picking(at[c]) => Picking(f))
    BY <1>1, <1>3, <1>4, <1>5, PullAgain
  <1> QED
    BY <1>1, <1>6, <1>7, GotoKeeps

-----------------------------------------------------------------------------
(* sched_setscheduler() and set_cpus_allowed_ptr() *)

LEMMA UnbalancedFacts ==
    ASSUME NEW s
    PROVE  unbalanced(s) \in SUBSET Task /\ {} \in SUBSET Task
  BY DEF unbalanced

LEMMA ClassChangedKeeps ==
    ASSUME IInv, ~ Stopped, NEW c \in CPU, at[c] = Outside, NEW p \in Task,
           task[p].cpu \in CPU, task[p].cpu \in cpus.online, NEW s,
           Change(c, s, {task[p].cpu}, {p}), Calm(S, s), CheckClassChanged(c, s, p),
           UNCHANGED cpus
    PROVE  IInv'
  <1> DEFINE q == task[p].cpu
  <1>1. \/ Becomes(s, {}) /\ \E caller \in {"from", "prio"} : Goto(c, Pull(q, caller, p))
        \/ Becomes(s, {}) /\ Goto(c, Push(q, "to", p))
        \/ \E t \in {s, resched_curr(s, q)} : \E b \in {unbalanced(s), {}} :
             Becomes(t, b) /\ UNCHANGED at
    BY Zenon DEF CheckClassChanged
  <1>2. Mine(c, {q}, {p} \ {NONE}) /\ ~ Picking(at[c]) /\ q \in CPU /\ q \in cpus.online
    BY OutsideType DEF Change, Mine, Picking
  <1> HIDE DEF q
  <1>3. Change(c, s, {q}, {p})
    BY DEF q
  <1>4. ASSUME Becomes(s, {}), NEW caller \in {"from", "prio"}, Goto(c, Pull(q, caller, p))
        PROVE  IInv'
    <2>1. NextFrame(c, s, Pull(q, caller, p))
      BY <1>2, PullFrame DEF PullCaller
    <2> QED
      BY <1>2, <1>3, <1>4, <2>1, GotoKeeps
  <1>5. CASE Becomes(s, {}) /\ Goto(c, Push(q, "to", p))
    <2>1. NextFrame(c, s, Push(q, "to", p))
      BY <1>2, PushFrame DEF PushCaller
    <2> QED
      BY <1>2, <1>3, <1>5, <2>1, GotoKeeps
  <1>6. ASSUME NEW t \in {s, resched_curr(s, q)}, NEW b \in {unbalanced(s), {}},
               Becomes(t, b), UNCHANGED at
        PROVE  IInv'
    <2>1. q \in {q} /\ b \in SUBSET Task
      BY UnbalancedFacts
    <2>2. Change(c, t, {q}, {p}) /\ Calm(S, t)
      BY <1>2, <1>3, <2>1, ChangeTold
    <2> QED
      BY <1>6, <2>1, <2>2, StayKeeps
  <1> QED
    BY <1>1, <1>4, <1>5, <1>6

LEMMA SetSchedulerKeeps ==
    ASSUME IInv, ~ Stopped, NEW c \in CPU, NEW p \in Task, NEW prio \in Prio,
           SetScheduler(c, p, prio), UNCHANGED cpus
    PROVE  IInv'
  <1> DEFINE q == task[p].cpu
             y == [S.task[p] EXCEPT !.prio = prio]
  <1>1. at[c] = Outside /\ PiFree(p) /\ Free(q)
    BY DEF SetScheduler
  <1>2. Books(S) /\ S \in StateType /\ S.task = task /\ Fits(S)
    BY InvFacts
  <1>3. task[p] \in TaskType /\ q \in CPU
    BY <1>2, TaskFacts
  <1>4. /\ y \in TaskType /\ y.cpu = q /\ (y.on_rq <=> task[p].on_rq)
        /\ y.mask = task[p].mask
    BY <1>2, <1>3 DEF TaskType
  <1>5. Mine(c, {}, {p}) /\ Mine(c, {q}, {p})
    <2>1. Mine(c, {}, {p}) /\ Mine(c, {q}, {})
      BY <1>1, <1>3, MineFacts
    <2> QED
      BY <2>1 DEF Mine
  <1>6. CASE ~ task[p].on_rq
    <2> DEFINE t == WithTask(S, p, y)
    <2>1. t = [S EXCEPT !.task[p].prio = prio]
      BY <1>2 DEF WithTask, StateType
    <2>2. Becomes(t, {}) /\ UNCHANGED at
      BY <1>6, <2>1 DEF SetScheduler
    <2> HIDE DEF y
    <2>3. Change(c, t, {}, {p}) /\ Calm(S, t)
      BY <1>4, <1>5, <1>6, ChangeAsleep
    <2> QED
      BY <1>1, <2>2, <2>3, StayKeeps
  <1>7. CASE task[p].on_rq
    <2> DEFINE s == change_prio(S, p, prio)
    <2>1. CheckClassChanged(c, s, p)
      BY <1>7 DEF SetScheduler
    <2>2. q \in cpus.online /\ q \in task[p].mask
      BY <1>2, <1>7 DEF Fits
    <2>3. S.task[p].on_rq /\ q = S.task[p].cpu
      BY <1>2, <1>7
    <2>4. Books(s) /\ Quietly(S, s, q) /\ OnlyTask(S, s, p, y)
      BY <1>2, <1>3, <2>3, PrioBooks
    <2> HIDE DEF s, y
    <2>5. \A d \in CPU : SameRunning(S.rq[d], s.rq[d])
      BY <2>4 DEF Quietly
    <2>6. Change(c, S, {q}, {p}) /\ Calm(S, S)
      BY <1>5, <2>2, ChangeNone
    <2>7. {q} \in SUBSET CPU /\ S.task[p].cpu \in {q} /\ y.cpu \in y.mask \cap cpus.online
      BY <1>3, <1>4, <2>2, <2>3
    <2> HIDE DEF q
    <2>8. Change(c, s, {q}, {p}) /\ Calm(S, s)
      BY <1>4, <1>7, <2>3, <2>4, <2>5, <2>6, <2>7, ChangeQueued
    <2> QED
      BY <1>1, <1>3, <2>1, <2>2, <2>8, ClassChangedKeeps DEF q
  <1> QED
    BY <1>6, <1>7

LEMMA SetCpusAllowedKeeps ==
    ASSUME IInv, ~ Stopped, NEW c \in CPU, NEW p \in Task, NEW mask \in Masks,
           SetCpusAllowed(c, p, mask), UNCHANGED cpus
    PROVE  IInv'
  <1> DEFINE q == task[p].cpu
             y == [S.task[p] EXCEPT !.mask = mask]
             s == [set_cpus_allowed_rt(S, p, mask) EXCEPT !.task[p].mask = mask]
  <1>1. /\ at[c] = Outside /\ PiFree(p) /\ Free(q) /\ (task[p].on_rq => q \in mask)
        /\ Becomes(s, unbalanced(s)) /\ UNCHANGED at
    BY DEF SetCpusAllowed
  <1>2. Books(S) /\ S \in StateType /\ S.task = task /\ Fits(S)
    BY InvFacts
  <1>3. task[p] \in TaskType /\ q \in CPU
    BY <1>2, TaskFacts
  <1>4. y.cpu = q /\ (y.on_rq <=> task[p].on_rq) /\ y.mask = mask
    BY <1>2, <1>3 DEF TaskType
  <1>5. Mine(c, {}, {p}) /\ Mine(c, {q}, {p})
    <2>1. Mine(c, {}, {p}) /\ Mine(c, {q}, {})
      BY <1>1, <1>3, MineFacts
    <2> QED
      BY <2>1 DEF Mine
  <1>6. Books(s) /\ Quietly(S, s, S.task[p].cpu) /\ OnlyTask(S, s, p, y)
    BY <1>2, MaskBooks
  <1> HIDE DEF s, y
  <1>7. \A d \in CPU : SameRunning(S.rq[d], s.rq[d])
    BY <1>6 DEF Quietly
  <1>8. unbalanced(s) \in SUBSET Task
    BY UnbalancedFacts
  <1>9. CASE ~ task[p].on_rq
    <2>1. Change(c, S, {}, {p}) /\ Calm(S, S)
      BY <1>5, ChangeNone
    <2>2. ~ S.task[p].on_rq /\ ~ y.on_rq
      BY <1>2, <1>4, <1>9
    <2>3. Change(c, s, {}, {p}) /\ Calm(S, s)
      BY <1>6, <1>7, <2>1, <2>2, ChangeApart
    <2> QED
      BY <1>1, <1>8, <2>3, StayKeeps
  <1>10. CASE task[p].on_rq
    <2>1. q \in cpus.online
      BY <1>2, <1>10 DEF Fits
    <2>2. Change(c, S, {q}, {p}) /\ Calm(S, S)
      BY <1>5, <2>1, ChangeNone
    <2>3. /\ S.task[p].on_rq /\ {q} \in SUBSET CPU /\ S.task[p].cpu \in {q}
          /\ y.on_rq /\ y.cpu \in y.mask \cap cpus.online
      BY <1>1, <1>2, <1>3, <1>4, <1>10, <2>1
    <2> HIDE DEF q
    <2>4. Change(c, s, {q}, {p}) /\ Calm(S, s)
      BY <1>6, <1>7, <2>2, <2>3, ChangeQueued
    <2> QED
      BY <1>1, <1>8, <2>4, StayKeeps
  <1> QED
    BY <1>9, <1>10

-----------------------------------------------------------------------------
(* CPUs go and come back *)

LEMMA MasksKeep ==
    ASSUME IInv, ~ Stopped, UNCHANGED <<rq, rd, task, at, missed>>, CpusOK',
           cpus.online \subseteq cpus'.online
    PROVE  IInv'
  <1>1. /\ Books(S) /\ S \in StateType /\ Placed(S) /\ Exclusive /\ at \in [CPU -> FrameType]
        /\ AwakeAt(S, at) /\ missed \subseteq Task
        /\ \A d \in CPU : FrameOK(S, at[d], d) /\ at[d].pc # "dying"
    BY InvFacts DEF IInv, Stopped
  <1>2. S' = S /\ at' = at /\ missed' \subseteq Task
    BY <1>1 DEF S
  <1>3. \A d \in CPU : FrameOK(S, at[d], d)'
    <2>1. SUFFICES ASSUME NEW d \in CPU
                   PROVE  FrameOK(S, at[d], d)'
      OBVIOUS
    <2>2. at[d] \in FrameType /\ FrameOK(S, at[d], d) /\ at[d].pc # "dying" /\ at'[d] = at[d]
      BY <1>1, <1>2
    <2> QED
      BY <1>2, <2>2, FramePrimed
  <1>4. Placed(S)'
    BY <1>1, <1>2 DEF Placed
  <1>5. Exclusive'
    BY <1>1, <1>2 DEF Exclusive
  <1> QED
    BY <1>1, <1>2, <1>3, <1>4, <1>5, InvPrimed

LEMMA DownPrepareKeeps ==
    ASSUME IInv, ~ Stopped, NEW c \in CPU, DownPrepare(c)
    PROVE  IInv'
  <1>1. CpusOK /\ c \in Pluggable
    BY InvFacts DEF DownPrepare
  <1>2. CpusOK' /\ cpus.online \subseteq cpus'.online
    BY <1>1 DEF CpusOK, DownPrepare
  <1> QED
    BY <1>2, MasksKeep DEF DownPrepare

LEMMA MakeActiveKeeps ==
    ASSUME IInv, ~ Stopped, NEW c \in CPU, MakeActive(c)
    PROVE  IInv'
  <1>1. CpusOK
    BY InvFacts
  <1>2. CpusOK' /\ cpus.online \subseteq cpus'.online
    BY <1>1 DEF CpusOK, MakeActive
  <1> QED
    BY <1>2, MasksKeep DEF MakeActive

\* A CPU joins the root domain or leaves it.
LEMMA PlugKeeps ==
    ASSUME IInv, ~ Stopped, NEW c \in CPU, c \in cpus.online, Free(c), NEW t, Books(t),
           t.task = S.task, t.rq[c].curr = S.rq[c].curr,
           \A d \in CPU \ {c} : t.rq[d] = S.rq[d],
           NEW b \in SUBSET Task, Becomes(t, b), UNCHANGED <<at, cpus>>
    PROVE  IInv'
  <1>1. /\ S \in StateType /\ t \in StateType /\ Fits(S) /\ missed \subseteq Task
        /\ at \in [CPU -> FrameType] /\ FrameOK(S, at[c], c) /\ at[c].pc # "dying"
    BY InvFacts DEF Books, Stopped
  <1>2. /\ \A d \in CPU : t.rq[d].curr = S.rq[d].curr
        /\ \A d \in CPU \ {c} : SameRunning(S.rq[d], t.rq[d])
    BY DEF SameRunning
  <1>3. Leaves(S, t, {c}, {}) /\ Calm(S, t) /\ Fits(t)
    BY <1>1, <1>2 DEF Leaves, Calm, Fits
  <1>4. Mine(c, {c}, {}) /\ Mine(c, at[c].held, {at[c].p} \ {NONE})
    BY MineFacts
  <1>5. Change(c, t, {c}, {})
    BY <1>3, <1>4 DEF Change
  <1>6. at[c].held \cap {c} = {} /\ at[c].p \notin {} /\ at[c] \in FrameType
    BY <1>1 DEF Free
  <1>7. FrameOK(t, at[c], c)
    BY <1>1, <1>3, <1>6, FrameKept
  <1>8. NextFrame(c, t, at[c])
    BY <1>1, <1>4, <1>6, <1>7 DEF NextFrame
  <1>9. S' = t /\ missed' \subseteq Task
    BY <1>1, BecomesFacts
  <1>10. at' = [at EXCEPT ![c] = at[c]] /\ cpus' = cpus
    BY <1>1
  <1> QED
    BY <1>3, <1>5, <1>8, <1>9, <1>10, CalmKeeps

LEMMA RqOfflineKeeps ==
    ASSUME IInv, ~ Stopped, NEW c \in CPU, RqOffline(c)
    PROVE  IInv'
  <1> DEFINE t == Offlined(S, c)
  <1>1. Books(S) /\ S.rq = rq
    BY InvFacts
  <1>2. S.rq[c].online /\ Free(c) /\ Becomes(t, {}) /\ UNCHANGED <<at, cpus>>
    BY <1>1 DEF RqOffline, Offlined
  <1>3. c \in cpus.online
    BY <1>1, <1>2, InvFacts
  <1>4. /\ Books(t) /\ t.task = S.task /\ t.rq[c].curr = S.rq[c].curr
        /\ \A d \in CPU \ {c} : t.rq[d] = S.rq[d]
    BY <1>1, <1>2, OfflineBooks DEF Plugged
  <1> HIDE DEF t
  <1> QED
    BY <1>2, <1>3, <1>4, PlugKeeps

LEMMA RqOnlineKeeps ==
    ASSUME IInv, ~ Stopped, NEW c \in CPU, RqOnline(c)
    PROVE  IInv'
  <1> DEFINE t == Onlined(S, c)
  <1>1. Books(S) /\ S.rq = rq
    BY InvFacts
  <1>2. /\ c \in cpus.active /\ ~ S.rq[c].online /\ Free(c)
        /\ Becomes(t, unbalanced(t)) /\ UNCHANGED <<at, cpus>>
    BY <1>1 DEF RqOnline, Onlined
  <1>3. c \in cpus.online
    BY <1>2, InvFacts
  <1>4. /\ Books(t) /\ t.task = S.task /\ t.rq[c].curr = S.rq[c].curr
        /\ \A d \in CPU \ {c} : t.rq[d] = S.rq[d]
    BY <1>1, <1>2, BackOnlineBooks DEF Plugged
  <1>5. unbalanced(t) \in SUBSET Task
    BY UnbalancedFacts
  <1> HIDE DEF t
  <1> QED
    BY <1>2, <1>3, <1>4, <1>5, PlugKeeps

-----------------------------------------------------------------------------
(* The end of a CPU *)

DyingFrame == [Outside EXCEPT !.pc = "dying"]

\* CPU c dies, and nobody else is doing anything.
DyingAlone(c) == [d \in CPU |-> IF d = c THEN DyingFrame ELSE Outside]

LEMMA DyingKeeps ==
    ASSUME IInv, NEW c \in CPU, NEW t, Books(t), Fits(t), DyingOK(t, DyingFrame, c),
           \A d \in CPU \ cpus.online : SameRunning(S.rq[d], t.rq[d]),
           AwakeBut(t, c), \A d \in CPU \ {c} : at[d] = Outside,
           S' = t, at' = DyingAlone(c), UNCHANGED cpus, missed' \subseteq Task
    PROVE  IInv'
  <1> DEFINE a == DyingAlone(c)
  <1>1. /\ a \in [CPU -> FrameType] /\ a[c] = DyingFrame /\ \A d \in CPU \ {c} : a[d] = Outside
        /\ DyingFrame.pc = "dying" /\ DyingFrame.held = {} /\ DyingFrame.p = NONE
    BY OutsideType DEF DyingAlone, DyingFrame, FrameType
  <1> HIDE DEF a
  <1>2. at' = a
    BY DEF a
  <1>3. \A d \in CPU : FrameOK(S, at[d], d)'
    <2>1. SUFFICES ASSUME NEW d \in CPU
                   PROVE  FrameOK(S, at[d], d)'
      OBVIOUS
    <2>2. a[d] \in FrameType /\ FrameOK(t, a[d], d)
      BY <1>1, OutsideType DEF FrameOK
    <2>3. at'[d] = a[d] /\ cpus' = cpus /\ cpus.online \subseteq cpus'.online
      BY <1>2
    <2> QED
      BY <2>2, <2>3, FramePrimed
  <1>4. Placed(S)'
    <2>1. ASSUME NEW d \in CPU \ cpus.online
          PROVE  t.rq[d].curr = IDLE /\ ~ t.rq[d].resched /\ ~ t.rq[d].online
      BY InvFacts DEF SameRunning
    <2> QED
      BY <2>1 DEF Placed, Fits
  <1>5. Exclusive'
    BY <1>1, <1>2, OutsideType DEF Exclusive
  <1>6. AwakeAt(t, a)
    <2>1. t.rq[c].curr = IDLE /\ \A d \in CPU \ {c} : a[d] = at[d]
      BY <1>1 DEF DyingOK
    <2> QED
      BY <2>1 DEF AwakeAt, AwakeBut
  <1>7. CpusOK' /\ at' \in [CPU -> FrameType]
    BY <1>1, <1>2, InvFacts DEF CpusOK
  <1> QED
    BY <1>2, <1>3, <1>4, <1>5, <1>6, <1>7, InvPrimed

LEMMA DyingStarts ==
    ASSUME IInv, NEW c \in CPU, Dying(c)
    PROVE  IInv'
  <1> DEFINE t == [put_prev_task(S, c) EXCEPT !.rq[c].curr = IDLE, !.rq[c].resched = FALSE]
  <1>1. /\ c \in cpus.online \ cpus.active /\ ~ rq[c].online /\ (\A d \in CPU : at[d] = Outside)
        /\ Becomes(t, {}) /\ Goto(c, DyingFrame) /\ UNCHANGED cpus
    BY DEF Dying, DyingFrame
  <1>2. /\ Books(S) /\ S \in StateType /\ S.rq = rq /\ Fits(S) /\ missed \subseteq Task
        /\ at \in [CPU -> FrameType] /\ AwakeAt(S, at)
    BY InvFacts
  <1>3. Books(t) /\ Switched(S, t, c) /\ t.rq[c].curr = IDLE /\ ~ t.rq[c].resched
    BY <1>2, PutBooks
  <1> HIDE DEF t
  <1>4. t \in StateType /\ t.task = S.task /\ \A d \in CPU \ {c} : t.rq[d] = S.rq[d]
    BY <1>3 DEF Books, Switched
  <1>5. DyingOK(t, DyingFrame, c)
    BY <1>1, <1>2, <1>3 DEF DyingOK, DyingFrame, Switched
  <1>6. Fits(t) /\ AwakeBut(t, c)
    BY <1>2, <1>4 DEF Fits, AwakeAt, AwakeBut
  <1>7. \A d \in CPU \ cpus.online : SameRunning(S.rq[d], t.rq[d])
    BY <1>1, <1>4 DEF SameRunning
  <1>8. at' = DyingAlone(c)
    BY <1>1, <1>2 DEF Goto, DyingAlone
  <1>9. S' = t /\ missed' \subseteq Task
    BY <1>1, <1>2, <1>4, BecomesFacts
  <1> QED
    BY <1>1, <1>3, <1>5, <1>6, <1>7, <1>8, <1>9, DyingKeeps

LEMMA DyingFacts ==
    ASSUME IInv, NEW c \in CPU, at[c].pc = "dying"
    PROVE  /\ at = DyingAlone(c) /\ at[c] = DyingFrame /\ \A d \in CPU \ {c} : at[d] = Outside
           /\ c \in cpus.online \ cpus.active /\ ~ rq[c].online
           /\ rq[c].curr = IDLE /\ ~ rq[c].resched
  <1>1. at \in [CPU -> FrameType] /\ FrameOK(S, at[c], c) /\ S.rq = rq
    BY InvFacts
  <1>2. DyingOK(S, at[c], c)
    BY <1>1 DEF FrameOK
  <1>3. /\ at[c] = DyingFrame /\ c \in cpus.online \ cpus.active /\ ~ rq[c].online
        /\ rq[c].curr = IDLE /\ ~ rq[c].resched
    BY <1>1, <1>2 DEF DyingOK, DyingFrame
  <1>4. \A d \in CPU \ {c} : at[d] = Outside
    BY DEF IInv, Exclusive
  <1>5. at = DyingAlone(c)
    BY <1>1, <1>3, <1>4 DEF DyingAlone
  <1> QED
    BY <1>3, <1>4, <1>5

LEMMA MigrateTaskKeeps ==
    ASSUME IInv, NEW c \in CPU, MigrateTask(c)
    PROVE  IInv'
  <1>1. at[c].pc = "dying" /\ UNCHANGED <<at, cpus>>
    BY DEF MigrateTask
  <1>2. PICK s \in picked(S, c) :
            LET p == s.rq[c].curr
                put == [put_prev_task(s, c) EXCEPT !.rq[c].curr = IDLE]
            IN  p # IDLE /\ Becomes(migrate_away(put, c, p), {})
    BY DEF MigrateTask
  <1> DEFINE p == s.rq[c].curr
             put == [put_prev_task(s, c) EXCEPT !.rq[c].curr = IDLE]
             t == migrate_away(put, c, p)
  <1>3. p # IDLE /\ Becomes(t, {})
    BY <1>2
  <1>4. /\ at = DyingAlone(c) /\ (\A d \in CPU \ {c} : at[d] = Outside)
        /\ c \in cpus.online \ cpus.active /\ ~ S.rq[c].online /\ ~ S.rq[c].resched
    BY <1>1, DyingFacts, InvFacts
  <1>5. /\ Books(S) /\ Fits(S) /\ CpusOK /\ cpus.active \subseteq cpus.online
        /\ AwakeAt(S, at) /\ missed \subseteq Task
    BY InvFacts
  <1>6. Books(s) /\ Switched(S, s, c) /\ ~ s.rq[c].resched
    BY <1>4, <1>5, PickedBooks
  <1>7. Books(put) /\ Switched(s, put, c) /\ put.rq[c].curr = IDLE /\ ~ put.rq[c].resched
    BY <1>6, PutBooks
  <1> HIDE DEF put
  <1>8. p \in Task /\ S.task[p].on_rq /\ S.task[p].cpu = c
    BY <1>3, <1>6 DEF Switched
  <1>9. /\ put.task = S.task /\ put.rq[c].online = S.rq[c].online
        /\ \A e \in CPU \ {c} : put.rq[e] = S.rq[e]
    BY <1>6, <1>7 DEF Switched
  <1> HIDE DEF p
  <1>10. put.task[p].on_rq /\ put.task[p].cpu = c /\ put.rq[c].curr # p /\ c \notin cpus.active
    BY <1>3, <1>4, <1>7, <1>8, <1>9
  <1>11. \E d \in cpus.active : \E mask \in Masks :
            /\ d \in CPU /\ d \in mask /\ d # c
            /\ Books(t) /\ SameRunning(put.rq[c], t.rq[c])
            /\ t.rq[d].curr = put.rq[d].curr /\ t.rq[d].online = put.rq[d].online
            /\ \A e \in CPU \ {c, d} : t.rq[e] = put.rq[e]
            /\ OnlyTask(put, t, p, [put.task[p] EXCEPT !.mask = mask, !.cpu = d])
    BY <1>5, <1>7, <1>8, <1>10, MigrateBooks
  <1> HIDE DEF t
  <1>12. PICK d \in cpus.active, mask \in Masks :
            /\ d \in CPU /\ d \in mask /\ d # c
            /\ Books(t) /\ SameRunning(put.rq[c], t.rq[c])
            /\ t.rq[d].curr = put.rq[d].curr /\ t.rq[d].online = put.rq[d].online
            /\ \A e \in CPU \ {c, d} : t.rq[e] = put.rq[e]
            /\ OnlyTask(put, t, p, [put.task[p] EXCEPT !.mask = mask, !.cpu = d])
    BY <1>11
  <1> DEFINE y == [put.task[p] EXCEPT !.mask = mask, !.cpu = d]
  <1>13. put.task[p] \in TaskType
    BY <1>7, <1>8, TaskFacts DEF Books
  <1>14. y.mask = mask /\ y.cpu = d /\ y.on_rq
    BY <1>10, <1>13 DEF TaskType
  <1>15. OnlyTask(put, t, p, y)
    BY <1>12
  <1> HIDE DEF y
  <1>16. /\ t.task[p] = y /\ \A q \in Task \ {p} : t.task[q] = S.task[q]
         /\ \A e \in CPU \ {c} : t.rq[e].curr = S.rq[e].curr
    BY <1>9, <1>12, <1>15 DEF OnlyTask
  <1>17. Fits(t)
    <2>1. d \in cpus.online
      BY <1>5, <1>12
    <2> QED
      BY <1>5, <1>12, <1>14, <1>16, <2>1 DEF Fits
  <1>18. DyingOK(t, DyingFrame, c)
    BY <1>4, <1>7, <1>9, <1>12 DEF DyingOK, DyingFrame, SameRunning
  <1>19. \A e \in CPU \ cpus.online : SameRunning(S.rq[e], t.rq[e])
    BY <1>4, <1>5, <1>9, <1>12 DEF SameRunning
  <1>20. AwakeBut(t, c)
    <2>1. ASSUME NEW e \in CPU \ {c}, t.rq[e].curr # IDLE
          PROVE  t.task[t.rq[e].curr].on_rq \/ Picking(at[e])
      <3>1. S.rq[e].curr \in Task /\ t.rq[e].curr = S.rq[e].curr
        BY <1>5, <1>16, <2>1, BooksFacts
      <3>2. S.task[S.rq[e].curr].on_rq \/ Picking(at[e])
        BY <1>5, <2>1, <3>1, Zenon DEF AwakeAt
      <3> QED
        BY <1>14, <1>16, <3>1, <3>2
    <2> QED
      BY <2>1, Zenon DEF AwakeBut
  <1>21. S' = t /\ missed' \subseteq Task
    <2>1. t \in StateType
      BY <1>12 DEF Books
    <2> QED
      BY <1>3, <1>5, <2>1, BecomesFacts
  <1>22. Books(t) /\ at' = DyingAlone(c) /\ UNCHANGED cpus
    BY <1>1, <1>4, <1>12
  <1> QED
    BY <1>4, <1>17, <1>18, <1>19, <1>20, <1>21, <1>22, DyingKeeps

LEMMA DeadKeeps ==
    ASSUME IInv, NEW c \in CPU, Dead(c)
    PROVE  IInv'
  <1>1. /\ at[c].pc = "dying" /\ rq[c].queue = <<>> /\ others(S, c) = {}
        /\ cpus' = [cpus EXCEPT !.online = @ \ {c}]
        /\ Becomes(S, unbalanced(S)) /\ Goto(c, Outside)
    BY DEF Dead
  <1>2. /\ (\A d \in CPU \ {c} : at[d] = Outside) /\ c \in cpus.online \ cpus.active
        /\ ~ rq[c].online /\ rq[c].curr = IDLE /\ ~ rq[c].resched
    BY <1>1, DyingFacts
  <1>3. /\ Books(S) /\ S \in StateType /\ S.rq = rq /\ S.task = task /\ Fits(S) /\ CpusOK
        /\ missed \subseteq Task /\ at \in [CPU -> FrameType] /\ AwakeAt(S, at)
        /\ \A d \in CPU \ cpus.online : rq[d].curr = IDLE /\ ~ rq[d].resched /\ ~ rq[d].online
    BY InvFacts
  <1>4. S' = S /\ missed' \subseteq Task
    BY <1>1, <1>3, UnbalancedFacts, BecomesFacts
  <1> DEFINE a == [d \in CPU |-> Outside]
  <1>5. at' = a
    BY <1>1, <1>2, <1>3 DEF Goto
  <1>6. cpus'.online = cpus.online \ {c} /\ cpus'.active = cpus.active /\ CpusOK'
    BY <1>1, <1>2, <1>3 DEF CpusOK
  <1>7. \A d \in CPU : FrameOK(S, at[d], d)'
    BY <1>5, OutsideType DEF FrameOK
  <1>8. Exclusive' /\ at' \in [CPU -> FrameType]
    BY <1>5, OutsideType DEF Exclusive
  <1>9. \A p \in Task : task[p].on_rq => task[p].cpu # c
    <2>1. SUFFICES ASSUME NEW p \in Task, task[p].on_rq, task[p].cpu = c
                   PROVE  FALSE
      OBVIOUS
    <2>2. ListOf(S.rq[c].queue, Queued(S, c))
      BY <1>3, BooksFacts
    <2>3. Queued(S, c) = {}
      BY <1>1, <1>3, <2>2 DEF ListOf, Elems
    <2>4. ~ rt_task(S, p)
      BY <1>3, <2>1, <2>3 DEF Queued
    <2>5. p \in others(S, c)
      BY <1>3, <2>1, <2>4 DEF others
    <2> QED
      BY <1>1, <2>5
  <1>10. Placed(S)'
    <2>1. ASSUME NEW p \in Task, task[p].on_rq
          PROVE  task[p].cpu \in task[p].mask \cap cpus'.online
      BY <1>3, <1>6, <1>9, <2>1 DEF Fits
    <2>2. ASSUME NEW d \in CPU \ cpus'.online
          PROVE  rq[d].curr = IDLE /\ ~ rq[d].resched /\ ~ rq[d].online
      BY <1>2, <1>3, <1>6
    <2> QED
      BY <1>3, <1>4, <2>1, <2>2 DEF Placed
  <1>11. AwakeAt(S, a)
    <2>1. \A d \in CPU \ {c} : a[d] = at[d]
      BY <1>2
    <2> QED
      BY <1>2, <1>3, <2>1 DEF AwakeAt
  <1> HIDE DEF a
  <1> QED
    BY <1>3, <1>4, <1>5, <1>6, <1>7, <1>8, <1>10, <1>11, InvPrimed

-----------------------------------------------------------------------------
(* The invariant, and what follows from it *)

LEMMA InitInv ==
    ASSUME Init
    PROVE  IInv
  <1>1. PICK x \in CPU : task = [p \in Task |-> [prio |-> MAX_RT_PRIO, mask |-> CPU, cpu |-> x,
                                                 on_rq |-> FALSE]]
    BY DEF Init
  <1>2. S.rq = rq /\ S.rd = rd /\ S.task = task
    BY DEF S
  <1>3. S \in StateType
    <2>1. task \in [Task -> TaskType]
      BY <1>1, Names DEF TaskType
    <2>2. rq \in [CPU -> RqType]
      <3>1. <<>> \in Seq(Task) /\ 0 \in Nat
        OBVIOUS
      <3> QED
        BY <3>1, Names DEF Init, RqType
    <2>3. rd \in [rto_mask : SUBSET CPU, rto_count : Int, cpupri : [CPU -> Prio \cup {INVALID}]]
      BY Names DEF Init
    <2> QED
      BY <2>1, <2>2, <2>3 DEF S, StateType
  <1>4. \A p \in Task : ~ task[p].on_rq
    BY <1>1
  <1>5. \A c \in CPU : /\ rq[c].curr = IDLE /\ rq[c].queue = <<>> /\ rq[c].pushable = <<>>
                       /\ rq[c].highest = MAX_RT_PRIO /\ rq[c].next = MAX_RT_PRIO
                       /\ rq[c].migratory = 0 /\ ~ rq[c].overloaded /\ rq[c].online
                       /\ rd.cpupri[c] = MAX_RT_PRIO
    BY DEF Init
  <1>6. rd.rto_mask = {} /\ rd.rto_count = 0
    BY DEF Init
  <1>7. Books(S)
    <2>1. ASSUME NEW c \in CPU
          PROVE  Exact(S, c, Queued(S, c), S.rq[c].curr)
      <3>1. Queued(S, c) = {} /\ Movable(S, {}) = {} /\ Movable(S, {}) \ {IDLE} = {}
        BY <1>2, <1>4 DEF Queued, Movable
      <3>2. ListOf(<<>>, {}) /\ InOrder(S, <<>>)
        BY DEF ListOf, Distinct, Elems, InOrder
      <3>3. Best(S, MAX_RT_PRIO, {})
        BY DEF Best
      <3>4. Cardinality({}) = 0
        BY FS_EmptySet
      <3>5. ListsExact(S, c, {}, IDLE)
        BY <1>2, <1>5, <3>1, <3>2, <3>3 DEF ListsExact, Pushable
      <3>6. CountsExact(S, c, {})
        BY ZenonT(30), <1>2, <1>5, <1>6, <3>1, <3>3, <3>4 DEF CountsExact
      <3> QED
        BY <1>2, <1>5, <3>1, <3>5, <3>6 DEF Exact
    <2>2. CurrHere(S)
      BY <1>2, <1>5 DEF CurrHere
    <2>3. S.rd.rto_count = Cardinality(S.rd.rto_mask)
      BY <1>2, <1>6, FS_EmptySet
    <2> QED
      BY <1>3, <2>1, <2>2, <2>3 DEF Books
  <1>8. CpusOK /\ Placed(S) /\ missed \subseteq Task /\ AwakeAt(S, at)
    BY <1>2, <1>4, <1>5 DEF Init, CpusOK, Placed, AwakeAt
  <1>9. Frames /\ Exclusive
    BY OutsideType DEF Init, Frames, Exclusive, FrameOK
  <1> QED
    BY <1>7, <1>8, <1>9 DEF IInv

LEMMA StutterInv ==
    ASSUME IInv, UNCHANGED vars
    PROVE  IInv'
  <1>1. /\ S' = S /\ at' = at /\ cpus' = cpus /\ missed' \subseteq Task
        /\ Books(S) /\ at \in [CPU -> FrameType] /\ AwakeAt(S, at)
    BY InvFacts DEF vars, S
  <1>2. Placed(S)' /\ CpusOK' /\ Exclusive'
    BY <1>1 DEF IInv, Placed, CpusOK, Exclusive
  <1>3. \A d \in CPU : FrameOK(S, at[d], d)'
    <2>1. SUFFICES ASSUME NEW d \in CPU
                   PROVE  FrameOK(S, at[d], d)'
      OBVIOUS
    <2>2. at[d] \in FrameType /\ FrameOK(S, at[d], d)
      BY InvFacts
    <2> QED
      BY <1>1, <2>2, FramePrimed
  <1> QED
    BY <1>1, <1>2, <1>3, InvPrimed

LEMMA NextInv ==
    ASSUME IInv, Next
    PROVE  IInv'
  <1>1. ASSUME ~ Stopped, Operate, UNCHANGED cpus
        PROVE  IInv'
    <2>1. PICK c \in CPU :
            \/ \E p \in Task : WakeSelect(c, p)
            \/ WakeActivate(c) \/ Preempt(c) \/ Sleep(c) \/ PostSchedule(c)
            \/ PushTask(c) \/ FindLowest(c) \/ Locked(c) \/ PushLocked(c)
            \/ PullNext(c) \/ PullLocked(c)
            \/ \E p \in Task, prio \in Prio : SetScheduler(c, p, prio)
            \/ \E p \in Task, mask \in Masks : SetCpusAllowed(c, p, mask)
      BY <1>1 DEF Operate
    <2>2. ASSUME NEW p \in Task, WakeSelect(c, p) PROVE IInv'
      BY <1>1, <2>2, WakeSelectKeeps
    <2>3. CASE WakeActivate(c)
      BY <1>1, <2>3, WakeActivateKeeps
    <2>4. CASE Preempt(c)
      BY <1>1, <2>4, PreemptKeeps
    <2>5. CASE Sleep(c)
      BY <1>1, <2>5, SleepKeeps
    <2>6. CASE PostSchedule(c)
      BY <1>1, <2>6, PostScheduleKeeps
    <2>7. CASE PushTask(c)
      BY <1>1, <2>7, PushTaskKeeps
    <2>8. CASE FindLowest(c)
      BY <1>1, <2>8, FindLowestKeeps
    <2>9. CASE Locked(c)
      BY <1>1, <2>9, LockedKeeps
    <2>10. CASE PushLocked(c)
      BY <1>1, <2>10, PushLockedKeeps
    <2>11. CASE PullNext(c)
      BY <1>1, <2>11, PullNextKeeps
    <2>12. CASE PullLocked(c)
      BY <1>1, <2>12, PullLockedKeeps
    <2>13. ASSUME NEW p \in Task, NEW prio \in Prio, SetScheduler(c, p, prio) PROVE IInv'
      BY <1>1, <2>13, SetSchedulerKeeps
    <2>14. ASSUME NEW p \in Task, NEW mask \in Masks, SetCpusAllowed(c, p, mask) PROVE IInv'
      BY <1>1, <2>14, SetCpusAllowedKeeps
    <2> QED
      BY <2>1, <2>2, <2>3, <2>4, <2>5, <2>6, <2>7, <2>8, <2>9, <2>10, <2>11, <2>12,
         <2>13, <2>14
  <1>2. ASSUME ~ Stopped, Hotplug
        PROVE  IInv'
    <2>1. PICK c \in CPU : \/ DownPrepare(c) \/ RqOffline(c) \/ Dying(c)
                           \/ MakeActive(c) \/ RqOnline(c)
      BY <1>2 DEF Hotplug
    <2>2. CASE DownPrepare(c)
      BY <1>2, <2>2, DownPrepareKeeps
    <2>3. CASE RqOffline(c)
      BY <1>2, <2>3, RqOfflineKeeps
    <2>4. CASE Dying(c)
      BY <2>4, DyingStarts
    <2>5. CASE MakeActive(c)
      BY <1>2, <2>5, MakeActiveKeeps
    <2>6. CASE RqOnline(c)
      BY <1>2, <2>6, RqOnlineKeeps
    <2> QED
      BY <2>1, <2>2, <2>3, <2>4, <2>5, <2>6
  <1>3. ASSUME NEW c \in CPU, MigrateTask(c) \/ Dead(c)
        PROVE  IInv'
    BY <1>3, MigrateTaskKeeps, DeadKeeps
  <1> QED
    BY <1>1, <1>2, <1>3 DEF Next

LEMMA InvHolds == Spec => []IInv
  <1>1. Init => IInv
    BY InitInv
  <1>2. IInv /\ [Next]_vars => IInv'
    BY NextInv, StutterInv
  <1> QED
    BY <1>1, <1>2, PTL DEF Spec

-----------------------------------------------------------------------------

LEMMA InvTypeOK ==
    ASSUME IInv
    PROVE  TypeOK
  <1>1. /\ Books(S) /\ S \in StateType /\ S.rq = rq /\ S.rd = rd /\ S.task = task
        /\ CpusOK /\ at \in [CPU -> FrameType] /\ missed \subseteq Task
    BY InvFacts
  <1>2. rq \in [CPU -> RqType] /\ task \in [Task -> TaskType]
    BY <1>1 DEF StateType
  <1>3. rd \in [rto_mask : SUBSET CPU, rto_count : Int, cpupri : [CPU -> Prio \cup {INVALID}]]
    BY <1>1 DEF StateType
  <1>4. rd.rto_count \in Nat
    <2>1. rd.rto_count = Cardinality(rd.rto_mask) /\ rd.rto_mask \in SUBSET CPU
      BY <1>1, <1>3 DEF Books
    <2>2. IsFiniteSet(rd.rto_mask)
      BY <2>1, Names, FS_Subset
    <2> QED
      BY <2>1, <2>2, FS_CardinalityType
  <1>5. rd \in [rto_mask : SUBSET CPU, rto_count : Nat, cpupri : [CPU -> Prio \cup {INVALID}]]
    BY <1>3, <1>4
  <1> QED
    BY <1>1, <1>2, <1>5 DEF TypeOK, RqType, TaskType, FrameType, CpusOK

\* The best priority of a list is the number that Best says it is.
LEMMA BestIs ==
    ASSUME NEW s \in StateType, NEW P \in SUBSET Task, NEW l, ListOf(l, P), NEW x,
           Best(s, x, P)
    PROVE  x = BestPrio(s, l)
  <1>1. l \in Seq(Task) /\ Elems(l) = P
    BY DEF ListOf
  <1>2. CASE P = {}
    <2>1. l = <<>>
      BY <1>1, <1>2 DEF Elems
    <2> QED
      BY <1>2, <2>1 DEF BestPrio, Best
  <1>3. CASE P # {}
    <2> DEFINE T == {s.task[p].prio : p \in P}
    <2>1. l # <<>>
      BY <1>1, <1>3 DEF Elems
    <2>2. BestPrio(s, l) = Min(T)
      BY <1>1, <2>1 DEF BestPrio
    <2>3. T \in SUBSET Nat /\ T # {}
      BY <1>3, TaskFacts
    <2>4. x \in T /\ \A y \in T : x <= y
      BY <1>3 DEF Best
    <2>5. Min(T) \in T /\ \A y \in T : Min(T) <= y
      BY <2>3, MinFacts
    <2> HIDE DEF T
    <2>6. x \in Nat /\ Min(T) \in Nat /\ x <= Min(T) /\ Min(T) <= x
      BY <2>3, <2>4, <2>5
    <2> QED
      BY <2>2, <2>6
  <1> QED
    BY <1>2, <1>3

LEMMA InvBooksExact ==
    ASSUME IInv
    PROVE  BooksExact
  <1>1. Books(S) /\ S \in StateType /\ S.rq = rq /\ S.rd = rd /\ S.task = task
    BY InvFacts
  <1>2. SUFFICES ASSUME NEW c \in CPU
                 PROVE  LET r == rq[c]
                            here == {p \in Task : /\ rt_task(S, p) /\ task[p].on_rq
                                                  /\ task[p].cpu = c}
                            mig == {p \in here : migratory(S, p)}
                        IN  /\ Elems(r.queue) = here /\ Len(r.queue) = Cardinality(here)
                            /\ Elems(r.pushable) = mig \ {r.curr}
                            /\ r.highest = BestPrio(S, r.queue)
                            /\ rd.cpupri[c] = IF r.online THEN r.highest ELSE INVALID
                            /\ r.next = BestPrio(S, r.pushable)
                            /\ r.migratory = Cardinality(mig)
                            /\ r.overloaded <=> mig # {} /\ Cardinality(here) > 1
                            /\ c \in rd.rto_mask <=> r.overloaded /\ r.online
    BY DEF BooksExact
  <1> DEFINE r == rq[c]
             here == Queued(S, c)
             mig == Movable(S, here)
  <1>3. /\ here = {p \in Task : rt_task(S, p) /\ task[p].on_rq /\ task[p].cpu = c}
        /\ mig = {p \in here : migratory(S, p)}
    BY <1>1 DEF Queued, Movable
  <1>4. /\ here \in SUBSET Task /\ ListOf(r.queue, here) /\ Pushable(S, r, mig \ {r.curr})
        /\ CountsExact(S, c, here)
    BY <1>1, BooksFacts
  <1>5. mig \in SUBSET Task /\ mig \ {r.curr} \in SUBSET Task
    BY <1>4 DEF Movable
  <1> HIDE DEF here, mig
  <1>6. /\ ListOf(r.pushable, mig \ {r.curr}) /\ Best(S, r.next, mig \ {r.curr})
    BY <1>4 DEF Pushable
  <1>7. /\ Best(S, r.highest, here)
        /\ rd.cpupri[c] = IF r.online THEN r.highest ELSE INVALID
        /\ r.migratory = Cardinality(mig)
        /\ r.overloaded <=> mig # {} /\ Cardinality(here) > 1
        /\ c \in rd.rto_mask <=> r.overloaded /\ r.online
    BY <1>1, <1>4 DEF CountsExact, mig
  <1>8. r.highest = BestPrio(S, r.queue)
    BY <1>1, <1>4, <1>7, BestIs
  <1>9. r.next = BestPrio(S, r.pushable)
    BY <1>1, <1>5, <1>6, BestIs
  <1>10. Elems(r.queue) = here /\ Elems(r.pushable) = mig \ {r.curr}
    BY <1>4, <1>6 DEF ListOf
  <1>11. Len(r.queue) = Cardinality(here)
    <2>1. r.queue \in Seq(Task) /\ Distinct(r.queue)
      BY <1>4 DEF ListOf
    <2> QED
      BY <1>10, <2>1, DistinctCount
  <1> HIDE DEF r
  <1> QED
    BY <1>3, <1>7, <1>8, <1>9, <1>10, <1>11, Zenon DEF r

-----------------------------------------------------------------------------

\* Types, for any number of CPUs, tasks and priorities.
THEOREM TypeCorrect == Spec => []TypeOK
  BY InvHolds, InvTypeOK, PTL

\* For any number of CPUs, tasks and priorities: the lists of pushable tasks,
\* highest_prio, cpupri, rt_nr_migratory and the overload mask agree with the
\* queues after every section of code under rq->lock: enqueue_task_rt(),
\* dequeue_task_rt(), the choice of the next task, pushes and pulls, changes of
\* priority, class and affinity, and the comings and goings of CPUs.
THEOREM BooksExactHolds == Spec => []BooksExact
  BY InvHolds, InvBooksExact, PTL

\* For any number of CPUs, tasks and priorities, and however the locks were
\* dropped in double_lock_balance(): no task is on a CPU that is outside of its
\* affinity mask or off line.
THEOREM AllowedHolds == Spec => []Allowed
  <1>1. IInv => Allowed
    BY InvFacts DEF Fits, Allowed
  <1> QED
    BY <1>1, InvHolds, PTL

=============================================================================
