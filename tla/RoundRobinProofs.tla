-------------------------- MODULE RoundRobinProofs --------------------------
(***************************************************************************)
(* For any number of tasks, priorities and nice levels: the ring of the    *)
(* circular class and the lists of the real-time class hold exactly the    *)
(* tasks that are runnable, no use of circlist.c breaks its contract, no   *)
(* preemption is missed, boosts and classes go with priorities, and no     *)
(* task passes another in the ring.                                        *)
(*                                                                         *)
(* The lemmas follow the structure of the code: first the operations of    *)
(* the two classes, then the ways core.c combines them (switch, change of  *)
(* class, activation), then one lemma per action.  What an operation does  *)
(* to the order of the ring goes along with what it does to the books.     *)
(***************************************************************************)
EXTENDS RoundRobin, SetLemmas

\* The index sched_find_first_bit() returns.
LEMMA LowestFacts ==
    ASSUME NEW S \in SUBSET Nat, S # {}
    PROVE  Lowest(S) \in S /\ \A j \in S : Lowest(S) <= j
  BY LeastNat DEF Lowest

-----------------------------------------------------------------------------
(* The books of the two classes *)

RqType ==
    [curr : Task \cup {IDLE}, need_resched : BOOLEAN, nr_running : Nat,
     on_rq : SUBSET Task, ring : Seq(Task), circ_curr : Task \cup {NULL}, circ_nr : Nat,
     se_on_rq : SUBSET Task, queue : [RtPrio -> Seq(Task)], bitmap : SUBSET RtPrio,
     rt_nr : Nat, rt_queued : BOOLEAN,
     fault : {"none", "ring relinked", "endless search", "empty queue", "no entity"}]

Circ(t, Q) == {p \in Q : t[p].sched_class = "circular"}
Rt(t, Q) == {p \in Q : t[p].sched_class = "rt"}

\* The circular class has the tasks of Q, apart from the running one, in its ring.
CircularExact(r, t, Q, running) ==
    /\ r.fault = "none"
    /\ r.circ_curr = running
    /\ r.se_on_rq = Circ(t, Q)
    /\ Elems(r.ring) = Circ(t, Q) \ {running}
    /\ Distinct(r.ring)
    /\ r.circ_nr = Cardinality(Circ(t, Q))

\* The real-time class has the tasks of Q on the lists of their priorities.
RtExact(r, t, Q) ==
    /\ \A i \in RtPrio : /\ Elems(r.queue[i]) = {p \in Rt(t, Q) : t[p].prio = i}
                         /\ Distinct(r.queue[i])
    /\ r.bitmap = {t[p].prio : p \in Rt(t, Q)}
    /\ r.rt_nr = Cardinality(Rt(t, Q))
    /\ r.rt_queued <=> r.rt_nr # 0

\* struct rq has exactly the tasks of Q in its classes, which is r.on_rq except in the
\* middle of deactivate_task() and activate_task().
BooksExact(r, t, Q, running) ==
    /\ r \in RqType /\ IsFiniteSet(Q)
    /\ CircularExact(r, t, Q, running)
    /\ RtExact(r, t, Q)
    /\ r.nr_running = Cardinality(Q)

ClassExact(t) ==
    t \in [Task -> Attributes] /\ \A p \in Task : t[p].sched_class = class_for(t[p].prio)

\* What the operations of the classes leave alone.
SameOutside(a, b) ==
    a.curr = b.curr /\ a.need_resched = b.need_resched /\ a.on_rq = b.on_rq

LEMMA ClassFacts ==
    ASSUME NEW t, ClassExact(t), NEW p \in Task
    PROVE  /\ t[p] \in Attributes
           /\ t[p].sched_class = "rt" \/ t[p].sched_class = "circular"
           /\ t[p].sched_class = "rt" <=> t[p].prio \in RtPrio
           /\ t[p].prio \in Nat
           /\ t[p].sched_class = "rt" <=> t[p].prio < MAX_RT_PRIO
  <1>1. MAX_RT_PRIO \in Nat /\ NICE_WIDTH \in Nat /\ MAX_PRIO \in Nat
    BY SizeAssumption DEF MAX_PRIO
  <1>2. t[p] \in Attributes /\ t[p].sched_class = class_for(t[p].prio)
    BY DEF ClassExact
  <1>3. t[p].prio \in 0..(MAX_PRIO - 1)
    BY <1>2 DEF Attributes
  <1> QED
    BY <1>1, <1>2, <1>3 DEF class_for, rt_prio, RtPrio

LEMMA PartsFinite ==
    ASSUME NEW t, NEW Q, IsFiniteSet(Q)
    PROVE  /\ IsFiniteSet(Circ(t, Q)) /\ Cardinality(Circ(t, Q)) \in Nat
           /\ IsFiniteSet(Rt(t, Q)) /\ Cardinality(Rt(t, Q)) \in Nat
           /\ Cardinality(Q) \in Nat
  <1>1. Circ(t, Q) \in SUBSET Q /\ Rt(t, Q) \in SUBSET Q
    BY DEF Circ, Rt
  <1>2. IsFiniteSet(Circ(t, Q)) /\ IsFiniteSet(Rt(t, Q))
    BY <1>1, FS_Subset
  <1> QED
    BY <1>2, FS_CardinalityType

\* One task less in one of the classes.
LEMMA Shrink ==
    ASSUME NEW t, NEW Q, IsFiniteSet(Q), NEW p \in Q
    PROVE  /\ IsFiniteSet(Q \ {p}) /\ Cardinality(Q \ {p}) = Cardinality(Q) - 1
           /\ Cardinality(Q \ {p}) \in Nat
           /\ t[p].sched_class = "circular" =>
                /\ Cardinality(Circ(t, Q) \ {p}) = Cardinality(Circ(t, Q)) - 1
                /\ Cardinality(Circ(t, Q) \ {p}) \in Nat
           /\ t[p].sched_class = "rt" =>
                /\ Cardinality(Rt(t, Q) \ {p}) = Cardinality(Rt(t, Q)) - 1
                /\ Cardinality(Rt(t, Q) \ {p}) \in Nat
  <1>1. /\ Circ(t, Q) \in SUBSET Q /\ Rt(t, Q) \in SUBSET Q
        /\ t[p].sched_class = "circular" => p \in Circ(t, Q)
        /\ t[p].sched_class = "rt" => p \in Rt(t, Q)
    BY DEF Circ, Rt
  <1>2. IsFiniteSet(Circ(t, Q)) /\ IsFiniteSet(Rt(t, Q))
    BY <1>1, FS_Subset
  <1>3. /\ IsFiniteSet(Q \ {p}) /\ Cardinality(Q \ {p}) = Cardinality(Q) - 1
        /\ IsFiniteSet(Circ(t, Q) \ {p}) /\ IsFiniteSet(Rt(t, Q) \ {p})
        /\ p \in Circ(t, Q) => Cardinality(Circ(t, Q) \ {p}) = Cardinality(Circ(t, Q)) - 1
        /\ p \in Rt(t, Q) => Cardinality(Rt(t, Q) \ {p}) = Cardinality(Rt(t, Q)) - 1
    BY <1>2, FS_RemoveElement
  <1>4. /\ Cardinality(Circ(t, Q) \ {p}) \in Nat /\ Cardinality(Rt(t, Q) \ {p}) \in Nat
        /\ Cardinality(Q \ {p}) \in Nat
    BY <1>3, FS_CardinalityType
  <1> QED
    BY <1>1, <1>3, <1>4

\* The books of one class do not depend on what the other does.
LEMMA RtFrame ==
    ASSUME NEW t, NEW t2, NEW Q, NEW Q2, NEW r, NEW r2, RtExact(r, t, Q),
           Rt(t2, Q2) = Rt(t, Q), \A p \in Rt(t, Q) : t2[p].prio = t[p].prio,
           r2.queue = r.queue, r2.bitmap = r.bitmap, r2.rt_nr = r.rt_nr,
           r2.rt_queued = r.rt_queued
    PROVE  RtExact(r2, t2, Q2)
  <1>1. /\ {t2[p].prio : p \in Rt(t, Q)} = {t[p].prio : p \in Rt(t, Q)}
        /\ \A i : {p \in Rt(t, Q) : t2[p].prio = i} = {p \in Rt(t, Q) : t[p].prio = i}
    OBVIOUS
  <1> QED
    BY <1>1 DEF RtExact

LEMMA CircularFrame ==
    ASSUME NEW t, NEW t2, NEW Q, NEW Q2, NEW r, NEW r2, NEW c, CircularExact(r, t, Q, c),
           Circ(t2, Q2) = Circ(t, Q),
           r2.fault = r.fault, r2.circ_curr = r.circ_curr, r2.se_on_rq = r.se_on_rq,
           r2.ring = r.ring, r2.circ_nr = r.circ_nr
    PROVE  CircularExact(r2, t2, Q2, c)
  BY DEF CircularExact

-----------------------------------------------------------------------------
(* The order of the ring *)

\* p has come to the end of the ring, or nothing has changed.
Appended(ring, next, p) ==
    next = ring \/ (p \notin Elems(ring) /\ next = Append(ring, p))

\* p has left the ring, or nothing has changed.
Removed(ring, next, p) == next = ring \/ next = Delete(ring, p)

\* p has left the ring or gone to its end, or nothing has changed.
Requeued(ring, next, p) == next = ring \/ KeepsOrder(ring, next, {p})

\* What a sequence of tasks ends with is a task.
LEMMA LastOfAppend ==
    ASSUME NEW s \in Seq(Task), NEW p, Append(s, p) \in Seq(Task)
    PROVE  p \in Task
  <1> DEFINE u == Append(s, p)
  <1>1. Len(s) \in Nat /\ Len(u) = Len(s) + 1 /\ u[Len(s) + 1] = p
    OBVIOUS
  <1> HIDE DEF u
  <1>2. u \in Seq(Task) /\ Len(s) + 1 \in 1..Len(u)
    BY <1>1 DEF u
  <1>3. u[Len(s) + 1] \in Task
    BY <1>2
  <1> QED
    BY <1>1, <1>3

LEMMA OrderSame ==
    ASSUME NEW s
    PROVE  KeepsOrder(s, s, {})
  BY DEF KeepsOrder

LEMMA OrderAppend ==
    ASSUME NEW s \in Seq(Task), NEW p \in Task, p \notin Elems(s), NEW M \in SUBSET {p}
    PROVE  KeepsOrder(s, Append(s, p), M)
  <1> DEFINE u == Append(s, p)
  <1>1. /\ Len(s) \in Nat /\ Len(u) = Len(s) + 1 /\ u[Len(s) + 1] = p
        /\ \A i \in 1..Len(s) : u[i] = s[i] /\ i \in 1..Len(u)
        /\ Elems(u) = Elems(s) \cup {p}
    BY AppendFacts
  <1> HIDE DEF u
  <1> SUFFICES ASSUME NEW a \in (Elems(s) \cap Elems(u)) \ M, NEW b \in Elems(u), a # b,
                      b \in Elems(s) \ M => Ahead(s, a, b)
               PROVE  Ahead(u, a, b)
    BY DEF KeepsOrder, u
  <1>2. CASE b = p
    <2>1. PICK i \in 1..Len(s) : s[i] = a
      BY DEF Elems
    <2>2. i < Len(s) + 1 /\ Len(s) + 1 \in 1..Len(u)
      BY <1>1
    <2> QED
      BY <1>1, <1>2, <2>1, <2>2 DEF Ahead
  <1>3. CASE b # p
    <2>1. Ahead(s, a, b)
      BY <1>1, <1>3
    <2> QED
      BY <1>1, <2>1 DEF Ahead
  <1> QED
    BY <1>2, <1>3

LEMMA OrderDelete ==
    ASSUME NEW s \in Seq(Task), Distinct(s), NEW p, NEW M \in SUBSET {p}
    PROVE  p \in Elems(s) \/ M = {} => KeepsOrder(s, Delete(s, p), M)
  <1> SUFFICES ASSUME p \in Elems(s) \/ M = {} PROVE KeepsOrder(s, Delete(s, p), M)
    OBVIOUS
  <1>1. CASE p \notin Elems(s)
    <2>1. Delete(s, p) = s
      BY <1>1 DEF Delete
    <2> QED
      BY <1>1, <2>1, OrderSame
  <1>2. CASE p \in Elems(s)
    <2> DEFINE k == CHOOSE i \in 1..Len(s) : s[i] = p
               d == [i \in 1..(Len(s) - 1) |-> IF i < k THEN s[i] ELSE s[i + 1]]
    <2>1. k \in 1..Len(s) /\ s[k] = p
      BY <1>2 DEF Elems
    <2>2. Delete(s, p) = d
      BY <1>2 DEF Delete
    <2> HIDE DEF d
    <2>3. Elems(d) = Elems(s) \ {p} /\ d \in Seq(Task)
      BY <2>2, DeleteFacts
    <2> USE DEF d
    <2> HIDE DEF k
    <2>4. /\ Len(s) \in Nat /\ Len(d) = Len(s) - 1
          /\ \A i \in 1..(Len(s) - 1) : d[i] = IF i < k THEN s[i] ELSE s[i + 1]
      BY <2>1
    <2> HIDE DEF d
    <2> SUFFICES ASSUME NEW a \in (Elems(s) \cap Elems(d)) \ M, NEW b \in Elems(d), a # b,
                        b \in Elems(s) \ M => Ahead(s, a, b)
                 PROVE  Ahead(d, a, b)
      BY <2>2 DEF KeepsOrder
    <2>5. PICK i \in 1..Len(s), j \in 1..Len(s) : i < j /\ s[i] = a /\ s[j] = b
      BY <2>3 DEF Ahead
    <2>6. i # k /\ j # k
      BY <2>1, <2>3, <2>5
    <2> DEFINE to(n) == IF n < k THEN n ELSE n - 1
    <2>7. \A n \in 1..Len(s) : n # k => to(n) \in 1..Len(d) /\ d[to(n)] = s[n]
      <3> SUFFICES ASSUME NEW n \in 1..Len(s), n # k
                   PROVE  to(n) \in 1..Len(d) /\ d[to(n)] = s[n]
        OBVIOUS
      <3>1. CASE n < k
        BY <2>1, <2>4, <3>1
      <3>2. CASE n > k
        <4>1. to(n) = n - 1 /\ n - 1 \in 1..(Len(s) - 1) /\ ~ (n - 1 < k) /\ (n - 1) + 1 = n
          BY <2>1, <2>4, <3>2
        <4> QED
          BY <2>4, <4>1
      <3> QED
        BY <2>1, <3>1, <3>2
    <2>8. to(i) < to(j)
      BY <2>1, <2>4, <2>5, <2>6
    <2> QED
      BY <2>5, <2>6, <2>7, <2>8 DEF Ahead
  <1> QED
    BY <1>1, <1>2

LEMMA OrderTrans ==
    ASSUME NEW s, NEW t, NEW u, NEW M, KeepsOrder(s, t, M), KeepsOrder(t, u, M),
           (Elems(s) \cap Elems(u)) \ M \subseteq Elems(t)
    PROVE  KeepsOrder(s, u, M)
  BY DEF KeepsOrder

\* Nobody in the ring minds that a task comes to its end.
LEMMA AppendedOrder ==
    ASSUME NEW s \in Seq(Task), NEW u \in Seq(Task), NEW p, Appended(s, u, p)
    PROVE  /\ KeepsOrder(s, u, {}) /\ Elems(s) \subseteq Elems(u)
           /\ s # <<>> => u # <<>> /\ Head(u) = Head(s)
  <1>1. CASE u = s
    BY <1>1, OrderSame
  <1>2. CASE p \notin Elems(s) /\ u = Append(s, p)
    <2>1. p \in Task
      BY <1>2, LastOfAppend
    <2>2. KeepsOrder(s, u, {})
      BY <1>2, <2>1, OrderAppend
    <2>3. Elems(s) \subseteq Elems(u)
      BY <1>2, <2>1, AppendFacts
    <2>4. s # <<>> => u # <<>> /\ Head(u) = Head(s)
      BY <1>2, <2>1
    <2> QED
      BY <2>2, <2>3, <2>4
  <1> QED
    BY <1>1, <1>2 DEF Appended

\* A task that is taken out and put back is behind the others, or where it was.
LEMMA MovedToEnd ==
    ASSUME NEW s \in Seq(Task), Distinct(s), NEW p \in Task, NEW t, NEW u,
           Removed(s, t, p), Appended(t, u, p)
    PROVE  Requeued(s, u, p)
  <1>1. CASE t = s
    BY <1>1, OrderAppend DEF Appended, Requeued
  <1>2. CASE t = Delete(s, p) /\ p \in Elems(s)
    <2>1. KeepsOrder(s, t, {p})
      BY <1>2, OrderDelete
    <2>2. t \in Seq(Task) /\ Elems(t) = Elems(s) \ {p}
      BY <1>2, DeleteFacts
    <2>3. CASE u = t
      BY <2>1, <2>3 DEF Requeued
    <2>4. CASE p \notin Elems(t) /\ u = Append(t, p)
      <3>1. KeepsOrder(t, u, {p})
        BY <2>2, <2>4, OrderAppend
      <3> QED
        BY <2>1, <2>2, <3>1, OrderTrans DEF Requeued
    <2> QED
      BY <2>3, <2>4 DEF Appended
  <1>3. CASE t = Delete(s, p) /\ p \notin Elems(s)
    <2>1. t = s
      BY <1>3 DEF Delete
    <2> QED
      BY <1>1, <2>1
  <1> QED
    BY <1>1, <1>2, <1>3 DEF Removed

-----------------------------------------------------------------------------
(* circular.c *)

LEMMA EnqueueCircular ==
    ASSUME NEW r, NEW t, ClassExact(t), NEW Q \in SUBSET Task, NEW c,
           BooksExact(r, t, Q, c), NEW p \in Task \ Q, t[p].sched_class = "circular"
    PROVE  LET e == enqueue_task_circular(r, p)
           IN  /\ BooksExact(e, t, Q \cup {p}, c) /\ SameOutside(e, r)
               /\ Appended(r.ring, e.ring, p)
               /\ p = c => e.ring = r.ring
  <1> DEFINE e == enqueue_task_circular(r, p)
  <1>1. /\ r \in RqType /\ r.circ_curr = c /\ r.se_on_rq = Circ(t, Q) /\ r.fault = "none"
        /\ Elems(r.ring) = Circ(t, Q) \ {c} /\ Distinct(r.ring) /\ r.ring \in Seq(Task)
        /\ p \notin Elems(r.ring) /\ p \notin r.se_on_rq
    BY DEF BooksExact, CircularExact, RqType, Circ
  <1>2. PICK ring \in Seq(Task) :
        /\ Elems(ring) = (Circ(t, Q) \cup {p}) \ {c} /\ Distinct(ring)
        /\ e = [r EXCEPT !.ring = ring, !.circ_nr = @ + 1, !.se_on_rq = @ \cup {p},
                         !.nr_running = @ + 1]
        /\ Appended(r.ring, ring, p)
        /\ p = c => ring = r.ring
    <2>1. e = [enqueue_entity(r, p) EXCEPT !.nr_running = @ + 1]
      BY <1>1 DEF enqueue_task_circular
    <2>2. CASE p = c
      <3>1. enqueue_entity(r, p) = [r EXCEPT !.circ_nr = @ + 1, !.se_on_rq = @ \cup {p}]
        BY <1>1, <2>2 DEF enqueue_entity
      <3>2. e = [r EXCEPT !.ring = r.ring, !.circ_nr = @ + 1, !.se_on_rq = @ \cup {p},
                          !.nr_running = @ + 1]
        BY <1>1, <2>1, <3>1, ZenonT(60) DEF RqType
      <3>3. Elems(r.ring) = (Circ(t, Q) \cup {p}) \ {c}
        BY <1>1, <2>2
      <3> QED
        BY <1>1, <3>2, <3>3 DEF Appended
    <2>3. CASE p # c
      <3>1. circularlist_insert(r, p) = [r EXCEPT !.ring = Append(r.ring, p)]
        BY <1>1 DEF circularlist_insert
      <3>2. enqueue_entity(r, p) = [r EXCEPT !.ring = Append(r.ring, p),
                                             !.circ_nr = @ + 1, !.se_on_rq = @ \cup {p}]
        BY <1>1, <2>3, <3>1 DEF enqueue_entity, RqType
      <3>3. e = [r EXCEPT !.ring = Append(r.ring, p), !.circ_nr = @ + 1,
                          !.se_on_rq = @ \cup {p}, !.nr_running = @ + 1]
        BY <1>1, <2>1, <3>2 DEF RqType
      <3>4. /\ Append(r.ring, p) \in Seq(Task) /\ Distinct(Append(r.ring, p))
            /\ Elems(Append(r.ring, p)) = Elems(r.ring) \cup {p}
        BY <1>1, AppendFacts
      <3>5. Elems(Append(r.ring, p)) = (Circ(t, Q) \cup {p}) \ {c}
        BY <1>1, <2>3, <3>4
      <3> QED
        BY <1>1, <2>3, <3>3, <3>4, <3>5 DEF Appended
    <2> QED
      BY <2>2, <2>3
  <1> HIDE DEF e
  <1>3. /\ e \in RqType /\ e.ring = ring /\ e.circ_nr = r.circ_nr + 1
        /\ e.se_on_rq = r.se_on_rq \cup {p} /\ e.nr_running = r.nr_running + 1
        /\ e.fault = r.fault /\ e.circ_curr = r.circ_curr
        /\ e.queue = r.queue /\ e.bitmap = r.bitmap /\ e.rt_nr = r.rt_nr
        /\ e.rt_queued = r.rt_queued /\ SameOutside(e, r)
    <2>1. /\ r.circ_nr + 1 \in Nat /\ r.nr_running + 1 \in Nat
          /\ r.se_on_rq \cup {p} \in SUBSET Task
      <3>1. r.circ_nr \in Nat /\ r.nr_running \in Nat /\ r.se_on_rq \subseteq Task /\ p \in Task
        BY <1>1 DEF RqType
      <3> QED
        BY <3>1
    <2> QED
      BY <1>1, <1>2, <2>1 DEF RqType, SameOutside
  <1>4. /\ IsFiniteSet(Q \cup {p}) /\ Cardinality(Q \cup {p}) = Cardinality(Q) + 1
        /\ Circ(t, Q \cup {p}) = Circ(t, Q) \cup {p} /\ Rt(t, Q \cup {p}) = Rt(t, Q)
        /\ Cardinality(Circ(t, Q) \cup {p}) = Cardinality(Circ(t, Q)) + 1
    <2>1. IsFiniteSet(Q) /\ p \notin Q
      BY DEF BooksExact
    <2>2. Circ(t, Q \cup {p}) = Circ(t, Q) \cup {p} /\ Rt(t, Q \cup {p}) = Rt(t, Q)
      BY DEF Circ, Rt
    <2>3. /\ IsFiniteSet(Q \cup {p}) /\ Cardinality(Q \cup {p}) = Cardinality(Q) + 1
          /\ Cardinality(Circ(t, Q) \cup {p}) = Cardinality(Circ(t, Q)) + 1
      <3>1. IsFiniteSet(Circ(t, Q)) /\ p \notin Circ(t, Q)
        BY <2>1, PartsFinite DEF Circ
      <3> QED
        BY <2>1, <3>1, FS_AddElement
    <2> QED
      BY <2>2, <2>3
  <1>5. RtExact(e, t, Q \cup {p})
    <2>1. RtExact(r, t, Q)
      BY DEF BooksExact
    <2> QED
      BY <1>3, <1>4, <2>1, RtFrame
  <1>6. CircularExact(e, t, Q \cup {p}, c)
    BY <1>1, <1>2, <1>3, <1>4 DEF BooksExact, CircularExact
  <1> QED
    BY <1>2, <1>3, <1>4, <1>5, <1>6 DEF BooksExact, e

LEMMA DequeueCircular ==
    ASSUME NEW r, NEW t, ClassExact(t), NEW Q \in SUBSET Task, NEW c,
           BooksExact(r, t, Q, c), NEW p \in Q, t[p].sched_class = "circular"
    PROVE  LET e == dequeue_task_circular(r, p)
           IN  /\ BooksExact(e, t, Q \ {p}, c) /\ SameOutside(e, r)
               /\ Removed(r.ring, e.ring, p)
               /\ p = c => e.ring = r.ring
  <1> DEFINE e == dequeue_task_circular(r, p)
  <1>1. /\ r \in RqType /\ r.circ_curr = c /\ r.se_on_rq = Circ(t, Q) /\ r.fault = "none"
        /\ Elems(r.ring) = Circ(t, Q) \ {c} /\ Distinct(r.ring) /\ r.ring \in Seq(Task)
        /\ p # c => p \in Elems(r.ring)
    BY DEF BooksExact, CircularExact, RqType, Circ
  <1>2. PICK ring \in Seq(Task) :
        /\ Elems(ring) = (Circ(t, Q) \ {p}) \ {c} /\ Distinct(ring)
        /\ e = [r EXCEPT !.ring = ring, !.circ_nr = @ - 1, !.se_on_rq = @ \ {p},
                         !.nr_running = @ - 1]
        /\ Removed(r.ring, ring, p)
        /\ p = c => ring = r.ring
    <2>1. CASE p = c
      <3>1. e = [r EXCEPT !.se_on_rq = @ \ {p}, !.circ_nr = @ - 1, !.nr_running = @ - 1]
        BY <1>1, <2>1 DEF dequeue_task_circular
      <3>2. e = [r EXCEPT !.ring = r.ring, !.circ_nr = @ - 1, !.se_on_rq = @ \ {p},
                          !.nr_running = @ - 1]
        BY <1>1, <3>1 DEF RqType
      <3>3. Elems(r.ring) = (Circ(t, Q) \ {p}) \ {c}
        BY <1>1, <2>1
      <3> QED
        BY <1>1, <3>2, <3>3 DEF Removed
    <2>2. CASE p # c
      <3>1. circularlist_remove(r, p) = [r EXCEPT !.ring = Delete(r.ring, p)]
        BY <1>1, <2>2 DEF circularlist_remove
      <3>2. e = [r EXCEPT !.ring = Delete(r.ring, p), !.circ_nr = @ - 1,
                          !.se_on_rq = @ \ {p}, !.nr_running = @ - 1]
        BY <1>1, <2>2, <3>1 DEF dequeue_task_circular, RqType
      <3>3. /\ Delete(r.ring, p) \in Seq(Task) /\ Distinct(Delete(r.ring, p))
            /\ Elems(Delete(r.ring, p)) = Elems(r.ring) \ {p}
        BY <1>1, DeleteFacts
      <3>4. Elems(Delete(r.ring, p)) = (Circ(t, Q) \ {p}) \ {c}
        BY <1>1, <3>3
      <3> QED
        BY <2>2, <3>2, <3>3, <3>4 DEF Removed
    <2> QED
      BY <2>1, <2>2
  <1> HIDE DEF e
  <1>3. /\ IsFiniteSet(Q \ {p}) /\ Cardinality(Q \ {p}) = Cardinality(Q) - 1
        /\ Cardinality(Q \ {p}) \in Nat
        /\ Circ(t, Q \ {p}) = Circ(t, Q) \ {p} /\ Rt(t, Q \ {p}) = Rt(t, Q)
        /\ Cardinality(Circ(t, Q) \ {p}) = Cardinality(Circ(t, Q)) - 1
        /\ Cardinality(Circ(t, Q) \ {p}) \in Nat
    <2>1. IsFiniteSet(Q)
      BY DEF BooksExact
    <2>2. Circ(t, Q \ {p}) = Circ(t, Q) \ {p} /\ Rt(t, Q \ {p}) = Rt(t, Q)
      BY DEF Circ, Rt
    <2>3. /\ IsFiniteSet(Q \ {p}) /\ Cardinality(Q \ {p}) = Cardinality(Q) - 1
          /\ Cardinality(Q \ {p}) \in Nat
          /\ Cardinality(Circ(t, Q) \ {p}) = Cardinality(Circ(t, Q)) - 1
          /\ Cardinality(Circ(t, Q) \ {p}) \in Nat
      BY <2>1, Shrink, ZenonT(60)
    <2> QED
      BY <2>2, <2>3
  <1>4. r.circ_nr - 1 \in Nat /\ r.nr_running - 1 \in Nat /\ r.se_on_rq \ {p} \in SUBSET Task
    BY <1>1, <1>3 DEF BooksExact, CircularExact, RqType
  <1>5. /\ e \in RqType /\ e.ring = ring /\ e.circ_nr = r.circ_nr - 1
        /\ e.se_on_rq = r.se_on_rq \ {p} /\ e.nr_running = r.nr_running - 1
        /\ e.fault = r.fault /\ e.circ_curr = r.circ_curr
        /\ e.queue = r.queue /\ e.bitmap = r.bitmap /\ e.rt_nr = r.rt_nr
        /\ e.rt_queued = r.rt_queued /\ SameOutside(e, r)
    BY <1>1, <1>2, <1>4 DEF RqType, SameOutside
  <1>6. RtExact(e, t, Q \ {p})
    <2>1. RtExact(r, t, Q)
      BY DEF BooksExact
    <2> QED
      BY <1>5, <1>3, <2>1, RtFrame
  <1>7. CircularExact(e, t, Q \ {p}, c)
    BY <1>1, <1>2, <1>5, <1>3 DEF BooksExact, CircularExact
  <1> QED
    BY <1>2, <1>5, <1>6, <1>7, <1>3 DEF BooksExact, e

\* Another task is the running one of the class, or none is.
LEMMA RingChanges ==
    ASSUME NEW r, NEW t, NEW Q, NEW c, BooksExact(r, t, Q, c),
           NEW ring \in Seq(Task), Distinct(ring), NEW d \in Task \cup {NULL},
           Elems(ring) = Circ(t, Q) \ {d},
           NEW e, e = [r EXCEPT !.ring = ring, !.circ_curr = d]
    PROVE  BooksExact(e, t, Q, d) /\ SameOutside(e, r)
  <1>1. r \in RqType /\ IsFiniteSet(Q) /\ RtExact(r, t, Q) /\ r.nr_running = Cardinality(Q)
    BY DEF BooksExact
  <1>2. r.fault = "none" /\ r.se_on_rq = Circ(t, Q) /\ r.circ_nr = Cardinality(Circ(t, Q))
    BY DEF BooksExact, CircularExact
  <1>3. /\ e \in RqType /\ e.ring = ring /\ e.circ_curr = d
        /\ e.se_on_rq = r.se_on_rq /\ e.nr_running = r.nr_running
        /\ e.fault = r.fault /\ e.circ_nr = r.circ_nr
        /\ e.queue = r.queue /\ e.bitmap = r.bitmap /\ e.rt_nr = r.rt_nr
        /\ e.rt_queued = r.rt_queued /\ SameOutside(e, r)
    BY <1>1 DEF RqType, SameOutside
  <1>4. CircularExact(e, t, Q, d)
    BY <1>2, <1>3 DEF CircularExact
  <1>5. RtExact(e, t, Q)
    BY <1>1, <1>3 DEF RtExact
  <1> QED
    BY <1>1, <1>3, <1>4, <1>5 DEF BooksExact

LEMMA PutPrevCircular ==
    ASSUME NEW r, NEW t, NEW Q \in SUBSET Task, NEW c \in Task, BooksExact(r, t, Q, c)
    PROVE  LET e == put_prev_task_circular(r, c)
           IN  /\ BooksExact(e, t, Q, NULL) /\ SameOutside(e, r)
               /\ Appended(r.ring, e.ring, c)
               /\ c \notin Q => e.ring = r.ring
  <1> DEFINE e == put_prev_task_circular(r, c)
  <1>1. /\ r \in RqType /\ r.circ_curr = c /\ r.se_on_rq = Circ(t, Q)
        /\ Elems(r.ring) = Circ(t, Q) \ {c} /\ Distinct(r.ring) /\ r.ring \in Seq(Task)
    BY DEF BooksExact, CircularExact, RqType
  <1>2. NULL \notin Circ(t, Q) /\ Circ(t, Q) \ {NULL} = Circ(t, Q)
    BY NameAssumption DEF Circ
  <1>3. PICK ring \in Seq(Task) :
        /\ Elems(ring) = Circ(t, Q) \ {NULL} /\ Distinct(ring)
        /\ e = [r EXCEPT !.ring = ring, !.circ_curr = NULL]
        /\ Appended(r.ring, ring, c)
        /\ c \notin Q => ring = r.ring
    <2>1. CASE c \in r.se_on_rq
      <3>1. circularlist_insert(r, c) = [r EXCEPT !.ring = Append(r.ring, c)]
        BY <1>1 DEF circularlist_insert
      <3>2. e = [r EXCEPT !.ring = Append(r.ring, c), !.circ_curr = NULL]
        BY <1>1, <2>1, <3>1 DEF put_prev_task_circular, RqType
      <3>3. /\ Append(r.ring, c) \in Seq(Task) /\ Distinct(Append(r.ring, c))
            /\ Elems(Append(r.ring, c)) = Elems(r.ring) \cup {c}
        BY <1>1, AppendFacts
      <3>4. Elems(Append(r.ring, c)) = Circ(t, Q)
        BY <1>1, <2>1, <3>3
      <3> QED
        BY <1>1, <1>2, <2>1, <3>2, <3>3, <3>4 DEF Appended, Circ
    <2>2. CASE c \notin r.se_on_rq
      <3>1. e = [r EXCEPT !.circ_curr = NULL]
        BY <2>2 DEF put_prev_task_circular
      <3>2. e = [r EXCEPT !.ring = r.ring, !.circ_curr = NULL]
        BY <1>1, <3>1 DEF RqType
      <3>3. Elems(r.ring) = Circ(t, Q)
        BY <1>1, <2>2
      <3> QED
        BY <1>1, <1>2, <3>2, <3>3 DEF Appended
    <2> QED
      BY <2>1, <2>2
  <1> HIDE DEF e
  <1>4. BooksExact(e, t, Q, NULL) /\ SameOutside(e, r)
    BY <1>3, RingChanges
  <1>5. e.ring = ring
    BY <1>1, <1>3 DEF RqType
  <1> QED
    BY <1>3, <1>4, <1>5 DEF e

LEMMA SetNextEntity ==
    ASSUME NEW r, NEW t, NEW Q \in SUBSET Task, BooksExact(r, t, Q, NULL), NEW p \in Task
    PROVE  LET e == set_next_entity(r, p)
           IN  /\ BooksExact(e, t, Q, p) /\ SameOutside(e, r)
               /\ Removed(r.ring, e.ring, p)
               /\ p \notin Q => e.ring = r.ring
  <1> DEFINE e == set_next_entity(r, p)
  <1>1. /\ r \in RqType /\ r.se_on_rq = Circ(t, Q)
        /\ Elems(r.ring) = Circ(t, Q) \ {NULL} /\ Distinct(r.ring) /\ r.ring \in Seq(Task)
    BY DEF BooksExact, CircularExact, RqType
  <1>2. Elems(r.ring) = Circ(t, Q)
    <2>1. NULL \notin Circ(t, Q)
      BY NameAssumption DEF Circ
    <2> QED
      BY <1>1, <2>1
  <1>3. PICK ring \in Seq(Task) :
        /\ Elems(ring) = Circ(t, Q) \ {p} /\ Distinct(ring)
        /\ e = [r EXCEPT !.ring = ring, !.circ_curr = p]
        /\ Removed(r.ring, ring, p)
        /\ p \notin Q => ring = r.ring
    <2>1. CASE p \in r.se_on_rq
      <3>1. circularlist_remove(r, p) = [r EXCEPT !.ring = Delete(r.ring, p)]
        BY <1>1, <1>2, <2>1 DEF circularlist_remove
      <3>2. e = [r EXCEPT !.ring = Delete(r.ring, p), !.circ_curr = p]
        BY <1>1, <2>1, <3>1 DEF set_next_entity, RqType
      <3>3. /\ Delete(r.ring, p) \in Seq(Task) /\ Distinct(Delete(r.ring, p))
            /\ Elems(Delete(r.ring, p)) = Elems(r.ring) \ {p}
        BY <1>1, DeleteFacts
      <3> QED
        BY <1>1, <1>2, <2>1, <3>2, <3>3 DEF Removed, Circ
    <2>2. CASE p \notin r.se_on_rq
      <3>1. e = [r EXCEPT !.circ_curr = p]
        BY <2>2 DEF set_next_entity
      <3>2. e = [r EXCEPT !.ring = r.ring, !.circ_curr = p]
        BY <1>1, <3>1 DEF RqType
      <3>3. Elems(r.ring) = Circ(t, Q) \ {p}
        BY <1>1, <1>2, <2>2
      <3> QED
        BY <1>1, <3>2, <3>3 DEF Removed
    <2> QED
      BY <2>1, <2>2
  <1> HIDE DEF e
  <1>4. BooksExact(e, t, Q, p) /\ SameOutside(e, r)
    BY <1>3, RingChanges
  <1>5. e.ring = ring
    BY <1>1, <1>3 DEF RqType
  <1> QED
    BY <1>3, <1>4, <1>5 DEF e

-----------------------------------------------------------------------------
(* rt.c *)

\* The fields that the real-time class does not touch.
SameCircular(a, b) ==
    /\ a.ring = b.ring /\ a.circ_curr = b.circ_curr /\ a.circ_nr = b.circ_nr
    /\ a.se_on_rq = b.se_on_rq /\ a.fault = b.fault

LEMMA EnqueueRt ==
    ASSUME NEW r, NEW t, ClassExact(t), NEW Q \in SUBSET Task, NEW c,
           BooksExact(r, t, Q, c), NEW p \in Task, p \notin Q, t[p].sched_class = "rt",
           NEW head
    PROVE  LET e == enqueue_task_rt(r, t, p, head)
           IN  BooksExact(e, t, Q \cup {p}, c) /\ SameOutside(e, r) /\ SameCircular(e, r)
  <1> DEFINE e == enqueue_task_rt(r, t, p, head)
             prio == t[p].prio
             list == IF head THEN <<p>> \o r.queue[prio] ELSE Append(r.queue[prio], p)
             queue == [r.queue EXCEPT ![prio] = list]
  <1>1. /\ r \in RqType /\ r.rt_nr \in Nat /\ r.nr_running \in Nat /\ r.rt_queued \in BOOLEAN
        /\ r.queue \in [RtPrio -> Seq(Task)] /\ r.bitmap \subseteq RtPrio
        /\ prio \in RtPrio /\ IsFiniteSet(Q)
        /\ r.rt_queued <=> r.rt_nr # 0
    BY ClassFacts DEF BooksExact, RtExact, RqType
  <1>2. RtExact(r, t, Q) /\ CircularExact(r, t, Q, c) /\ r.nr_running = Cardinality(Q)
    BY DEF BooksExact
  <1>3. \A i \in RtPrio : p \notin Elems(r.queue[i])
    BY <1>2 DEF RtExact, Rt
  <1> HIDE DEF prio
  <1>4. e = [r EXCEPT !.queue = queue, !.bitmap = @ \cup {prio}, !.rt_nr = @ + 1,
                      !.nr_running = @ + 1, !.rt_queued = TRUE]
    <2>1. ~ on_rt_rq(r, p)
      BY <1>3 DEF on_rt_rq
    <2> DEFINE top == dequeue_top_rt_rq(r)
    <2>2. /\ top = [r EXCEPT !.nr_running = r.nr_running - r.rt_nr, !.rt_queued = FALSE]
      <3>1. CASE r.rt_queued
        BY <3>1 DEF dequeue_top_rt_rq
      <3>2. CASE ~ r.rt_queued
        <4>1. r.rt_nr = 0 /\ r.nr_running - r.rt_nr = r.nr_running /\ r.rt_queued = FALSE
          BY <1>1, <3>2
        <4>2. top = r
          BY <3>2 DEF dequeue_top_rt_rq
        <4> QED
          BY <1>1, <4>1, <4>2 DEF RqType
      <3> QED
        BY <3>1, <3>2
    <2>3. dequeue_rt_stack(r, t, p) = top
      BY <2>1 DEF dequeue_rt_stack
    <2> HIDE DEF top
    <2> DEFINE one == enqueue_one_rt_entity(top, t, p, head)
    <2>4. one = [r EXCEPT !.queue = queue, !.bitmap = @ \cup {prio}, !.rt_nr = @ + 1,
                          !.nr_running = r.nr_running - r.rt_nr, !.rt_queued = FALSE]
      BY <1>1, <2>2 DEF enqueue_one_rt_entity, RqType, prio
    <2>5. e = enqueue_top_rt_rq(one)
      BY <2>3 DEF enqueue_task_rt
    <2> HIDE DEF one, queue, e
    <2>6. /\ one.rt_nr = r.rt_nr + 1 /\ one.rt_nr # 0 /\ one.rt_queued = FALSE
          /\ one.nr_running + one.rt_nr = r.nr_running + 1
      <3>1. /\ one.rt_nr = r.rt_nr + 1 /\ one.rt_queued = FALSE
            /\ one.nr_running = r.nr_running - r.rt_nr
        BY <1>1, <2>4 DEF RqType
      <3> QED
        BY <1>1, <3>1
    <2>7. e = [one EXCEPT !.nr_running = one.nr_running + one.rt_nr, !.rt_queued = TRUE]
      BY <2>5, <2>6 DEF enqueue_top_rt_rq
    <2> QED
      BY <1>1, <2>4, <2>6, <2>7 DEF RqType
  <1> HIDE DEF e
  <1>5. /\ list \in Seq(Task) /\ Distinct(list) /\ Elems(list) = Elems(r.queue[prio]) \cup {p}
    <2>1. r.queue[prio] \in Seq(Task) /\ Distinct(r.queue[prio]) /\ p \notin Elems(r.queue[prio])
      BY <1>1, <1>2, <1>3 DEF RtExact
    <2> QED
      BY <2>1, AppendFacts, PrependFacts
  <1> HIDE DEF list
  <1>6. /\ queue \in [RtPrio -> Seq(Task)] /\ queue[prio] = list
        /\ \A i \in RtPrio : i # prio => queue[i] = r.queue[i]
    BY <1>1, <1>5
  <1> HIDE DEF queue
  <1>7. /\ e \in RqType /\ e.queue = queue /\ e.bitmap = r.bitmap \cup {prio}
        /\ e.rt_nr = r.rt_nr + 1 /\ e.nr_running = r.nr_running + 1 /\ e.rt_queued
        /\ SameCircular(e, r) /\ SameOutside(e, r)
    <2>1. r.rt_nr + 1 \in Nat /\ r.nr_running + 1 \in Nat /\ r.bitmap \cup {prio} \in SUBSET RtPrio
      BY <1>1
    <2> QED
      BY <1>1, <1>4, <1>6, <2>1 DEF RqType, SameCircular, SameOutside
  <1>8. /\ IsFiniteSet(Q \cup {p}) /\ Cardinality(Q \cup {p}) = Cardinality(Q) + 1
        /\ Cardinality(Rt(t, Q) \cup {p}) = Cardinality(Rt(t, Q)) + 1
    <2>1. IsFiniteSet(Rt(t, Q)) /\ p \notin Rt(t, Q)
      BY <1>1, PartsFinite DEF Rt
    <2> QED
      BY <1>1, <2>1, FS_AddElement
  <1>9. Circ(t, Q \cup {p}) = Circ(t, Q) /\ Rt(t, Q \cup {p}) = Rt(t, Q) \cup {p}
    BY DEF Circ, Rt
  <1>10. CircularExact(e, t, Q \cup {p}, c)
    BY <1>2, <1>7, <1>9, CircularFrame DEF SameCircular
  <1>11. RtExact(e, t, Q \cup {p})
    <2>1. ASSUME NEW i \in RtPrio
          PROVE  /\ Elems(queue[i]) = {q \in Rt(t, Q) \cup {p} : t[q].prio = i}
                 /\ Distinct(queue[i])
      <3>1. Elems(r.queue[i]) = {q \in Rt(t, Q) : t[q].prio = i} /\ Distinct(r.queue[i])
        BY <1>2 DEF RtExact
      <3>2. CASE i = prio
        BY <1>5, <1>6, <3>1, <3>2 DEF prio
      <3>3. CASE i # prio
        BY <1>6, <3>1, <3>3 DEF prio
      <3> QED
        BY <3>2, <3>3
    <2>2. e.bitmap = {t[q].prio : q \in Rt(t, Q) \cup {p}}
      BY <1>2, <1>7 DEF RtExact, prio
    <2>3. e.rt_nr = Cardinality(Rt(t, Q) \cup {p}) /\ e.rt_nr # 0
      BY <1>1, <1>2, <1>7, <1>8 DEF RtExact
    <2> QED
      BY <1>7, <1>9, <2>1, <2>2, <2>3 DEF RtExact
  <1> QED
    BY <1>2, <1>7, <1>8, <1>10, <1>11 DEF BooksExact, e

LEMMA DequeueRt ==
    ASSUME NEW r, NEW t, ClassExact(t), NEW Q \in SUBSET Task, NEW c,
           BooksExact(r, t, Q, c), NEW p \in Q, t[p].sched_class = "rt"
    PROVE  LET e == dequeue_task_rt(r, t, p)
           IN  BooksExact(e, t, Q \ {p}, c) /\ SameOutside(e, r) /\ SameCircular(e, r)
  <1> DEFINE e == dequeue_task_rt(r, t, p)
             prio == t[p].prio
             queue == [i \in RtPrio |-> Delete(r.queue[i], p)]
             bitmap == IF queue[prio] = <<>> THEN r.bitmap \ {prio} ELSE r.bitmap
  <1>1. /\ r \in RqType /\ r.rt_nr \in Nat /\ r.nr_running \in Nat /\ r.rt_queued \in BOOLEAN
        /\ r.queue \in [RtPrio -> Seq(Task)] /\ r.bitmap \subseteq RtPrio
        /\ prio \in RtPrio /\ IsFiniteSet(Q)
    BY ClassFacts DEF BooksExact, RtExact, RqType
  <1>2. RtExact(r, t, Q) /\ CircularExact(r, t, Q, c) /\ r.nr_running = Cardinality(Q)
    BY DEF BooksExact
  <1>3. p \in Rt(t, Q) /\ p \in Elems(r.queue[prio])
    BY <1>1, <1>2 DEF RtExact, Rt
  <1>4. /\ IsFiniteSet(Q \ {p}) /\ Cardinality(Q \ {p}) = Cardinality(Q) - 1
        /\ Cardinality(Q \ {p}) \in Nat
        /\ Cardinality(Rt(t, Q) \ {p}) = Cardinality(Rt(t, Q)) - 1
        /\ Cardinality(Rt(t, Q) \ {p}) \in Nat
    <2>1. IsFiniteSet(Q)
      BY <1>1
    <2> QED
      BY ONLY <2>1, Shrink, p \in Q, t[p].sched_class = "rt", ZenonT(60)
  <1>5. /\ r.rt_nr = Cardinality(Rt(t, Q)) /\ r.rt_nr - 1 \in Nat /\ r.nr_running - 1 \in Nat
        /\ r.rt_nr # 0 /\ r.rt_queued
    BY <1>1, <1>2, <1>4 DEF RtExact
  <1> HIDE DEF prio
  <1>6. e = [r EXCEPT !.queue = queue, !.bitmap = bitmap, !.rt_nr = r.rt_nr - 1,
                      !.nr_running = r.nr_running - 1, !.rt_queued = (r.rt_nr - 1 # 0)]
    <2>1. on_rt_rq(r, p)
      BY <1>1, <1>3 DEF on_rt_rq
    <2> DEFINE top == dequeue_top_rt_rq(r)
               one == dequeue_one_rt_entity(top, t, p)
    <2>2. top = [r EXCEPT !.nr_running = r.nr_running - r.rt_nr, !.rt_queued = FALSE]
      BY <1>5 DEF dequeue_top_rt_rq
    <2>3. e = enqueue_top_rt_rq(one)
      BY <2>1 DEF dequeue_rt_stack, dequeue_task_rt
    <2> HIDE DEF top
    <2>4. top.queue = r.queue /\ top.bitmap = r.bitmap /\ top.rt_nr = r.rt_nr
      BY <1>1, <2>2 DEF RqType
    <2>5. one = [top EXCEPT !.queue = queue, !.bitmap = bitmap, !.rt_nr = r.rt_nr - 1]
      BY <2>4 DEF dequeue_one_rt_entity, prio
    <2> HIDE DEF one, queue, bitmap, e
    <2>6. one = [r EXCEPT !.queue = queue, !.bitmap = bitmap, !.rt_nr = r.rt_nr - 1,
                          !.nr_running = r.nr_running - r.rt_nr, !.rt_queued = FALSE]
      BY <1>1, <2>2, <2>5 DEF RqType
    <2>7. /\ one.rt_nr = r.rt_nr - 1 /\ one.rt_queued = FALSE
          /\ one.nr_running = r.nr_running - r.rt_nr
      BY <1>1, <2>6 DEF RqType
    <2>8. CASE r.rt_nr - 1 = 0
      <3>1. e = one
        BY <2>3, <2>7, <2>8 DEF enqueue_top_rt_rq
      <3>2. r.nr_running - r.rt_nr = r.nr_running - 1 /\ FALSE = (r.rt_nr - 1 # 0)
        BY <1>1, <2>8
      <3> QED
        BY <2>6, <3>1, <3>2
    <2>9. CASE r.rt_nr - 1 # 0
      <3>1. e = [one EXCEPT !.nr_running = one.nr_running + one.rt_nr, !.rt_queued = TRUE]
        BY <2>3, <2>7, <2>9 DEF enqueue_top_rt_rq
      <3>2. one.nr_running + one.rt_nr = r.nr_running - 1 /\ TRUE = (r.rt_nr - 1 # 0)
        BY <1>1, <2>7, <2>9
      <3> QED
        BY <1>1, <2>6, <3>1, <3>2 DEF RqType
    <2> QED
      BY <2>8, <2>9
  <1> HIDE DEF e
  <1>7. /\ queue \in [RtPrio -> Seq(Task)]
        /\ \A i \in RtPrio : Elems(queue[i]) = Elems(r.queue[i]) \ {p} /\ Distinct(queue[i])
    <2>1. ASSUME NEW i \in RtPrio
          PROVE  /\ Delete(r.queue[i], p) \in Seq(Task) /\ Distinct(Delete(r.queue[i], p))
                 /\ Elems(Delete(r.queue[i], p)) = Elems(r.queue[i]) \ {p}
      <3>1. r.queue[i] \in Seq(Task) /\ Distinct(r.queue[i])
        BY <1>1, <1>2 DEF RtExact
      <3> QED
        BY <3>1, DeleteFacts
    <2> QED
      BY <2>1
  <1> HIDE DEF queue
  <1>8. bitmap \in SUBSET RtPrio
    BY <1>1
  <1>9. /\ e \in RqType /\ e.queue = queue /\ e.bitmap = bitmap
        /\ e.rt_nr = r.rt_nr - 1 /\ e.nr_running = r.nr_running - 1
        /\ e.rt_queued <=> e.rt_nr # 0
        /\ SameCircular(e, r) /\ SameOutside(e, r)
    <2> HIDE DEF bitmap
    <2>1. (r.rt_nr - 1 # 0) \in BOOLEAN
      OBVIOUS
    <2> QED
      BY <1>1, <1>5, <1>6, <1>7, <1>8, <2>1 DEF RqType, SameCircular, SameOutside
  <1>10. Circ(t, Q \ {p}) = Circ(t, Q) /\ Rt(t, Q \ {p}) = Rt(t, Q) \ {p}
    BY DEF Circ, Rt
  <1>11. CircularExact(e, t, Q \ {p}, c)
    BY <1>2, <1>9, <1>10, CircularFrame DEF SameCircular
  <1>12. RtExact(e, t, Q \ {p})
    <2>1. ASSUME NEW i \in RtPrio
          PROVE  Elems(queue[i]) = {q \in Rt(t, Q) \ {p} : t[q].prio = i}
      BY <1>2, <1>7 DEF RtExact
    <2>2. bitmap = {t[q].prio : q \in Rt(t, Q) \ {p}}
      <3>1. queue[prio] = <<>> <=> {q \in Rt(t, Q) \ {p} : t[q].prio = prio} = {}
        <4>1. queue[prio] = <<>> <=> Elems(queue[prio]) = {}
          BY <1>1, <1>7, HeadFacts
        <4> QED
          BY <1>1, <2>1, <4>1
      <3>2. r.bitmap = {t[q].prio : q \in Rt(t, Q)}
        BY <1>2 DEF RtExact
      <3>3. CASE queue[prio] = <<>>
        BY <3>1, <3>2, <3>3 DEF prio
      <3>4. CASE queue[prio] # <<>>
        <4>1. PICK q \in Rt(t, Q) \ {p} : t[q].prio = prio
          BY <3>1, <3>4
        <4> QED
          BY <3>2, <3>4, <4>1 DEF prio
      <3> QED
        BY <3>3, <3>4
    <2>3. e.rt_nr = Cardinality(Rt(t, Q) \ {p})
      BY <1>4, <1>5, <1>9
    <2> QED
      BY <1>7, <1>9, <1>10, <2>1, <2>2, <2>3 DEF RtExact
  <1> QED
    BY <1>2, <1>4, <1>9, <1>11, <1>12 DEF BooksExact, e

\* A task that goes to the end of its list stays on it.
LEMMA RequeueRt ==
    ASSUME NEW r, NEW t, ClassExact(t), NEW Q \in SUBSET Task, NEW c,
           BooksExact(r, t, Q, c), NEW p \in Task, t[p].sched_class = "rt"
    PROVE  LET e == requeue_task_rt(r, t, p)
           IN  BooksExact(e, t, Q, c) /\ SameOutside(e, r) /\ SameCircular(e, r)
  <1> DEFINE e == requeue_task_rt(r, t, p)
             prio == t[p].prio
             list == Append(Delete(r.queue[prio], p), p)
             queue == [r.queue EXCEPT ![prio] = list]
  <1>1. /\ r \in RqType /\ r.queue \in [RtPrio -> Seq(Task)] /\ prio \in RtPrio
        /\ RtExact(r, t, Q) /\ CircularExact(r, t, Q, c) /\ r.nr_running = Cardinality(Q)
        /\ IsFiniteSet(Q)
    BY ClassFacts DEF BooksExact, RqType
  <1>2. CASE ~ on_rt_rq(r, p)
    BY <1>2 DEF requeue_task_rt, SameOutside, SameCircular
  <1>3. CASE on_rt_rq(r, p)
    <2>1. p \in Elems(r.queue[prio])
      BY <1>1, <1>3 DEF on_rt_rq, RtExact
    <2>2. list \in Seq(Task) /\ Distinct(list) /\ Elems(list) = Elems(r.queue[prio])
      <3> DEFINE rest == Delete(r.queue[prio], p)
      <3>1. r.queue[prio] \in Seq(Task) /\ Distinct(r.queue[prio])
        BY <1>1 DEF RtExact
      <3>2. /\ rest \in Seq(Task) /\ Distinct(rest) /\ Elems(rest) = Elems(r.queue[prio]) \ {p}
        BY <3>1, DeleteFacts
      <3> HIDE DEF rest
      <3>3. p \notin Elems(rest)
        BY <3>2
      <3>4. /\ Append(rest, p) \in Seq(Task) /\ Distinct(Append(rest, p))
            /\ Elems(Append(rest, p)) = Elems(rest) \cup {p}
        BY <3>2, <3>3, AppendFacts
      <3>5. Elems(Append(rest, p)) = Elems(r.queue[prio])
        BY <2>1, <3>2, <3>4
      <3> QED
        BY <3>4, <3>5 DEF rest
    <2>3. e = [r EXCEPT !.queue = queue]
      BY <1>1, <1>3 DEF requeue_task_rt, RqType
    <2> HIDE DEF list, e
    <2>4. /\ queue \in [RtPrio -> Seq(Task)]
          /\ \A i \in RtPrio : Elems(queue[i]) = Elems(r.queue[i])
          /\ \A i \in RtPrio : Distinct(queue[i])
      <3>1. /\ queue \in [RtPrio -> Seq(Task)] /\ queue[prio] = list
            /\ \A i \in RtPrio : i # prio => queue[i] = r.queue[i]
        BY <1>1, <2>2
      <3>2. \A i \in RtPrio : Distinct(r.queue[i])
        BY <1>1 DEF RtExact
      <3> HIDE DEF queue
      <3> QED
        BY <2>2, <3>1, <3>2
    <2> HIDE DEF queue
    <2>5. /\ e \in RqType /\ e.queue = queue /\ e.bitmap = r.bitmap /\ e.rt_nr = r.rt_nr
          /\ e.nr_running = r.nr_running /\ e.rt_queued = r.rt_queued
          /\ SameCircular(e, r) /\ SameOutside(e, r)
      BY <1>1, <2>3, <2>4 DEF RqType, SameCircular, SameOutside
    <2>6. RtExact(e, t, Q)
      BY <1>1, <2>4, <2>5 DEF RtExact
    <2>7. CircularExact(e, t, Q, c)
      BY <1>1, <2>5 DEF CircularExact, SameCircular
    <2> QED
      BY <1>1, <2>5, <2>6, <2>7 DEF BooksExact, e
  <1> QED
    BY <1>2, <1>3

-----------------------------------------------------------------------------
(* core.c: the calls through p->sched_class *)

LEMMA EnqueueTask ==
    ASSUME NEW r, NEW t, ClassExact(t), NEW Q \in SUBSET Task, NEW c,
           BooksExact(r, t, Q, c), NEW p \in Task, p \notin Q, NEW head
    PROVE  LET e == enqueue_task(r, t, p, head)
           IN  /\ BooksExact(e, t, Q \cup {p}, c) /\ SameOutside(e, r)
               /\ Appended(r.ring, e.ring, p)
               /\ p = c \/ t[p].sched_class = "rt" => e.ring = r.ring
  <1>1. CASE t[p].sched_class = "rt"
    BY <1>1, EnqueueRt DEF enqueue_task, SameCircular, Appended
  <1>2. CASE t[p].sched_class # "rt"
    <2>1. t[p].sched_class = "circular" /\ p \in Task \ Q
      BY <1>2, ClassFacts
    <2>2. enqueue_task(r, t, p, head) = enqueue_task_circular(r, p)
      BY <1>2 DEF enqueue_task
    <2> QED
      BY <2>1, <2>2, EnqueueCircular
  <1> QED
    BY <1>1, <1>2

LEMMA DequeueTask ==
    ASSUME NEW r, NEW t, ClassExact(t), NEW Q \in SUBSET Task, NEW c,
           BooksExact(r, t, Q, c), NEW p \in Q
    PROVE  LET e == dequeue_task(r, t, p)
           IN  /\ BooksExact(e, t, Q \ {p}, c) /\ SameOutside(e, r)
               /\ Removed(r.ring, e.ring, p)
               /\ p = c \/ t[p].sched_class = "rt" => e.ring = r.ring
  <1>1. CASE t[p].sched_class = "rt"
    BY <1>1, DequeueRt DEF dequeue_task, SameCircular, Removed
  <1>2. CASE t[p].sched_class # "rt"
    <2>1. t[p].sched_class = "circular"
      BY <1>2, ClassFacts
    <2>2. dequeue_task(r, t, p) = dequeue_task_circular(r, p)
      BY <1>2 DEF dequeue_task
    <2> DEFINE e == dequeue_task_circular(r, p)
    <2>3. /\ BooksExact(e, t, Q \ {p}, c) /\ SameOutside(e, r)
          /\ Removed(r.ring, e.ring, p)
          /\ p = c => e.ring = r.ring
      BY <2>1, DequeueCircular
    <2> HIDE DEF e
    <2> QED
      BY <1>2, <2>2, <2>3 DEF e
  <1> QED
    BY <1>1, <1>2

\* The running task of the circular class, if p is running.
Running(t, p) == IF class_of(t, p) = "circular" THEN p ELSE NULL

LEMMA PutPrevTask ==
    ASSUME NEW r, NEW t, ClassExact(t), NEW Q \in SUBSET Task, NEW p \in Task \cup {IDLE},
           BooksExact(r, t, Q, Running(t, p))
    PROVE  LET e == put_prev_task(r, t, p)
           IN  /\ BooksExact(e, t, Q, NULL) /\ SameOutside(e, r)
               /\ Appended(r.ring, e.ring, p)
               /\ p \notin Q => e.ring = r.ring
  <1>1. CASE class_of(t, p) = "circular"
    <2>1. p \in Task /\ Running(t, p) = p
      BY <1>1 DEF class_of, Running
    <2> QED
      BY <1>1, <2>1, PutPrevCircular DEF put_prev_task
  <1>2. CASE class_of(t, p) # "circular"
    BY <1>2 DEF put_prev_task, Running, SameOutside, Appended
  <1> QED
    BY <1>1, <1>2

LEMMA SetCurrTask ==
    ASSUME NEW r, NEW t, ClassExact(t), NEW Q \in SUBSET Task, NEW p \in Task,
           BooksExact(r, t, Q, NULL)
    PROVE  LET e == set_curr_task(r, t, p)
           IN  /\ BooksExact(e, t, Q, Running(t, p)) /\ SameOutside(e, r)
               /\ Removed(r.ring, e.ring, p)
               /\ p \notin Q => e.ring = r.ring
  <1>1. class_of(t, p) = t[p].sched_class
    BY NameAssumption DEF class_of
  <1>2. CASE t[p].sched_class = "circular"
    BY <1>1, <1>2, SetNextEntity DEF set_curr_task, Running
  <1>3. CASE t[p].sched_class # "circular"
    BY <1>1, <1>3 DEF set_curr_task, Running, SameOutside, Removed
  <1> QED
    BY <1>2, <1>3

-----------------------------------------------------------------------------
(* What the books do not depend on *)

LEMMA BooksFrame ==
    ASSUME NEW a \in RqType, NEW b, NEW t, NEW Q, NEW c, BooksExact(b, t, Q, c),
           SameCircular(a, b), a.nr_running = b.nr_running,
           a.queue = b.queue, a.bitmap = b.bitmap, a.rt_nr = b.rt_nr,
           a.rt_queued = b.rt_queued
    PROVE  BooksExact(a, t, Q, c)
  <1>1. RtExact(a, t, Q)
    BY DEF BooksExact, RtExact
  <1>2. CircularExact(a, t, Q, c)
    BY DEF BooksExact, CircularExact, SameCircular
  <1> QED
    BY <1>1, <1>2 DEF BooksExact

LEMMA ReschedBooks ==
    ASSUME NEW r, NEW t, NEW Q, NEW c, BooksExact(r, t, Q, c)
    PROVE  LET e == resched_curr(r)
           IN  /\ BooksExact(e, t, Q, c) /\ e.need_resched
               /\ e.curr = r.curr /\ e.on_rq = r.on_rq /\ e.ring = r.ring
  <1> DEFINE e == resched_curr(r)
  <1>1. r \in RqType
    BY DEF BooksExact
  <1>2. /\ e \in RqType /\ SameCircular(e, r) /\ e.nr_running = r.nr_running
        /\ e.queue = r.queue /\ e.bitmap = r.bitmap /\ e.rt_nr = r.rt_nr
        /\ e.rt_queued = r.rt_queued
        /\ e.need_resched /\ e.curr = r.curr /\ e.on_rq = r.on_rq
    BY <1>1 DEF RqType, resched_curr, SameCircular
  <1> HIDE DEF e
  <1>3. BooksExact(e, t, Q, c)
    BY <1>2, BooksFrame
  <1> QED
    BY <1>2, <1>3 DEF e, SameCircular

\* Only the class and the priority of the queued tasks matter.
LEMMA Reattribute ==
    ASSUME NEW r, NEW t, NEW new, NEW Q, NEW c, BooksExact(r, t, Q, c),
           \A p \in Q : new[p].sched_class = t[p].sched_class /\ new[p].prio = t[p].prio
    PROVE  BooksExact(r, new, Q, c)
  <1>1. Circ(new, Q) = Circ(t, Q) /\ Rt(new, Q) = Rt(t, Q)
    BY DEF Circ, Rt
  <1>2. \A p \in Rt(t, Q) : new[p].prio = t[p].prio
    BY DEF Rt
  <1>3. RtExact(r, new, Q)
    BY <1>1, <1>2, RtFrame DEF BooksExact
  <1>4. CircularExact(r, new, Q, c)
    BY <1>1, CircularFrame DEF BooksExact
  <1> QED
    BY <1>3, <1>4 DEF BooksExact

-----------------------------------------------------------------------------
(* Preemption *)

\* Beats() for any attributes.
Better(t, p, q) ==
    \/ Rank(class_of(t, p)) < Rank(class_of(t, q))
    \/ /\ class_of(t, p) = "rt" /\ class_of(t, q) = "rt"
       /\ t[p].prio < t[q].prio

Pending(r, t) == \A p \in r.on_rq : Better(t, p, r.curr) => r.need_resched

\* Going by the priority alone is enough, although classes come first.
LEMMA BetterFacts ==
    ASSUME NEW t, ClassExact(t), NEW p \in Task
    PROVE  /\ Better(t, p, IDLE)
           /\ \A q \in Task : Better(t, p, q) <=> /\ t[p].sched_class = "rt"
                                                  /\ t[p].prio < t[q].prio
  <1>1. p # IDLE /\ class_of(t, p) = t[p].sched_class /\ class_of(t, IDLE) = "idle"
    BY NameAssumption DEF class_of
  <1>2. t[p].sched_class = "rt" \/ t[p].sched_class = "circular"
    BY ClassFacts
  <1>3. Better(t, p, IDLE)
    BY <1>1, <1>2 DEF Better, Rank
  <1>4. ASSUME NEW q \in Task
        PROVE  Better(t, p, q) <=> t[p].sched_class = "rt" /\ t[p].prio < t[q].prio
    <2>1. class_of(t, q) = t[q].sched_class
      BY NameAssumption DEF class_of
    <2>2. /\ t[p].prio \in Nat /\ t[q].prio \in Nat /\ MAX_RT_PRIO \in Nat
          /\ t[p].sched_class = "rt" <=> t[p].prio < MAX_RT_PRIO
          /\ t[q].sched_class = "rt" <=> t[q].prio < MAX_RT_PRIO
          /\ t[q].sched_class = "rt" \/ t[q].sched_class = "circular"
      BY ClassFacts, SizeAssumption
    <2>3. CASE t[p].sched_class = "circular"
      BY <1>1, <2>1, <2>2, <2>3 DEF Better, Rank
    <2>4. CASE t[p].sched_class = "rt" /\ t[q].sched_class = "rt"
      BY <1>1, <2>1, <2>2, <2>4 DEF Better, Rank
    <2>5. CASE t[p].sched_class = "rt" /\ t[q].sched_class = "circular"
      <3>1. t[p].prio < t[q].prio
        BY <2>2, <2>5
      <3> QED
        BY <1>1, <2>1, <2>5, <3>1 DEF Better, Rank
    <2> QED
      BY <1>2, <2>2, <2>3, <2>4, <2>5
  <1> QED
    BY <1>3, <1>4

\* check_preempt_curr() at most marks the running task, and does it when p beats it.
LEMMA CheckPreempt ==
    ASSUME NEW r, NEW t, ClassExact(t), NEW p \in Task, r.curr \in Task \cup {IDLE}
    PROVE  LET e == check_preempt_curr(r, t, p)
           IN  /\ e = r \/ e = resched_curr(r)
               /\ Better(t, p, r.curr) => e = resched_curr(r)
  <1>1. class_of(t, p) = t[p].sched_class
    BY NameAssumption DEF class_of
  <1>2. t[p].sched_class = "rt" \/ t[p].sched_class = "circular"
    BY ClassFacts
  <1>3. class_of(t, r.curr) \in {"rt", "circular", "idle"}
    BY ClassFacts DEF class_of
  <1>4. CASE t[p].sched_class # class_of(t, r.curr)
    <2> DEFINE class == t[p].sched_class
               running == class_of(t, r.curr)
    <2>1. \/ Rank(class) < Rank(running) /\ ~(Rank(class) > Rank(running))
          \/ ~(Rank(class) < Rank(running)) /\ Rank(class) > Rank(running)
      BY <1>2, <1>4, <1>3 DEF Rank
    <2>2. ~(class = "rt" /\ running = "rt") /\ ~(class = "circular" /\ running = "circular")
      BY <1>4
    <2>3. check_preempt_curr(r, t, p) = IF Rank(class) < Rank(running) THEN resched_curr(r) ELSE r
      BY <2>1, <2>2 DEF check_preempt_curr
    <2> QED
      BY <1>1, <1>4, <2>3 DEF Better
  <1>5. CASE t[p].sched_class = "rt" /\ class_of(t, r.curr) = "rt"
    <2>1. prio_of(t, r.curr) = t[r.curr].prio
      BY <1>5 DEF class_of, prio_of
    <2>2. check_preempt_curr(r, t, p) = check_preempt_curr_rt(r, t, p)
      BY <1>5 DEF check_preempt_curr, Rank
    <2>3. ~ (Rank(class_of(t, p)) < Rank(class_of(t, r.curr)))
      BY <1>1, <1>5 DEF Rank
    <2> QED
      BY <2>1, <2>2, <2>3 DEF check_preempt_curr_rt, Better
  <1>6. CASE t[p].sched_class = "circular" /\ class_of(t, r.curr) = "circular"
    <2>1. check_preempt_curr(r, t, p) = check_preempt_wakeup(r, t, p)
      BY <1>6 DEF check_preempt_curr, Rank
    <2>2. ~ Better(t, p, r.curr)
      BY <1>1, <1>6 DEF Rank, Better
    <2> QED
      BY <2>1, <2>2 DEF check_preempt_wakeup
  <1> QED
    BY <1>2, <1>4, <1>5, <1>6, <1>3

\* The idle task has a priority that is not real-time.
LEMMA IdlePrio == DEFAULT_PRIO \in Nat /\ MAX_RT_PRIO \in Nat /\ MAX_RT_PRIO <= DEFAULT_PRIO
  BY SizeAssumption DEF DEFAULT_PRIO

(***************************************************************************)
(* check_class_changed() at most marks the running task.  It does when p,  *)
(* waiting, has come to beat the running task, and when p, running, has    *)
(* lost priority.                                                          *)
(***************************************************************************)
LEMMA CheckClassChanged ==
    ASSUME NEW r, NEW t, NEW new, ClassExact(t), ClassExact(new), NEW p \in Task,
           r.curr \in Task \cup {IDLE}
    PROVE  LET e == check_class_changed(r, new, p, t[p].sched_class, t[p].prio)
           IN  /\ e = r \/ e = resched_curr(r)
               /\ (/\ p \in r.on_rq /\ p # r.curr /\ t[p].prio # new[p].prio
                   /\ Better(new, p, r.curr)) => e = resched_curr(r)
               /\ (p \in r.on_rq /\ p = r.curr /\ t[p].prio < new[p].prio)
                  => e = resched_curr(r)
  <1> DEFINE e == check_class_changed(r, new, p, t[p].sched_class, t[p].prio)
             check == check_preempt_curr(r, new, p)
  <1>1. /\ t[p].sched_class = "rt" \/ t[p].sched_class = "circular"
        /\ new[p].sched_class = "rt" \/ new[p].sched_class = "circular"
        /\ t[p].prio \in Nat /\ new[p].prio \in Nat /\ MAX_RT_PRIO \in Nat
        /\ t[p].sched_class = "rt" <=> t[p].prio < MAX_RT_PRIO
        /\ new[p].sched_class = "rt" <=> new[p].prio < MAX_RT_PRIO
    BY ClassFacts, IdlePrio
  <1>2. /\ check = r \/ check = resched_curr(r)
        /\ Better(new, p, r.curr) => check = resched_curr(r)
    BY CheckPreempt
  <1> HIDE DEF check
  <1>3. new[p].sched_class = "rt" /\ Better(new, p, r.curr)
          => new[p].prio < prio_of(new, r.curr)
    <2> SUFFICES ASSUME new[p].sched_class = "rt", Better(new, p, r.curr)
                 PROVE  new[p].prio < prio_of(new, r.curr)
      OBVIOUS
    <2>1. CASE r.curr = IDLE
      BY <1>1, <2>1, IdlePrio DEF prio_of
    <2>2. CASE r.curr \in Task
      BY <2>2, BetterFacts, NameAssumption DEF prio_of
    <2> QED
      BY <2>1, <2>2
  <1>4. CASE t[p].sched_class # new[p].sched_class /\ new[p].sched_class = "rt"
    <2>1. e = switched_to_rt(r, new, p)
      BY <1>4 DEF check_class_changed
    <2>2. ~ (t[p].prio < new[p].prio)
      BY <1>1, <1>4
    <2> QED
      BY <1>3, <1>4, <2>1, <2>2 DEF switched_to_rt
  <1>5. CASE t[p].sched_class # new[p].sched_class /\ new[p].sched_class = "circular"
    <2>1. e = switched_to_circular(r, new, p)
      BY <1>5 DEF check_class_changed
    <2> QED
      BY <1>2, <2>1 DEF switched_to_circular, check
  <1>6. CASE t[p].sched_class = new[p].sched_class /\ t[p].prio # new[p].prio
             /\ new[p].sched_class = "rt"
    <2>1. e = prio_changed_rt(r, new, p, t[p].prio)
      BY <1>6 DEF check_class_changed
    <2> QED
      BY <1>3, <1>6, <2>1 DEF prio_changed_rt
  <1>7. CASE t[p].sched_class = new[p].sched_class /\ t[p].prio # new[p].prio
             /\ new[p].sched_class = "circular"
    <2>1. e = prio_changed_circular(r, new, p, t[p].prio)
      BY <1>7 DEF check_class_changed
    <2> QED
      BY <1>1, <1>2, <2>1 DEF prio_changed_circular, check
  <1>8. CASE t[p].sched_class = new[p].sched_class /\ t[p].prio = new[p].prio
    <2>1. e = r
      BY <1>8 DEF check_class_changed
    <2>2. ~ (t[p].prio < new[p].prio)
      BY <1>1, <1>8
    <2> QED
      BY <1>8, <2>1, <2>2
  <1> QED
    BY <1>1, <1>4, <1>5, <1>6, <1>7, <1>8

-----------------------------------------------------------------------------
(* __schedule: choosing the next task *)

LEMMA SwitchFrom ==
    ASSUME NEW r, NEW t, ClassExact(t), NEW Q \in SUBSET Task,
           BooksExact(r, t, Q, Running(t, r.curr))
    PROVE  LET e == switch_from(r, t)
           IN  /\ BooksExact(e, t, Q, Running(t, e.curr))
               /\ e.on_rq = r.on_rq /\ e.curr \in Q \cup {IDLE}
               /\ \A p \in Q : ~ Better(t, p, e.curr)
               /\ KeepsOrder(r.ring, e.ring, {})
               /\ class_of(t, e.curr) = "circular" /\ r.ring # <<>> => e.curr = Head(r.ring)
  <1> DEFINE put == put_prev_task(r, t, r.curr)
             pick == pick_next_task(r, t, r.curr)
  <1>1. /\ r \in RqType /\ r.curr \in Task \cup {IDLE} /\ IsFiniteSet(Q)
        /\ CircularExact(r, t, Q, Running(t, r.curr)) /\ RtExact(r, t, Q)
        /\ r.nr_running = Cardinality(Q)
    BY DEF BooksExact, RqType
  <1>2. BooksExact(put, t, Q, NULL) /\ SameOutside(put, r) /\ Appended(r.ring, put.ring, r.curr)
    BY <1>1, PutPrevTask
  <1>3. \A p \in Q : t[p].sched_class = "rt" \/ t[p].sched_class = "circular"
    BY ClassFacts
  <1>4. /\ r.rt_queued <=> Rt(t, Q) # {}
        /\ r.circ_nr # 0 <=> Circ(t, Q) # {}
        /\ r.nr_running = 0 => Q = {}
    <2>1. IsFiniteSet(Rt(t, Q)) /\ IsFiniteSet(Circ(t, Q))
      BY <1>1, PartsFinite
    <2>2. /\ Cardinality(Rt(t, Q)) = 0 <=> Rt(t, Q) = {}
          /\ Cardinality(Circ(t, Q)) = 0 <=> Circ(t, Q) = {}
          /\ Cardinality(Q) = 0 <=> Q = {}
      BY <1>1, <2>1, FS_EmptySet
    <2> QED
      BY <1>1, <2>2 DEF RtExact, CircularExact
  <1> HIDE DEF put
  <1>5. /\ r.ring \in Seq(Task) /\ put.ring \in Seq(Task) /\ Distinct(put.ring)
        /\ KeepsOrder(r.ring, put.ring, {}) /\ Elems(r.ring) \subseteq Elems(put.ring)
        /\ r.ring # <<>> => Head(put.ring) = Head(r.ring)
    <2>1. r.ring \in Seq(Task) /\ put.ring \in Seq(Task) /\ Distinct(put.ring)
      BY <1>1, <1>2 DEF BooksExact, CircularExact, RqType
    <2> QED
      BY <1>2, <2>1, AppendedOrder
  <1> DEFINE FromRt == /\ ~(/\ class_of(t, r.curr) = "circular"
                            /\ r.nr_running = cfs_h_nr_running)
                       /\ r.rt_queued
             Picked == /\ BooksExact(pick.rq, t, Q, Running(t, pick.next))
                       /\ SameOutside(pick.rq, r)
                       /\ pick.next \in Q \cup {IDLE}
                       /\ \A p \in Q : ~ Better(t, p, pick.next)
                       /\ KeepsOrder(r.ring, pick.rq.ring, {})
                       /\ class_of(t, pick.next) = "circular" /\ r.ring # <<>>
                          => pick.next = Head(r.ring)
  <1>6. ASSUME FromRt PROVE Picked
    <2> DEFINE idx == Lowest(put.bitmap)
               q == Head(put.queue[idx])
    <2>1. pick = pick_next_task_rt(r, t, r.curr)
      BY <1>6 DEF pick_next_task
    <2>2. /\ put.bitmap = {t[p].prio : p \in Rt(t, Q)} /\ put.bitmap \subseteq RtPrio
          /\ put.queue \in [RtPrio -> Seq(Task)]
          /\ \A i \in RtPrio : Elems(put.queue[i]) = {p \in Rt(t, Q) : t[p].prio = i}
      BY <1>2 DEF BooksExact, RtExact, RqType
    <2>3. put.bitmap # {} /\ put.bitmap \in SUBSET Nat
      BY <1>4, <1>6, <2>2, SizeAssumption DEF RtPrio
    <2>4. idx \in put.bitmap /\ \A j \in put.bitmap : idx <= j
      BY <2>3, LowestFacts
    <2> HIDE DEF idx
    <2>5. idx \in RtPrio /\ put.queue[idx] \in Seq(Task) /\ Elems(put.queue[idx]) # {}
      BY <2>2, <2>4
    <2>6. put.queue[idx] # <<>> /\ q \in Elems(put.queue[idx])
      BY <2>5, HeadFacts
    <2>7. pick = [rq |-> put, next |-> q]
      BY <2>1, <2>3, <2>6 DEF pick_next_task_rt, put, idx
    <2> HIDE DEF q
    <2>8. q \in Rt(t, Q) /\ t[q].prio = idx
      BY <2>2, <2>5, <2>6
    <2>9. /\ q \in Q /\ q \in Task /\ t[q].sched_class = "rt" /\ Running(t, q) = NULL
          /\ class_of(t, q) # "circular"
      BY <2>8, NameAssumption DEF Rt, Running, class_of
    <2>10. ASSUME NEW p \in Q PROVE ~ Better(t, p, q)
      <3> SUFFICES ASSUME t[p].sched_class = "rt", t[p].prio < t[q].prio PROVE FALSE
        BY <2>9, BetterFacts
      <3>1. t[p].prio \in put.bitmap
        BY <2>2 DEF Rt
      <3>2. t[p].prio \in Nat /\ idx \in Nat
        BY <2>3, <2>4, <3>1
      <3> QED
        BY <2>4, <2>8, <3>1, <3>2
    <2> QED
      BY <1>2, <1>5, <2>7, <2>9, <2>10
  <1>7. ~ FromRt => Rt(t, Q) = {}
    BY <1>4 DEF cfs_h_nr_running, Rt
  <1>8. ASSUME ~ FromRt, r.circ_nr # 0 PROVE Picked
    <2> DEFINE q == Head(put.ring)
    <2>1. pick = pick_next_task_circular(r, t, r.curr)
      BY <1>8 DEF pick_next_task
    <2>2. put.ring \in Seq(Task) /\ Elems(put.ring) = Circ(t, Q) \ {NULL}
      BY <1>2 DEF BooksExact, CircularExact, RqType
    <2>3. Elems(put.ring) = Circ(t, Q) /\ Circ(t, Q) # {}
      BY <1>4, <1>8, <2>2, NameAssumption DEF Circ
    <2>4. put.ring # <<>> /\ q \in Circ(t, Q)
      BY <2>2, <2>3, HeadFacts
    <2>5. pick = [rq |-> set_next_entity(put, q), next |-> q]
      BY <2>1, <2>4 DEF pick_next_task_circular, put
    <2> HIDE DEF q
    <2>6. q \in Q /\ q \in Task /\ t[q].sched_class = "circular" /\ Running(t, q) = q
      BY <2>4, NameAssumption DEF Circ, Running, class_of
    <2>7. /\ BooksExact(set_next_entity(put, q), t, Q, q)
          /\ SameOutside(set_next_entity(put, q), put)
          /\ Removed(put.ring, set_next_entity(put, q).ring, q)
      BY <1>2, <2>6, SetNextEntity
    <2>8. ASSUME NEW p \in Q PROVE ~ Better(t, p, q)
      BY <1>7, <1>8, <2>6, BetterFacts DEF Rt
    <2>9. KeepsOrder(r.ring, set_next_entity(put, q).ring, {})
      <3>1. KeepsOrder(put.ring, set_next_entity(put, q).ring, {})
        BY <1>5, <2>7, OrderSame, OrderDelete DEF Removed
      <3> QED
        BY <1>5, <3>1, OrderTrans
    <2>10. r.ring # <<>> => q = Head(r.ring)
      BY <1>5 DEF q
    <2> QED
      BY <1>2, <2>5, <2>6, <2>7, <2>8, <2>9, <2>10 DEF SameOutside
  <1>9. ASSUME ~ FromRt, r.circ_nr = 0 PROVE Picked
    <2>1. pick = [rq |-> put, next |-> IDLE]
      BY <1>9 DEF pick_next_task, pick_next_task_idle, put
    <2>2. Q = {}
      BY <1>3, <1>4, <1>7, <1>9 DEF Rt, Circ
    <2>3. Running(t, IDLE) = NULL /\ class_of(t, IDLE) # "circular"
      BY DEF Running, class_of
    <2> QED
      BY <1>2, <1>5, <2>1, <2>2, <2>3
  <1>10. Picked
    BY <1>6, <1>8, <1>9
  <1> HIDE DEF pick
  <1> DEFINE e == [pick.rq EXCEPT !.need_resched = FALSE, !.curr = pick.next]
             b == pick.rq
  <1>11. b \in RqType /\ pick.next \in Task \cup {IDLE} /\ b.on_rq = r.on_rq
    BY <1>10 DEF BooksExact, SameOutside
  <1>12. /\ e \in RqType /\ SameCircular(e, b) /\ e.nr_running = b.nr_running
         /\ e.queue = b.queue /\ e.bitmap = b.bitmap /\ e.rt_nr = b.rt_nr
         /\ e.rt_queued = b.rt_queued /\ e.on_rq = b.on_rq /\ e.curr = pick.next
         /\ e.ring = b.ring
    BY <1>11 DEF RqType, SameCircular
  <1>13. switch_from(r, t) = e
    BY DEF switch_from, pick
  <1> HIDE DEF e
  <1>14. BooksExact(e, t, Q, Running(t, pick.next))
    BY <1>10, <1>12, BooksFrame
  <1> QED
    BY <1>10, <1>11, <1>12, <1>13, <1>14

-----------------------------------------------------------------------------
(* __sched_setscheduler, rt_mutex_setprio: the change of class *)

LEMMA ChangeClass ==
    ASSUME NEW r, NEW t, NEW new, ClassExact(t), ClassExact(new), NEW p \in Task, NEW head,
           \A q \in Task \ {p} : new[q] = t[q],
           BooksExact(r, t, r.on_rq, Running(t, r.curr)), r.curr \in r.on_rq \cup {IDLE}
    PROVE  LET e == change_class(r, t, new, p, head)
           IN  /\ BooksExact(e, new, e.on_rq, Running(new, e.curr))
               /\ e.curr = r.curr /\ e.on_rq = r.on_rq
               /\ Pending(r, t) => Pending(e, new)
               /\ Requeued(r.ring, e.ring, p)
  <1> DEFINE queued == p \in r.on_rq
             running == r.curr = p
             Q == r.on_rq
             off == IF queued THEN dequeue_task(r, t, p) ELSE r
             out == IF running THEN put_prev_task(off, t, p) ELSE off
             in  == IF running THEN set_curr_task(out, new, p) ELSE out
             on  == IF queued THEN enqueue_task(in, new, p, head) ELSE in
             e == check_class_changed(on, new, p, t[p].sched_class, t[p].prio)
             rest == Q \ {p}
  <1>1. /\ r \in RqType /\ Q \in SUBSET Task /\ r.curr \in Task \cup {IDLE}
        /\ rest \in SUBSET Task /\ p \notin rest
    BY DEF BooksExact, RqType
  <1>2. /\ BooksExact(off, t, rest, Running(t, r.curr)) /\ SameOutside(off, r)
        /\ Removed(r.ring, off.ring, p)
        /\ running => off.ring = r.ring
    <2>1. CASE queued
      <3>1. running => p = Running(t, r.curr) \/ t[p].sched_class = "rt"
        BY ClassFacts, NameAssumption DEF Running, class_of
      <3> QED
        BY <1>1, <2>1, <3>1, DequeueTask
    <2>2. CASE ~ queued
      <3>1. rest = Q
        BY <2>2
      <3> QED
        BY <2>2, <3>1 DEF SameOutside, Removed
    <2> QED
      BY <2>1, <2>2
  <1> HIDE DEF off
  <1>3. /\ running => BooksExact(out, t, rest, NULL)
        /\ ~ running => BooksExact(out, t, rest, Running(t, r.curr))
        /\ SameOutside(out, r) /\ out.ring = off.ring
    <2>1. CASE running
      BY <1>1, <1>2, <2>1, PutPrevTask DEF SameOutside
    <2>2. CASE ~ running
      BY <1>2, <2>2
    <2> QED
      BY <2>1, <2>2
  <1> HIDE DEF out
  <1>4. \A q \in rest : new[q].sched_class = t[q].sched_class /\ new[q].prio = t[q].prio
    BY <1>1
  <1> HIDE DEF rest
  <1>5. /\ BooksExact(in, new, rest, Running(new, r.curr)) /\ SameOutside(in, r)
        /\ in.ring = off.ring
    <2>1. CASE running
      <3>1. BooksExact(out, new, rest, NULL)
        BY <1>3, <1>4, <2>1, Reattribute
      <3> QED
        BY <1>1, <1>3, <2>1, <3>1, SetCurrTask DEF SameOutside
    <2>2. CASE ~ running
      <3>1. Running(new, r.curr) = Running(t, r.curr)
        BY <1>1, <2>2 DEF Running, class_of
      <3> QED
        BY <1>3, <1>4, <2>2, <3>1, Reattribute
    <2> QED
      BY <2>1, <2>2
  <1> HIDE DEF in
  <1>6. /\ BooksExact(on, new, Q, Running(new, r.curr)) /\ SameOutside(on, r)
        /\ Appended(off.ring, on.ring, p)
        /\ running => on.ring = off.ring
    <2>1. CASE queued
      <3>1. rest \cup {p} = Q
        BY <2>1 DEF rest
      <3>2. /\ BooksExact(enqueue_task(in, new, p, head), new, rest \cup {p}, Running(new, r.curr))
            /\ SameOutside(enqueue_task(in, new, p, head), in)
            /\ Appended(in.ring, enqueue_task(in, new, p, head).ring, p)
            /\ p = Running(new, r.curr) \/ new[p].sched_class = "rt"
               => enqueue_task(in, new, p, head).ring = in.ring
        BY <1>1, <1>5, EnqueueTask
      <3>3. running => p = Running(new, r.curr) \/ new[p].sched_class = "rt"
        BY ClassFacts, NameAssumption DEF Running, class_of
      <3> QED
        BY <1>5, <2>1, <3>1, <3>2, <3>3 DEF SameOutside
    <2>2. CASE ~ queued
      <3>1. rest = Q
        BY <2>2 DEF rest
      <3> QED
        BY <1>5, <2>2, <3>1 DEF Appended
    <2> QED
      BY <2>1, <2>2
  <1>7. change_class(r, t, new, p, head) = e
    BY DEF change_class, on, in, out, off
  <1> HIDE DEF on
  <1>8. on.curr = r.curr /\ on.on_rq = Q /\ on.need_resched = r.need_resched
    BY <1>6 DEF SameOutside
  <1>9. /\ e = on \/ e = resched_curr(on)
        /\ (/\ p \in Q /\ p # r.curr /\ t[p].prio # new[p].prio
            /\ Better(new, p, r.curr)) => e = resched_curr(on)
        /\ (p \in Q /\ p = r.curr /\ t[p].prio < new[p].prio) => e = resched_curr(on)
    BY <1>1, <1>8, CheckClassChanged
  <1> HIDE DEF e
  <1>10. /\ BooksExact(resched_curr(on), new, Q, Running(new, r.curr))
         /\ resched_curr(on).need_resched
         /\ resched_curr(on).curr = r.curr /\ resched_curr(on).on_rq = Q
         /\ resched_curr(on).ring = on.ring
    BY <1>6, <1>8, ReschedBooks
  <1>11. /\ BooksExact(e, new, Q, Running(new, r.curr)) /\ e.curr = r.curr /\ e.on_rq = Q
         /\ e.ring = on.ring
    BY <1>6, <1>8, <1>9, <1>10
  <1>12. ASSUME Pending(r, t), NEW q \in Q, Better(new, q, r.curr) PROVE e.need_resched
    <2>1. CASE r.need_resched
      BY <1>8, <1>9, <1>10, <2>1
    <2>2. CASE ~ r.need_resched
      <3>1. ~ Better(t, q, r.curr)
        BY <1>12, <2>2 DEF Pending
      <3>2. r.curr \in Task
        BY <1>1, <3>1, BetterFacts
      <3>3. /\ t[q].prio \in Nat /\ new[q].prio \in Nat
            /\ t[r.curr].prio \in Nat /\ new[r.curr].prio \in Nat
        BY <1>1, <3>2, ClassFacts
      <3>4. /\ new[q].sched_class = "rt" /\ new[q].prio < new[r.curr].prio
            /\ ~ (t[q].sched_class = "rt" /\ t[q].prio < t[r.curr].prio)
        BY <1>1, <1>12, <3>1, <3>2, BetterFacts
      <3>5. q # r.curr
        BY <3>3, <3>4
      <3>6. CASE q = p
        <4>1. new[r.curr] = t[r.curr]
          BY <3>2, <3>5, <3>6
        <4>2. t[p].prio # new[p].prio
          <5> SUFFICES ASSUME t[p].prio = new[p].prio PROVE FALSE
            OBVIOUS
          <5>1. t[p].sched_class = new[p].sched_class
            BY DEF ClassExact
          <5> QED
            BY <3>4, <3>6, <4>1, <5>1
        <4> QED
          BY <1>9, <1>10, <1>12, <3>5, <3>6, <4>2
      <3>7. CASE q # p
        <4>1. new[q] = t[q]
          BY <1>1, <3>7
        <4>2. r.curr = p /\ t[p].prio < new[p].prio
          <5>1. r.curr = p
            BY <3>2, <3>4, <4>1
          <5> QED
            BY <3>3, <3>4, <4>1, <5>1
        <4> QED
          BY <1>9, <1>10, <4>2, NameAssumption
      <3> QED
        BY <3>6, <3>7
    <2> QED
      BY <2>1, <2>2
  <1>13. Pending(r, t) => Pending(e, new)
    BY <1>11, <1>12 DEF Pending
  <1>14. Requeued(r.ring, e.ring, p)
    <2>1. r.ring \in Seq(Task) /\ Distinct(r.ring)
      BY DEF BooksExact, CircularExact, RqType
    <2> QED
      BY <1>2, <1>6, <1>11, <2>1, MovedToEnd
  <1> QED
    BY <1>7, <1>11, <1>13, <1>14

-----------------------------------------------------------------------------
(* Ways on and off the run queue *)

\* struct rq between two sections under its lock.
RqExact(r, t) ==
    /\ BooksExact(r, t, r.on_rq, Running(t, r.curr))
    /\ r.curr \in r.on_rq \cup {IDLE}
    /\ Pending(r, t)

LEMMA Switch ==
    ASSUME NEW r, NEW t, ClassExact(t), BooksExact(r, t, r.on_rq, Running(t, r.curr))
    PROVE  LET e == switch_from(r, t)
           IN  /\ RqExact(e, t) /\ e.on_rq = r.on_rq
               /\ KeepsOrder(r.ring, e.ring, {})
               /\ class_of(t, e.curr) = "circular" /\ r.ring # <<>> => e.curr = Head(r.ring)
  <1> DEFINE e == switch_from(r, t)
             Q == r.on_rq
  <1>1. Q \in SUBSET Task
    BY DEF BooksExact, RqType
  <1> HIDE DEF Q
  <1>2. /\ BooksExact(e, t, Q, Running(t, e.curr))
        /\ e.on_rq = Q /\ e.curr \in Q \cup {IDLE}
        /\ \A p \in Q : ~ Better(t, p, e.curr)
        /\ KeepsOrder(r.ring, e.ring, {})
        /\ class_of(t, e.curr) = "circular" /\ r.ring # <<>> => e.curr = Head(r.ring)
    BY <1>1, SwitchFrom DEF Q
  <1> QED
    BY <1>2 DEF RqExact, Pending, Q

LEMMA OnRqBooks ==
    ASSUME NEW r, NEW t, NEW Q, NEW c, BooksExact(r, t, Q, c), NEW on \in SUBSET Task
    PROVE  LET e == [r EXCEPT !.on_rq = on]
           IN  /\ BooksExact(e, t, Q, c) /\ e.on_rq = on
               /\ e.curr = r.curr /\ e.need_resched = r.need_resched /\ e.ring = r.ring
  <1> DEFINE e == [r EXCEPT !.on_rq = on]
  <1>1. r \in RqType
    BY DEF BooksExact
  <1>2. /\ e \in RqType /\ SameCircular(e, r) /\ e.nr_running = r.nr_running
        /\ e.queue = r.queue /\ e.bitmap = r.bitmap /\ e.rt_nr = r.rt_nr
        /\ e.rt_queued = r.rt_queued /\ e.on_rq = on
        /\ e.curr = r.curr /\ e.need_resched = r.need_resched
    BY <1>1 DEF RqType, SameCircular
  <1> HIDE DEF e
  <1>3. BooksExact(e, t, Q, c)
    BY <1>2, BooksFrame
  <1> QED
    BY <1>2, <1>3 DEF e, SameCircular

LEMMA Deactivate ==
    ASSUME ClassExact(task), NEW r, NEW c, BooksExact(r, task, r.on_rq, c), NEW p \in r.on_rq
    PROVE  LET e == deactivate(r, p)
           IN  /\ BooksExact(e, task, e.on_rq, c) /\ e.on_rq = r.on_rq \ {p}
               /\ e.curr = r.curr
               /\ p = c \/ task[p].sched_class = "rt" => e.ring = r.ring
  <1> DEFINE Q == r.on_rq
             off == dequeue_task(r, task, p)
  <1>1. Q \in SUBSET Task /\ Q \ {p} \in SUBSET Task
    BY DEF BooksExact, RqType
  <1>2. /\ BooksExact(off, task, Q \ {p}, c) /\ SameOutside(off, r)
        /\ p = c \/ task[p].sched_class = "rt" => off.ring = r.ring
    BY <1>1, DequeueTask
  <1>3. deactivate(r, p) = [off EXCEPT !.on_rq = Q \ {p}]
    BY <1>2 DEF deactivate, SameOutside
  <1> HIDE DEF off, Q
  <1>4. /\ BooksExact([off EXCEPT !.on_rq = Q \ {p}], task, Q \ {p}, c)
        /\ [off EXCEPT !.on_rq = Q \ {p}].on_rq = Q \ {p}
        /\ [off EXCEPT !.on_rq = Q \ {p}].curr = off.curr
        /\ [off EXCEPT !.on_rq = Q \ {p}].ring = off.ring
    BY <1>1, <1>2, OnRqBooks
  <1> QED
    BY <1>2, <1>3, <1>4 DEF SameOutside, Q

\* The current task may have been dequeued: try_to_wake_up_local.
LEMMA Announce ==
    ASSUME NEW r, NEW t, ClassExact(t), NEW Q, NEW c, BooksExact(r, t, Q, c), NEW p \in Task
    PROVE  LET e == check_preempt_curr(r, t, p)
           IN  /\ BooksExact(e, t, Q, c) /\ e.on_rq = r.on_rq /\ e.curr = r.curr
               /\ e.ring = r.ring
               /\ r.need_resched \/ Better(t, p, r.curr) => e.need_resched
  <1> DEFINE e == check_preempt_curr(r, t, p)
  <1>1. r.curr \in Task \cup {IDLE}
    BY DEF BooksExact, RqType
  <1>2. /\ e = r \/ e = resched_curr(r)
        /\ Better(t, p, r.curr) => e = resched_curr(r)
    BY <1>1, CheckPreempt
  <1>3. /\ BooksExact(resched_curr(r), t, Q, c) /\ resched_curr(r).need_resched
        /\ resched_curr(r).curr = r.curr /\ resched_curr(r).on_rq = r.on_rq
        /\ resched_curr(r).ring = r.ring
    BY ReschedBooks
  <1> HIDE DEF e
  <1> QED
    BY <1>2, <1>3 DEF e

LEMMA Activate ==
    ASSUME ClassExact(task), NEW r, NEW c, BooksExact(r, task, r.on_rq, c),
           NEW p \in Task, p \notin r.on_rq
    PROVE  LET e == activate(r, p)
           IN  /\ BooksExact(e, task, e.on_rq, c) /\ e.on_rq = r.on_rq \cup {p}
               /\ e.curr = r.curr
               /\ Pending(r, task) => Pending(e, task)
               /\ Appended(r.ring, e.ring, p)
  <1> DEFINE Q == r.on_rq
             more == Q \cup {p}
             in == enqueue_task(r, task, p, FALSE)
             on == [in EXCEPT !.on_rq = more]
             e == check_preempt_curr(on, task, p)
  <1>1. Q \in SUBSET Task /\ more \in SUBSET Task
    BY DEF BooksExact, RqType
  <1>2. BooksExact(in, task, more, c) /\ SameOutside(in, r) /\ Appended(r.ring, in.ring, p)
    BY <1>1, EnqueueTask
  <1>3. activate(r, p) = e
    BY <1>2 DEF activate, SameOutside
  <1> HIDE DEF in, more
  <1>4. /\ BooksExact(on, task, more, c) /\ on.on_rq = more
        /\ on.curr = r.curr /\ on.need_resched = r.need_resched /\ on.ring = in.ring
    BY <1>1, <1>2, OnRqBooks DEF SameOutside
  <1> HIDE DEF on
  <1>5. /\ BooksExact(e, task, more, c) /\ e.on_rq = more /\ e.curr = r.curr
        /\ e.ring = on.ring
        /\ r.need_resched \/ Better(task, p, r.curr) => e.need_resched
    BY <1>4, Announce
  <1> HIDE DEF e
  <1> QED
    BY <1>2, <1>3, <1>4, <1>5 DEF Pending, more

-----------------------------------------------------------------------------
(* Attributes *)

AttrExact(a) ==
    /\ a \in Attributes /\ a.sched_class = class_for(a.prio)
    /\ a.normal_prio = normal_prio(a) /\ a.prio <= a.normal_prio

LEMMA PrioFacts ==
    /\ MAX_RT_PRIO \in Nat \ {0} /\ MAX_PRIO \in Nat /\ MAX_RT_PRIO < MAX_PRIO
    /\ NICE_TO_PRIO(0) = DEFAULT_PRIO
    /\ DEFAULT_PRIO \in MAX_RT_PRIO..(MAX_PRIO - 1)
    /\ \A nice \in NiceLevel : NICE_TO_PRIO(nice) \in MAX_RT_PRIO..(MAX_PRIO - 1)
    /\ \A prio \in MAX_RT_PRIO..(MAX_PRIO - 1) : PRIO_TO_NICE(prio) \in NiceLevel
    /\ \A n \in RtPrio : MAX_RT_PRIO - 1 - n \in RtPrio
  <1>1. /\ MAX_RT_PRIO \in Nat \ {0} /\ MAX_PRIO \in Nat /\ MAX_RT_PRIO < MAX_PRIO
        /\ DEFAULT_PRIO \in MAX_RT_PRIO..(MAX_PRIO - 1)
    BY SizeAssumption DEF MAX_PRIO, DEFAULT_PRIO
  <1>2. ASSUME NEW prio \in MAX_RT_PRIO..(MAX_PRIO - 1)
        PROVE  NICE_TO_PRIO(PRIO_TO_NICE(prio)) = prio
    BY <1>1 DEF NICE_TO_PRIO, PRIO_TO_NICE
  <1>3. \A nice \in NiceLevel : NICE_TO_PRIO(nice) \in MAX_RT_PRIO..(MAX_PRIO - 1)
    BY <1>2 DEF NiceLevel
  <1>4. \A n \in RtPrio : MAX_RT_PRIO - 1 - n \in RtPrio
    BY <1>1 DEF RtPrio
  <1>5. NICE_TO_PRIO(0) = DEFAULT_PRIO
    BY <1>1 DEF NICE_TO_PRIO
  <1> QED
    BY <1>1, <1>3, <1>4, <1>5 DEF NiceLevel

\* The two scales of nice levels go together.
LEMMA NiceToPrio ==
    ASSUME NEW nice \in NiceLevel
    PROVE  PRIO_TO_NICE(NICE_TO_PRIO(nice)) = nice
  <1>1. PICK prio \in MAX_RT_PRIO..(MAX_PRIO - 1) : nice = PRIO_TO_NICE(prio)
    BY DEF NiceLevel
  <1> QED
    BY <1>1, PrioFacts DEF PRIO_TO_NICE, NICE_TO_PRIO

\* normal_prio() is in range, and not real-time for the other policies.
LEMMA NormalPrio ==
    ASSUME NEW a, a.policy \in rt_policies \cup fair_policies, a.rt_priority \in RtPrio,
           a.static_prio \in MAX_RT_PRIO..(MAX_PRIO - 1)
    PROVE  /\ normal_prio(a) \in 0..(MAX_PRIO - 1)
           /\ rt_policy(a.policy) => normal_prio(a) = MAX_RT_PRIO - 1 - a.rt_priority
           /\ ~ rt_policy(a.policy) => normal_prio(a) = a.static_prio /\ MAX_RT_PRIO <= normal_prio(a)
  BY PrioFacts DEF normal_prio, RtPrio

LEMMA AttrFields ==
    ASSUME NEW a \in Attributes
    PROVE  /\ a.policy \in rt_policies \cup fair_policies /\ a.rt_priority \in RtPrio
           /\ a.static_prio \in MAX_RT_PRIO..(MAX_PRIO - 1)
           /\ a.normal_prio \in 0..(MAX_PRIO - 1) /\ a.prio \in 0..(MAX_PRIO - 1)
           /\ a.reset_on_fork \in BOOLEAN /\ a.time_slice \in 1..RR_TIMESLICE
           /\ a.sched_class \in {"rt", "circular"}
  BY DEF Attributes

LEMMA InitAttr == AttrExact(InitAttributes)
  BY PrioFacts, SizeAssumption
     DEF AttrExact, InitAttributes, Attributes, fair_policies, rt_policies, RtPrio,
         class_for, rt_prio, normal_prio, rt_policy

\* What the caller of sched_setattr() asked for.
AsAsked(a, policy, attr, nice) ==
    /\ a.policy = policy /\ a.rt_priority = attr.priority
    /\ fair_policy(policy) => a.static_prio = NICE_TO_PRIO(nice)

LEMMA SetParams ==
    ASSUME NEW a \in Attributes, NEW policy \in rt_policies \cup fair_policies, NEW attr,
           attr.priority \in RtPrio, NEW nice \in NiceLevel
    PROVE  LET b == setscheduler_params(a, policy, attr, nice)
           IN  /\ b \in Attributes /\ b.normal_prio = normal_prio(b)
               /\ b.prio = a.prio /\ b.sched_class = a.sched_class
               /\ rt_policy(policy) => b.normal_prio = MAX_RT_PRIO - 1 - attr.priority
               /\ ~ rt_policy(policy) => MAX_RT_PRIO <= b.normal_prio
               /\ AsAsked(b, policy, attr, nice)
  <1> DEFINE static == IF fair_policy(policy) THEN NICE_TO_PRIO(nice) ELSE a.static_prio
             b == [a EXCEPT !.policy = policy, !.static_prio = static,
                            !.rt_priority = attr.priority]
             c == [b EXCEPT !.normal_prio = normal_prio(b)]
  <1>1. static \in MAX_RT_PRIO..(MAX_PRIO - 1)
    BY PrioFacts, AttrFields
  <1>2. setscheduler_params(a, policy, attr, nice) = c
    BY AttrFields DEF setscheduler_params
  <1> HIDE DEF static
  <1>3. /\ b \in Attributes /\ b.policy = policy /\ b.static_prio = static
        /\ b.rt_priority = attr.priority /\ b.prio = a.prio /\ b.sched_class = a.sched_class
    BY <1>1 DEF Attributes
  <1> HIDE DEF b
  <1>4. /\ normal_prio(b) \in 0..(MAX_PRIO - 1)
        /\ rt_policy(policy) => normal_prio(b) = MAX_RT_PRIO - 1 - attr.priority
        /\ ~ rt_policy(policy) => MAX_RT_PRIO <= normal_prio(b)
    BY <1>1, <1>3, NormalPrio
  <1>5. /\ c \in Attributes /\ c.normal_prio = normal_prio(b) /\ c.policy = b.policy
        /\ c.static_prio = b.static_prio /\ c.rt_priority = b.rt_priority
        /\ c.prio = a.prio /\ c.sched_class = a.sched_class
    BY <1>3, <1>4 DEF Attributes
  <1> HIDE DEF c
  <1>6. normal_prio(c) = normal_prio(b)
    BY <1>5 DEF normal_prio
  <1>7. AsAsked(c, policy, attr, nice)
    BY <1>3, <1>5 DEF AsAsked, static
  <1> QED
    BY <1>2, <1>4, <1>5, <1>6, <1>7

LEMMA SetSched ==
    ASSUME NEW a \in Attributes, NEW policy \in rt_policies \cup fair_policies, NEW attr,
           attr.priority \in RtPrio, NEW nice \in NiceLevel
    PROVE  LET b == setscheduler(a, policy, attr, nice)
           IN  /\ AttrExact(b)
               /\ rt_policy(policy) => b.prio = MAX_RT_PRIO - 1 - attr.priority
               /\ ~ rt_policy(policy) => MAX_RT_PRIO <= b.prio
               /\ AsAsked(b, policy, attr, nice)
               /\ b.prio = b.normal_prio
  <1> DEFINE b == setscheduler_params(a, policy, attr, nice)
             c == [b EXCEPT !.prio = normal_prio(b), !.sched_class = class_for(normal_prio(b))]
  <1>1. /\ b \in Attributes /\ b.normal_prio = normal_prio(b)
        /\ rt_policy(policy) => b.normal_prio = MAX_RT_PRIO - 1 - attr.priority
        /\ ~ rt_policy(policy) => MAX_RT_PRIO <= b.normal_prio
        /\ AsAsked(b, policy, attr, nice)
    BY SetParams
  <1>2. setscheduler(a, policy, attr, nice) = c
    BY DEF setscheduler
  <1> HIDE DEF b
  <1>3. normal_prio(b) \in 0..(MAX_PRIO - 1) /\ class_for(normal_prio(b)) \in {"rt", "circular"}
    BY <1>1, AttrFields DEF class_for
  <1>4. /\ c \in Attributes /\ c.prio = normal_prio(b) /\ c.normal_prio = normal_prio(b)
        /\ c.sched_class = class_for(normal_prio(b)) /\ c.policy = b.policy
        /\ c.static_prio = b.static_prio /\ c.rt_priority = b.rt_priority
    BY <1>1, <1>3 DEF Attributes
  <1> HIDE DEF c
  <1>5. normal_prio(c) = normal_prio(b)
    BY <1>4 DEF normal_prio
  <1>6. c.prio <= c.normal_prio
    BY <1>3, <1>4, PrioFacts
  <1>7. AsAsked(c, policy, attr, nice)
    BY <1>1, <1>4 DEF AsAsked
  <1> QED
    BY <1>1, <1>2, <1>4, <1>5, <1>6, <1>7 DEF AttrExact

-----------------------------------------------------------------------------
(* The inductive invariant *)

ProcessTypes ==
    /\ state \in [Task -> {"R", "S"}]
    /\ life \in [Task -> {"free", "new", "live"}]
    /\ pi \in [Task -> 0..MAX_PRIO]

\* Also of a task_struct that is free, which fork() fills.
AttributesExact == task \in [Task -> Attributes] /\ \A p \in Task : AttrExact(task[p])

LivesExact ==
    /\ \A p \in Task : life[p] = "live" /\ state[p] = "R" => p \in rq.on_rq
    /\ \A p \in rq.on_rq : life[p] = "live"

\* Only a live task holds an rt_mutex, a real-time waiter's boost is in force, and
\* a child that has not run has no boost.
BoostsExact ==
    \A p \in Task : /\ life[p] # "live" => pi[p] = MAX_PRIO
                    /\ rt_prio(pi[p]) => task[p].prio <= pi[p]
                    /\ life[p] = "new" => task[p].prio = task[p].normal_prio

IInv ==
    /\ ProcessTypes
    /\ AttributesExact
    /\ RqExact(rq, task)
    /\ LivesExact
    /\ BoostsExact

LEMMA AttributesClass == AttributesExact => ClassExact(task)
  BY DEF AttributesExact, ClassExact, AttrExact

LEMMA CurrentQueued ==
    ASSUME IInv
    PROVE  /\ rq.on_rq \in SUBSET Task /\ rq.curr \in Task \cup {IDLE}
           /\ InTask => rq.curr \in rq.on_rq /\ life[rq.curr] = "live"
           /\ BooksExact(rq, task, rq.on_rq, Running(task, rq.curr))
           /\ ClassExact(task)
  <1>1. BooksExact(rq, task, rq.on_rq, Running(task, rq.curr)) /\ rq.curr \in rq.on_rq \cup {IDLE}
    BY DEF IInv, RqExact
  <1>2. rq.on_rq \in SUBSET Task /\ rq.curr \in Task \cup {IDLE}
    BY <1>1 DEF BooksExact, RqType
  <1> QED
    BY <1>1, <1>2, AttributesClass, NameAssumption DEF IInv, LivesExact, InTask, Current

LEMMA RingType == IInv => rq.ring \in Seq(Task) /\ Distinct(rq.ring)
  BY DEF IInv, RqExact, BooksExact, CircularExact, RqType

\* Nobody gets the CPU, and p goes to the end of the ring at most.
LEMMA RequeueTurn ==
    ASSUME NEW p \in Task, Requeued(rq.ring, rq'.ring, p), rq'.curr = rq.curr,
           rq'.ring = rq.ring \/ task'[p] # task[p]
    PROVE  InTurn
  BY OrderSame DEF Requeued, InTurn

LEMMA StillTurn ==
    ASSUME rq'.ring = rq.ring, rq'.curr = rq.curr
    PROVE  InTurn
  BY OrderSame DEF InTurn

LEMMA AppendTurn ==
    ASSUME rq.ring \in Seq(Task), rq'.ring \in Seq(Task), NEW p,
           Appended(rq.ring, rq'.ring, p), rq'.curr = rq.curr
    PROVE  InTurn
  BY AppendedOrder DEF InTurn

\* A switch, after w may have come to the end of the ring.
LEMMA SwitchTurn ==
    ASSUME IInv, NEW r, BooksExact(r, task, r.on_rq, Running(task, r.curr)),
           NEW w, Appended(rq.ring, r.ring, w), rq' = switch_from(r, task),
           class_of(task', rq'.curr) = class_of(task, rq'.curr)
    PROVE  InTurn
  <1>1. rq.ring \in Seq(Task) /\ r.ring \in Seq(Task)
    BY RingType DEF BooksExact, RqType
  <1>2. /\ KeepsOrder(rq.ring, r.ring, {}) /\ Elems(rq.ring) \subseteq Elems(r.ring)
        /\ rq.ring # <<>> => r.ring # <<>> /\ Head(r.ring) = Head(rq.ring)
    BY <1>1, AppendedOrder
  <1>3. /\ KeepsOrder(r.ring, rq'.ring, {})
        /\ class_of(task, rq'.curr) = "circular" /\ r.ring # <<>> => rq'.curr = Head(r.ring)
    BY CurrentQueued, Switch
  <1>4. KeepsOrder(rq.ring, rq'.ring, {})
    BY <1>2, <1>3, OrderTrans
  <1> QED
    BY <1>2, <1>3, <1>4 DEF InTurn

LEMMA InitInv == Init => IInv
  <1> SUFFICES ASSUME Init PROVE IInv
    OBVIOUS
  <1>1. ProcessTypes
    BY PrioFacts DEF Init, ProcessTypes
  <1>2. AttributesExact
    BY InitAttr DEF Init, AttributesExact, AttrExact
  <1>3. \A p \in Task : task[p].sched_class = "circular"
    BY DEF Init, InitAttributes
  <1>4. /\ rq.curr = IDLE /\ rq.need_resched /\ rq.nr_running = 1 /\ rq.on_rq = {InitTask}
        /\ rq.ring = <<InitTask>> /\ rq.circ_curr = NULL /\ rq.circ_nr = 1
        /\ rq.se_on_rq = {InitTask} /\ rq.queue = [i \in RtPrio |-> <<>>]
        /\ rq.bitmap = {} /\ rq.rt_nr = 0 /\ rq.rt_queued = FALSE /\ rq.fault = "none"
    BY DEF Init
  <1>5. rq \in RqType
    BY NameAssumption DEF Init, RqType
  <1>6. Circ(task, {InitTask}) = {InitTask} /\ Rt(task, {InitTask}) = {}
    BY <1>3, NameAssumption DEF Circ, Rt
  <1>7. /\ IsFiniteSet({InitTask}) /\ Cardinality({InitTask}) = 1 /\ Cardinality({}) = 0
    BY FS_Singleton, FS_EmptySet
  <1>8. Running(task, IDLE) = NULL
    BY DEF Running, class_of
  <1>9. CircularExact(rq, task, {InitTask}, NULL)
    <2>1. Elems(<<InitTask>>) = {InitTask} /\ Distinct(<<InitTask>>)
      BY DEF Elems, Distinct
    <2> QED
      BY <1>4, <1>6, <1>7, <2>1, NameAssumption, ZenonT(60) DEF CircularExact
  <1>10. RtExact(rq, task, {InitTask})
    <2>1. Elems(<<>>) = {} /\ Distinct(<<>>)
      BY DEF Elems, Distinct
    <2> QED
      BY <1>4, <1>6, <1>7, <2>1 DEF RtExact
  <1>11. RqExact(rq, task)
    BY <1>4, <1>5, <1>7, <1>8, <1>9, <1>10 DEF RqExact, BooksExact, Pending
  <1>12. LivesExact
    BY <1>4, NameAssumption DEF Init, LivesExact
  <1>13. BoostsExact
    BY PrioFacts, NameAssumption DEF Init, BoostsExact, rt_prio
  <1> QED
    BY <1>1, <1>2, <1>11, <1>12, <1>13 DEF IInv

-----------------------------------------------------------------------------
(* Going to sleep, switching, waking up *)

LEMMA SetCurrentStateInv ==
    ASSUME IInv, NEW s \in {"R", "S"}, SetCurrentState(s)
    PROVE  IInv' /\ InTurn
  <1>1. rq.curr \in rq.on_rq /\ rq.curr \in Task
    BY CurrentQueued DEF SetCurrentState, InTask, Current
  <1>2. ProcessTypes'
    BY <1>1 DEF IInv, ProcessTypes, SetCurrentState, Current
  <1>3. LivesExact'
    BY <1>1 DEF IInv, ProcessTypes, LivesExact, SetCurrentState, Current
  <1>4. AttributesExact' /\ RqExact(rq, task)' /\ BoostsExact'
    BY DEF IInv, AttributesExact, RqExact, Pending, BoostsExact, SetCurrentState
  <1>5. InTurn
    BY StillTurn DEF SetCurrentState
  <1> QED
    BY <1>2, <1>3, <1>4, <1>5 DEF IInv

\* A switch from a struct rq that differs in the order of its lists at most.
LEMMA SwitchInv ==
    ASSUME IInv, NEW r, BooksExact(r, task, r.on_rq, Running(task, r.curr)),
           r.on_rq = rq.on_rq, r.ring = rq.ring, rq' = switch_from(r, task), UNCHANGED <<task, state, life, pi>>
    PROVE  IInv' /\ InTurn
  <1>1. RqExact(rq', task) /\ rq'.on_rq = rq.on_rq
    BY CurrentQueued, Switch
  <1>2. RqExact(rq, task)'
    BY <1>1
  <1>3. LivesExact'
    BY <1>1 DEF IInv, LivesExact
  <1>4. ProcessTypes' /\ AttributesExact' /\ BoostsExact'
    BY DEF IInv, ProcessTypes, AttributesExact, BoostsExact
  <1>5. InTurn
    BY SwitchTurn DEF Appended
  <1> QED
    BY <1>2, <1>3, <1>4, <1>5 DEF IInv

LEMMA PreemptInv == ASSUME IInv, Preempt PROVE IInv' /\ InTurn
  BY CurrentQueued, SwitchInv DEF Preempt

LEMMA ScheduleRunningInv == ASSUME IInv, ScheduleRunning PROVE IInv' /\ InTurn
  BY CurrentQueued, SwitchInv DEF ScheduleRunning

LEMMA YieldToInv == ASSUME IInv, NEW p \in Task, YieldTo(p) PROVE IInv' /\ InTurn
  BY CurrentQueued, SwitchInv DEF YieldTo

LEMMA SchedYieldInv == ASSUME IInv, SchedYield PROVE IInv' /\ InTurn
  <1> DEFINE r == IF task[Current].sched_class = "rt"
                  THEN requeue_task_rt(rq, task, Current)
                  ELSE rq
  <1>1. rq' = switch_from(r, task) /\ UNCHANGED <<task, state, life, pi>>
    BY DEF SchedYield
  <1>2. /\ r.on_rq = rq.on_rq /\ BooksExact(r, task, r.on_rq, Running(task, r.curr))
        /\ r.ring = rq.ring
    <2>1. CASE task[Current].sched_class = "rt"
      <3>1. Current \in Task /\ rq.on_rq \in SUBSET Task
        BY CurrentQueued DEF SchedYield, InTask
      <3>2. /\ BooksExact(r, task, rq.on_rq, Running(task, rq.curr)) /\ SameOutside(r, rq)
            /\ SameCircular(r, rq)
        BY <2>1, <3>1, CurrentQueued, RequeueRt
      <3> QED
        BY <3>2 DEF SameOutside, SameCircular
    <2>2. CASE task[Current].sched_class # "rt"
      BY <2>2, CurrentQueued
    <2> QED
      BY <2>1, <2>2
  <1> HIDE DEF r
  <1> QED
    BY <1>1, <1>2, SwitchInv

LEMMA ScheduleSignalledInv == ASSUME IInv, ScheduleSignalled PROVE IInv' /\ InTurn
  <1>1. rq.curr \in rq.on_rq /\ rq.curr \in Task
    BY CurrentQueued DEF ScheduleSignalled, InTask, Current
  <1>2. RqExact(rq', task) /\ rq'.on_rq = rq.on_rq
    BY CurrentQueued, Switch DEF ScheduleSignalled
  <1>3. RqExact(rq, task)'
    BY <1>2 DEF ScheduleSignalled
  <1>4. LivesExact'
    BY <1>1, <1>2 DEF IInv, ProcessTypes, LivesExact, ScheduleSignalled, Current
  <1>5. ProcessTypes' /\ AttributesExact' /\ BoostsExact'
    BY <1>1 DEF IInv, ProcessTypes, AttributesExact, BoostsExact, ScheduleSignalled, Current
  <1>6. InTurn
    BY CurrentQueued, SwitchTurn DEF ScheduleSignalled, Appended
  <1> QED
    BY <1>3, <1>4, <1>5, <1>6 DEF IInv

\* The current task is not in the ring, so that it leaves without touching it.
LEMMA DeactivateCurrent ==
    ASSUME IInv, rq.curr \in rq.on_rq
    PROVE  LET e == deactivate(rq, Current)
           IN  /\ BooksExact(e, task, e.on_rq, Running(task, e.curr))
               /\ e.on_rq = rq.on_rq \ {rq.curr} /\ e.ring = rq.ring
  <1> DEFINE e == deactivate(rq, rq.curr)
  <1>1. rq.curr = Running(task, rq.curr) \/ task[rq.curr].sched_class = "rt"
    BY CurrentQueued, ClassFacts, NameAssumption DEF Running, class_of
  <1>2. /\ BooksExact(e, task, e.on_rq, Running(task, rq.curr))
        /\ e.on_rq = rq.on_rq \ {rq.curr} /\ e.curr = rq.curr
        /\ rq.curr = Running(task, rq.curr) \/ task[rq.curr].sched_class = "rt"
           => e.ring = rq.ring
    BY CurrentQueued, Deactivate
  <1> HIDE DEF e
  <1> QED
    BY <1>1, <1>2 DEF e, Current

LEMMA ScheduleBlocksInv == ASSUME IInv, ScheduleBlocks PROVE IInv' /\ InTurn
  <1> DEFINE off == deactivate(rq, Current)
  <1>1. rq.curr \in rq.on_rq /\ Current = rq.curr
    BY CurrentQueued DEF ScheduleBlocks, InTask, Current
  <1>2. /\ BooksExact(off, task, off.on_rq, Running(task, off.curr))
        /\ off.on_rq = rq.on_rq \ {rq.curr} /\ off.ring = rq.ring
    BY <1>1, DeactivateCurrent
  <1> HIDE DEF off
  <1>3. rq' = switch_from(off, task) /\ UNCHANGED <<task, state, life, pi>>
    BY DEF ScheduleBlocks, off
  <1>4. RqExact(rq', task) /\ rq'.on_rq = rq.on_rq \ {rq.curr}
    BY <1>2, <1>3, CurrentQueued, Switch
  <1>5. RqExact(rq, task)'
    BY <1>3, <1>4
  <1>6. LivesExact'
    <2>1. state[rq.curr] # "R"
      BY DEF ScheduleBlocks, Current
    <2> QED
      BY <1>3, <1>4, <2>1 DEF IInv, LivesExact
  <1>7. ProcessTypes' /\ AttributesExact' /\ BoostsExact'
    BY <1>3 DEF IInv, ProcessTypes, AttributesExact, BoostsExact
  <1>8. InTurn
    BY <1>2, <1>3, SwitchTurn DEF Appended
  <1> QED
    BY <1>5, <1>6, <1>7, <1>8 DEF IInv

LEMMA ScheduleBlocksWorkerInv ==
    ASSUME IInv, NEW w \in Task, ScheduleBlocksWorker(w)
    PROVE  IInv' /\ InTurn
  <1> DEFINE off == deactivate(rq, Current)
             woken == IF w \in off.on_rq THEN check_preempt_curr(off, task, w)
                                         ELSE activate(off, w)
  <1>1. rq.curr \in rq.on_rq /\ Current = rq.curr /\ w # rq.curr
    BY CurrentQueued DEF ScheduleBlocksWorker, InTask, Current
  <1>2. /\ BooksExact(off, task, off.on_rq, Running(task, off.curr))
        /\ off.on_rq = rq.on_rq \ {rq.curr} /\ off.ring = rq.ring
    BY <1>1, DeactivateCurrent
  <1>3. /\ rq' = switch_from(woken, task) /\ UNCHANGED <<task, life, pi>>
        /\ state[rq.curr] # "R" /\ life[w] = "live" /\ state' = [state EXCEPT ![w] = "R"]
    BY DEF ScheduleBlocksWorker, Current
  <1> HIDE DEF off
  <1>4. /\ BooksExact(woken, task, woken.on_rq, Running(task, woken.curr))
        /\ woken.on_rq = (rq.on_rq \ {rq.curr}) \cup {w}
        /\ Appended(rq.ring, woken.ring, w)
    <2>1. CASE w \in off.on_rq
      <3>1. off.on_rq = (rq.on_rq \ {rq.curr}) \cup {w}
        BY <1>2, <2>1
      <3> QED
        BY <1>2, <2>1, <3>1, CurrentQueued, Announce DEF Appended
    <2>2. CASE w \notin off.on_rq
      <3>1. woken = activate(off, w) /\ ClassExact(task)
        BY <2>2, CurrentQueued
      <3> HIDE DEF woken
      <3>2. /\ BooksExact(activate(off, w), task, activate(off, w).on_rq, Running(task, off.curr))
            /\ activate(off, w).on_rq = off.on_rq \cup {w}
            /\ activate(off, w).curr = off.curr
            /\ Appended(off.ring, activate(off, w).ring, w)
        BY <1>2, <2>2, <3>1, Activate
      <3> QED
        BY <1>2, <3>1, <3>2
    <2> QED
      BY <2>1, <2>2
  <1> HIDE DEF woken
  <1>5. RqExact(rq', task) /\ rq'.on_rq = (rq.on_rq \ {rq.curr}) \cup {w}
    BY <1>3, <1>4, CurrentQueued, Switch
  <1>6. RqExact(rq, task)'
    BY <1>3, <1>5
  <1>7. LivesExact'
    BY <1>1, <1>3, <1>5 DEF IInv, LivesExact, ProcessTypes
  <1>8. ProcessTypes' /\ AttributesExact' /\ BoostsExact'
    BY <1>3 DEF IInv, ProcessTypes, AttributesExact, BoostsExact
  <1>9. InTurn
    BY <1>3, <1>4, SwitchTurn
  <1> QED
    BY <1>6, <1>7, <1>8, <1>9 DEF IInv

\* The task_struct that is given back is not queued any more.
LEMMA ExitInv == ASSUME IInv, Exit PROVE IInv' /\ InTurn
  <1> DEFINE off == deactivate(rq, Current)
             p == rq.curr
  <1>1. p \in rq.on_rq /\ Current = p /\ p \in Task
    BY CurrentQueued DEF Exit, InTask, Current
  <1>2. /\ BooksExact(off, task, off.on_rq, Running(task, off.curr))
        /\ off.on_rq = rq.on_rq \ {p} /\ off.ring = rq.ring
    BY <1>1, DeactivateCurrent
  <1> HIDE DEF off
  <1>3. /\ rq' = switch_from(off, task) /\ task' = [task EXCEPT ![p] = InitAttributes]
        /\ state' = [state EXCEPT ![p] = "R"] /\ life' = [life EXCEPT ![p] = "free"]
        /\ pi[p] = MAX_PRIO /\ UNCHANGED pi
    BY <1>1 DEF Exit, off
  <1> HIDE DEF p
  <1>4. RqExact(rq', task) /\ rq'.on_rq = rq.on_rq \ {p}
    BY <1>2, <1>3, CurrentQueued, Switch
  <1>5. AttributesExact'
    BY <1>1, <1>3, InitAttr DEF IInv, AttributesExact, AttrExact
  <1>6. RqExact(rq', task')
    <2>1. \A q \in rq'.on_rq : task'[q] = task[q]
      BY <1>3, <1>4, CurrentQueued DEF IInv, AttributesExact
    <2>2. BooksExact(rq', task', rq'.on_rq, Running(task, rq'.curr))
      BY <1>4, <2>1, Reattribute DEF RqExact
    <2>3. Running(task, rq'.curr) = Running(task', rq'.curr)
      BY <1>4, <2>1 DEF RqExact, Running, class_of
    <2>4. Pending(rq', task')
      BY <1>4, <2>1 DEF RqExact, Pending, Better, class_of
    <2> QED
      BY <1>4, <2>2, <2>3, <2>4 DEF RqExact
  <1>7. LivesExact'
    BY <1>1, <1>3, <1>4, CurrentQueued DEF IInv, LivesExact, ProcessTypes
  <1>8. ProcessTypes'
    BY <1>3 DEF IInv, ProcessTypes
  <1>9. BoostsExact'
    <2> SUFFICES ASSUME NEW q \in Task
                 PROVE  /\ life'[q] # "live" => pi[q] = MAX_PRIO
                        /\ rt_prio(pi[q]) => task'[q].prio <= pi[q]
                        /\ life'[q] = "new" => task'[q].prio = task'[q].normal_prio
      BY <1>3 DEF BoostsExact
    <2>1. CASE q = p
      BY <1>3, <2>1, PrioFacts DEF rt_prio, IInv, ProcessTypes
    <2>2. CASE q # p
      BY <1>3, <2>2 DEF IInv, BoostsExact, ProcessTypes, AttributesExact
    <2> QED
      BY <2>1, <2>2
  <1>10. InTurn
    <2>1. class_of(task', rq'.curr) = class_of(task, rq'.curr)
      BY <1>1, <1>3, <1>4, CurrentQueued DEF RqExact, class_of, IInv, AttributesExact
    <2> QED
      BY <1>2, <1>3, <2>1, SwitchTurn DEF Appended
  <1> QED
    BY <1>5, <1>6, <1>7, <1>8, <1>9, <1>10 DEF IInv

LEMMA WakeUpQueuedInv == ASSUME IInv, NEW p \in Task, WakeUpQueued(p) PROVE IInv' /\ InTurn
  <1>1. /\ rq' = check_preempt_curr(rq, task, p) /\ state' = [state EXCEPT ![p] = "R"]
        /\ p \in rq.on_rq /\ UNCHANGED <<task, life, pi>>
    BY DEF WakeUpQueued
  <1>2. /\ BooksExact(rq', task, rq.on_rq, Running(task, rq.curr))
        /\ rq'.on_rq = rq.on_rq /\ rq'.curr = rq.curr /\ rq'.ring = rq.ring
        /\ rq.need_resched => rq'.need_resched
    BY <1>1, CurrentQueued, Announce
  <1>3. RqExact(rq', task)
    BY <1>2 DEF IInv, RqExact, Pending
  <1>4. LivesExact'
    BY <1>1, <1>2 DEF IInv, LivesExact, ProcessTypes
  <1>5. ProcessTypes' /\ AttributesExact' /\ BoostsExact'
    BY <1>1 DEF IInv, ProcessTypes, AttributesExact, BoostsExact
  <1>6. InTurn
    BY <1>2, StillTurn
  <1> QED
    BY <1>1, <1>3, <1>4, <1>5, <1>6 DEF IInv

\* activate_task() in try_to_wake_up() and in wake_up_new_task().
LEMMA ActivateInv ==
    ASSUME IInv, NEW p \in Task, p \notin rq.on_rq
    PROVE  LET e == activate(rq, p)
           IN  /\ RqExact(e, task) /\ e.on_rq = rq.on_rq \cup {p} /\ e.curr = rq.curr
               /\ e.ring \in Seq(Task) /\ Appended(rq.ring, e.ring, p)
  <1> DEFINE e == activate(rq, p)
  <1>1. /\ BooksExact(e, task, e.on_rq, Running(task, rq.curr)) /\ e.on_rq = rq.on_rq \cup {p}
        /\ e.curr = rq.curr
        /\ Pending(rq, task) => Pending(e, task)
        /\ Appended(rq.ring, e.ring, p)
    BY CurrentQueued, Activate
  <1> HIDE DEF e
  <1>2. RqExact(e, task)
    BY <1>1 DEF IInv, RqExact
  <1>3. e.ring \in Seq(Task)
    BY <1>1 DEF BooksExact, RqType
  <1> QED
    BY <1>1, <1>2, <1>3 DEF e

LEMMA WakeUpInv == ASSUME IInv, NEW p \in Task, WakeUp(p) PROVE IInv' /\ InTurn
  <1>1. /\ rq' = activate(rq, p) /\ state' = [state EXCEPT ![p] = "R"]
        /\ p \notin rq.on_rq /\ life[p] = "live" /\ UNCHANGED <<task, life, pi>>
    BY DEF WakeUp
  <1>2. /\ RqExact(rq', task) /\ rq'.on_rq = rq.on_rq \cup {p} /\ rq'.curr = rq.curr
        /\ rq'.ring \in Seq(Task) /\ Appended(rq.ring, rq'.ring, p)
    BY <1>1, ActivateInv
  <1>3. LivesExact'
    BY <1>1, <1>2 DEF IInv, LivesExact, ProcessTypes
  <1>4. ProcessTypes' /\ AttributesExact' /\ BoostsExact'
    BY <1>1 DEF IInv, ProcessTypes, AttributesExact, BoostsExact
  <1>5. InTurn
    BY <1>2, RingType, AppendTurn
  <1> QED
    BY <1>1, <1>2, <1>3, <1>4, <1>5 DEF IInv

LEMMA WakeUpNewTaskInv == ASSUME IInv, NEW c \in Task, wake_up_new_task(c) PROVE IInv' /\ InTurn
  <1>1. /\ rq' = activate(rq, c) /\ life' = [life EXCEPT ![c] = "live"]
        /\ life[c] = "new" /\ UNCHANGED <<task, state, pi>>
    BY DEF wake_up_new_task
  <1>2. c \notin rq.on_rq
    BY <1>1 DEF IInv, LivesExact
  <1>3. /\ RqExact(rq', task) /\ rq'.on_rq = rq.on_rq \cup {c} /\ rq'.curr = rq.curr
        /\ rq'.ring \in Seq(Task) /\ Appended(rq.ring, rq'.ring, c)
    BY <1>1, <1>2, ActivateInv
  <1>4. LivesExact'
    BY <1>1, <1>3, CurrentQueued DEF IInv, LivesExact, ProcessTypes
  <1>5. ProcessTypes' /\ AttributesExact'
    BY <1>1 DEF IInv, ProcessTypes, AttributesExact
  <1>6. BoostsExact'
    BY <1>1 DEF IInv, ProcessTypes, BoostsExact
  <1>7. InTurn
    BY <1>3, RingType, AppendTurn
  <1> QED
    BY <1>1, <1>3, <1>4, <1>5, <1>6, <1>7 DEF IInv

-----------------------------------------------------------------------------
(* Creating tasks, changing attributes *)

\* Attributes may change freely as long as queued tasks keep class and priority.
LEMMA RetaskRq ==
    ASSUME NEW r, NEW t, NEW new, RqExact(r, t),
           \A q \in r.on_rq : new[q].sched_class = t[q].sched_class /\ new[q].prio = t[q].prio
    PROVE  RqExact(r, new)
  <1>1. BooksExact(r, new, r.on_rq, Running(t, r.curr))
    BY Reattribute DEF RqExact
  <1>2. Running(t, r.curr) = Running(new, r.curr)
    BY DEF RqExact, Running, class_of
  <1>3. Pending(r, new)
    BY DEF RqExact, Pending, Better, class_of
  <1> QED
    BY <1>1, <1>2, <1>3 DEF RqExact

LEMMA ReschedRq ==
    ASSUME NEW r, NEW t, RqExact(r, t)
    PROVE  LET e == resched_curr(r)
           IN  /\ RqExact(e, t) /\ e.on_rq = r.on_rq
               /\ e.curr = r.curr /\ e.ring = r.ring
  <1> DEFINE e == resched_curr(r)
  <1>1. /\ BooksExact(e, t, r.on_rq, Running(t, r.curr)) /\ e.need_resched
        /\ e.curr = r.curr /\ e.on_rq = r.on_rq /\ e.ring = r.ring
    BY ReschedBooks DEF RqExact
  <1> HIDE DEF e
  <1>2. RqExact(e, t)
    BY <1>1 DEF RqExact, Pending
  <1> QED
    BY <1>1, <1>2 DEF e

\* What is left to show of an action that changes the attributes of p.
LEMMA AttrUpdate ==
    ASSUME IInv, NEW p \in Task, NEW a, AttrExact(a), task' = [task EXCEPT ![p] = a],
           UNCHANGED <<state, life>>,
           pi' \in [Task -> 0..MAX_PRIO], \A q \in Task \ {p} : pi'[q] = pi[q],
           life[p] = "live" \/ pi'[p] = pi[p],
           rt_prio(pi'[p]) => a.prio <= pi'[p],
           life[p] = "new" => a.prio = a.normal_prio,
           RqExact(rq', task'), rq'.on_rq = rq.on_rq
    PROVE  IInv'
  <1>1. AttributesExact'
    BY DEF IInv, AttributesExact, AttrExact
  <1>2. LivesExact' /\ ProcessTypes'
    BY DEF IInv, LivesExact, ProcessTypes
  <1>3. BoostsExact'
    <2> SUFFICES ASSUME NEW q \in Task
                 PROVE  /\ life[q] # "live" => pi'[q] = MAX_PRIO
                        /\ rt_prio(pi'[q]) => task'[q].prio <= pi'[q]
                        /\ life[q] = "new" => task'[q].prio = task'[q].normal_prio
      BY DEF BoostsExact
    <2>1. CASE q = p
      BY <2>1 DEF IInv, AttributesExact, BoostsExact
    <2>2. CASE q # p
      BY <2>2 DEF IInv, AttributesExact, BoostsExact
    <2> QED
      BY <2>1, <2>2
  <1> QED
    BY <1>1, <1>2, <1>3 DEF IInv

LEMMA ForkInv == ASSUME IInv, NEW c \in Task, Fork(c) PROVE IInv' /\ InTurn
  <1> DEFINE a == task[Current]
             copy == [a EXCEPT !.prio = a.normal_prio]
             renice == rt_policy(a.policy) \/ PRIO_TO_NICE(a.static_prio) < 0
             nice0 == IF renice THEN NICE_TO_PRIO(0) ELSE a.static_prio
             fair == IF rt_policy(a.policy) THEN "SCHED_NORMAL" ELSE a.policy
             rtp == IF rt_policy(a.policy) THEN 0 ELSE a.rt_priority
             reset == [copy EXCEPT !.policy = fair, !.rt_priority = rtp, !.static_prio = nice0,
                                   !.normal_prio = nice0, !.prio = nice0,
                                   !.reset_on_fork = FALSE]
             child == IF a.reset_on_fork THEN reset ELSE copy
             b == [child EXCEPT !.sched_class = class_for(child.prio)]
  <1>1. a \in Attributes /\ a.normal_prio = normal_prio(a)
    BY CurrentQueued DEF IInv, AttributesExact, AttrExact, Fork, InTask, Current
  <1>2. copy \in Attributes /\ copy.prio = copy.normal_prio /\ copy.normal_prio = normal_prio(copy)
    <2>1. /\ copy \in Attributes /\ copy.prio = a.normal_prio /\ copy.normal_prio = a.normal_prio
          /\ copy.policy = a.policy /\ copy.rt_priority = a.rt_priority
          /\ copy.static_prio = a.static_prio
      BY <1>1 DEF Attributes
    <2> HIDE DEF copy
    <2> QED
      BY <1>1, <2>1 DEF normal_prio
  <1>3. reset \in Attributes /\ reset.prio = reset.normal_prio /\ reset.normal_prio = normal_prio(reset)
    <2>1. nice0 \in MAX_RT_PRIO..(MAX_PRIO - 1) /\ nice0 \in 0..(MAX_PRIO - 1)
      BY <1>1, PrioFacts, AttrFields
    <2>2. fair \in rt_policies \cup fair_policies /\ ~ rt_policy(fair)
      BY <1>1, AttrFields DEF rt_policy, rt_policies, fair_policies
    <2>3. rtp \in RtPrio
      BY <1>1, AttrFields, PrioFacts DEF RtPrio
    <2> HIDE DEF nice0, fair, rtp, copy
    <2>4. /\ reset \in Attributes /\ reset.prio = nice0 /\ reset.normal_prio = nice0
          /\ reset.policy = fair /\ reset.static_prio = nice0
      BY <1>2, <2>1, <2>2, <2>3 DEF Attributes
    <2> HIDE DEF reset
    <2> QED
      BY <2>2, <2>4 DEF normal_prio
  <1>4. child \in Attributes /\ child.prio = child.normal_prio /\ child.normal_prio = normal_prio(child)
    <2> HIDE DEF reset, copy
    <2> QED
      BY <1>2, <1>3
  <1>5. /\ task' = [task EXCEPT ![c] = b]
        /\ rq' = rq \/ rq' = resched_curr(rq)
        /\ life[c] = "free" /\ life' = [life EXCEPT ![c] = "new"]
        /\ state' = [state EXCEPT ![c] = "R"] /\ UNCHANGED pi
    <2>1. reset = [copy EXCEPT !.policy = IF rt_policy(@) THEN "SCHED_NORMAL" ELSE @,
                               !.rt_priority = IF rt_policy(a.policy) THEN 0 ELSE @,
                               !.static_prio = nice0, !.normal_prio = nice0, !.prio = nice0,
                               !.reset_on_fork = FALSE]
      <3>1. copy.policy = a.policy /\ copy.rt_priority = a.rt_priority
        BY <1>1 DEF Attributes
      <3> HIDE DEF copy
      <3> QED
        BY <3>1
    <2> HIDE DEF copy
    <2> QED
      BY <2>1 DEF Fork, copy
  <1> HIDE DEF child
  <1>6. AttrExact(b)
    <2>1. child.prio \in 0..(MAX_PRIO - 1) /\ class_for(child.prio) \in {"rt", "circular"}
      BY <1>4, AttrFields DEF class_for
    <2>2. /\ b \in Attributes /\ b.prio = child.prio /\ b.normal_prio = child.normal_prio
          /\ b.sched_class = class_for(child.prio) /\ b.policy = child.policy
          /\ b.static_prio = child.static_prio /\ b.rt_priority = child.rt_priority
      BY <1>4, <2>1 DEF Attributes
    <2> HIDE DEF b
    <2>3. normal_prio(b) = normal_prio(child)
      BY <2>2 DEF normal_prio
    <2>4. b.prio <= b.normal_prio
      BY <1>4, <2>1, <2>2, PrioFacts
    <2> QED
      BY <1>4, <2>2, <2>3, <2>4 DEF AttrExact
  <1>7. b.prio = b.normal_prio
    BY <1>4, AttrFields DEF Attributes, class_for
  <1> HIDE DEF b
  <1>8. c \notin rq.on_rq
    BY <1>5 DEF IInv, LivesExact
  <1>9. RqExact(rq', task') /\ rq'.on_rq = rq.on_rq
    <2>1. \A q \in rq.on_rq : task'[q] = task[q]
      BY <1>5, <1>8, CurrentQueued DEF IInv, AttributesExact
    <2>2. RqExact(rq, task')
      BY <2>1, RetaskRq DEF IInv
    <2> QED
      BY <1>5, <2>2, ReschedRq
  <1>10. AttributesExact'
    BY <1>5, <1>6 DEF IInv, AttributesExact, AttrExact
  <1>11. LivesExact'
    BY <1>5, <1>8, <1>9, CurrentQueued DEF IInv, LivesExact, ProcessTypes
  <1>12. ProcessTypes'
    BY <1>5 DEF IInv, ProcessTypes
  <1>13. BoostsExact'
    <2> SUFFICES ASSUME NEW q \in Task
                 PROVE  /\ life'[q] # "live" => pi[q] = MAX_PRIO
                        /\ rt_prio(pi[q]) => task'[q].prio <= pi[q]
                        /\ life'[q] = "new" => task'[q].prio = task'[q].normal_prio
      BY <1>5 DEF BoostsExact
    <2>1. CASE q = c
      <3>1. task'[q] = b /\ pi[q] = MAX_PRIO
        BY <1>5, <2>1 DEF IInv, AttributesExact, BoostsExact
      <3> QED
        BY <1>7, <3>1, PrioFacts DEF rt_prio
    <2>2. CASE q # c
      BY <1>5, <2>2 DEF IInv, AttributesExact, ProcessTypes, BoostsExact
    <2> QED
      BY <2>1, <2>2
  <1>14. InTurn
    <2>1. rq'.ring = rq.ring /\ rq'.curr = rq.curr
      BY <1>5, ReschedRq DEF IInv
    <2> QED
      BY <2>1, StillTurn
  <1> QED
    BY <1>9, <1>10, <1>11, <1>12, <1>13, <1>14 DEF IInv

LEMMA SetSchedulerInv ==
    ASSUME IInv, NEW p \in Task, NEW attr \in Attr, SetScheduler(p, attr)
    PROVE  IInv' /\ InTurn
  <1> DEFINE a == task[p]
             param == attr.policy = SETPARAM_POLICY
             policy == IF param THEN a.policy ELSE attr.policy
             nice == IF attr.nice = NULL THEN PRIO_TO_NICE(a.static_prio) ELSE attr.nice
             reset == IF param THEN a.reset_on_fork ELSE attr.reset_on_fork
             flag == [a EXCEPT !.reset_on_fork = reset]
             newprio == MAX_RT_PRIO - 1 - attr.priority
             changed == [task EXCEPT ![p] = setscheduler(flag, policy, attr, nice)]
             same == /\ policy = a.policy
                     /\ fair_policy(policy) => nice = PRIO_TO_NICE(a.static_prio)
                     /\ rt_policy(policy) => attr.priority = a.rt_priority
  <1>1. AttrExact(a) /\ a \in Attributes
    BY DEF IInv, AttributesExact, AttrExact
  <1>2. /\ attr.policy \in rt_policies \cup fair_policies \cup {SETPARAM_POLICY}
        /\ attr.priority \in RtPrio /\ attr.nice \in NiceLevel \cup {NULL}
        /\ attr.reset_on_fork \in BOOLEAN
    BY InputAssumption DEF RtPrio
  <1>3. policy \in rt_policies \cup fair_policies /\ nice \in NiceLevel /\ reset \in BOOLEAN
    BY <1>1, <1>2, AttrFields, PrioFacts
  <1>4. /\ rt_policy(policy) <=> attr.priority # 0
        /\ UNCHANGED <<state, life, pi>>
        /\ \/ task' = [task EXCEPT ![p] = flag] /\ rq' = rq
           \/ /\ keeps_boost(p, newprio)
              /\ task' = [task EXCEPT ![p] = setscheduler_params(flag, policy, attr, nice)]
              /\ rq' = rq
           \/ /\ ~ same
              /\ ~ keeps_boost(p, newprio)
              /\ task' = changed
              /\ rq' = change_class(rq, task, changed, p, a.prio <= changed[p].prio)
    <2>1. flag = [a EXCEPT !.reset_on_fork = IF param THEN @ ELSE attr.reset_on_fork]
      BY <1>1, AttrFields
    <2> HIDE DEF flag
    <2> QED
      BY <2>1 DEF SetScheduler
  <1> HIDE DEF policy, nice, reset, same
  <1>5. /\ flag \in Attributes /\ AttrExact(flag)
        /\ flag.prio = a.prio /\ flag.sched_class = a.sched_class
        /\ flag.normal_prio = a.normal_prio
    <2>1. /\ flag \in Attributes /\ flag.prio = a.prio /\ flag.sched_class = a.sched_class
          /\ flag.normal_prio = a.normal_prio /\ flag.policy = a.policy
          /\ flag.static_prio = a.static_prio /\ flag.rt_priority = a.rt_priority
      BY <1>1, <1>3 DEF Attributes
    <2> HIDE DEF flag
    <2> QED
      BY <1>1, <2>1 DEF AttrExact, normal_prio
  <1> HIDE DEF flag
  <1>6. /\ pi[p] \in Nat /\ newprio \in RtPrio /\ MAX_RT_PRIO \in Nat
        /\ a.prio \in Nat /\ attr.priority \in Nat
        /\ rt_prio(pi[p]) => a.prio <= pi[p]
        /\ life[p] = "new" => a.prio = a.normal_prio /\ ~ keeps_boost(p, newprio)
        /\ keeps_boost(p, newprio) <=> pi[p] <= newprio
    BY <1>1, <1>2, PrioFacts, AttrFields
       DEF IInv, ProcessTypes, BoostsExact, RtPrio, keeps_boost, rt_mutex_check_prio
  <1>7. /\ pi' \in [Task -> 0..MAX_PRIO] /\ \A q \in Task : pi'[q] = pi[q]
        /\ UNCHANGED <<state, life>>
    BY <1>4 DEF IInv, ProcessTypes
  <1>8. CASE task' = [task EXCEPT ![p] = flag] /\ rq' = rq
    <2>1. \A q \in rq.on_rq : task'[q].sched_class = task[q].sched_class
                              /\ task'[q].prio = task[q].prio
      BY <1>5, <1>8, CurrentQueued DEF IInv, AttributesExact
    <2>2. RqExact(rq', task')
      BY <1>8, <2>1, RetaskRq DEF IInv
    <2> QED
      BY <1>5, <1>6, <1>7, <1>8, <2>2, AttrUpdate, StillTurn
  <1>9. CASE /\ keeps_boost(p, newprio)
             /\ task' = [task EXCEPT ![p] = setscheduler_params(flag, policy, attr, nice)]
             /\ rq' = rq
    <2> DEFINE b == setscheduler_params(flag, policy, attr, nice)
    <2>1. /\ b \in Attributes /\ b.normal_prio = normal_prio(b)
          /\ b.prio = a.prio /\ b.sched_class = a.sched_class
          /\ rt_policy(policy) => b.normal_prio = newprio
          /\ ~ rt_policy(policy) => MAX_RT_PRIO <= b.normal_prio
      BY <1>2, <1>3, <1>5, SetParams
    <2> HIDE DEF b
    <2>2. a.prio <= newprio
      BY <1>6, <1>9 DEF rt_prio, RtPrio
    <2>3. AttrExact(b)
      <3>1. b.prio <= b.normal_prio
        <4>1. b.normal_prio \in Nat
          BY <2>1, AttrFields
        <4> QED
          BY <1>6, <2>1, <2>2, <4>1 DEF RtPrio
      <3> QED
        BY <1>1, <2>1, <3>1 DEF AttrExact
    <2>4. task' = [task EXCEPT ![p] = b] /\ rq' = rq
      BY <1>9 DEF b
    <2>5. \A q \in rq.on_rq : task'[q].sched_class = task[q].sched_class
                              /\ task'[q].prio = task[q].prio
      BY <2>1, <2>4, CurrentQueued DEF IInv, AttributesExact
    <2>6. RqExact(rq', task')
      BY <2>4, <2>5, RetaskRq DEF IInv
    <2> QED
      BY <1>6, <1>7, <1>9, <2>1, <2>3, <2>4, <2>6, AttrUpdate, StillTurn
  <1>10. CASE /\ ~ same
              /\ ~ keeps_boost(p, newprio)
              /\ task' = changed
              /\ rq' = change_class(rq, task, changed, p, a.prio <= changed[p].prio)
    <2> DEFINE b == setscheduler(flag, policy, attr, nice)
    <2>1. /\ AttrExact(b)
          /\ rt_policy(policy) => b.prio = newprio
          /\ ~ rt_policy(policy) => MAX_RT_PRIO <= b.prio
          /\ AsAsked(b, policy, attr, nice)
          /\ b.prio = b.normal_prio
      BY <1>2, <1>3, <1>5, SetSched
    <2> HIDE DEF b
    <2>2. changed = [task EXCEPT ![p] = b]
      BY DEF b
    <2> HIDE DEF changed
    <2>3. ClassExact(changed) /\ \A q \in Task \ {p} : changed[q] = task[q]
      BY <2>1, <2>2 DEF IInv, AttributesExact, ClassExact, AttrExact
    <2>4. /\ BooksExact(rq', changed, rq'.on_rq, Running(changed, rq'.curr))
          /\ rq'.curr = rq.curr /\ rq'.on_rq = rq.on_rq
          /\ Pending(rq, task) => Pending(rq', changed)
          /\ Requeued(rq.ring, rq'.ring, p)
      <3>1. /\ BooksExact(rq, task, rq.on_rq, Running(task, rq.curr)) /\ ClassExact(task)
            /\ rq.curr \in rq.on_rq \cup {IDLE}
        BY CurrentQueued DEF IInv, RqExact
      <3> QED
        BY <1>10, <2>3, <3>1, ChangeClass
    <2>5. RqExact(rq', task') /\ rq'.on_rq = rq.on_rq
      BY <1>10, <2>4 DEF IInv, RqExact
    <2>6. rt_prio(pi[p]) => b.prio <= pi[p]
      <3> SUFFICES ASSUME pi[p] < MAX_RT_PRIO PROVE b.prio <= pi[p]
        BY DEF rt_prio
      <3>1. newprio < pi[p]
        BY <1>6, <1>10 DEF RtPrio
      <3>2. attr.priority # 0
        BY <1>6, <3>1
      <3> QED
        BY <1>4, <1>6, <2>1, <3>1, <3>2 DEF RtPrio
    <2>7. b # a
      <3> SUFFICES ASSUME b = a PROVE same
        BY <1>10
      <3>1. a.static_prio = NICE_TO_PRIO(nice) => nice = PRIO_TO_NICE(a.static_prio)
        BY <1>3, NiceToPrio
      <3> QED
        BY <2>1, <3>1 DEF AsAsked, same
    <2>8. task'[p] # task[p]
      BY <1>10, <2>2, <2>7 DEF IInv, AttributesExact
    <2>9. InTurn
      BY <2>4, <2>8, RequeueTurn
    <2>10. IInv'
      BY <1>7, <1>10, <2>1, <2>2, <2>5, <2>6, AttrUpdate
    <2> QED
      BY <2>9, <2>10
  <1> QED
    BY <1>4, <1>8, <1>9, <1>10

LEMMA SetUserNiceInv ==
    ASSUME IInv, NEW p \in Task, NEW nice \in Nice, SetUserNice(p, nice)
    PROVE  IInv' /\ InTurn
  <1> DEFINE a == task[p]
             b == [a EXCEPT !.static_prio = NICE_TO_PRIO(nice)]
             c == [b EXCEPT !.normal_prio = normal_prio(b), !.prio = effective_prio(b)]
             new == [task EXCEPT ![p] = c]
             off == dequeue_task(rq, task, p)
             on == enqueue_task(off, new, p, FALSE)
             resched == c.prio < a.prio \/ (c.prio > a.prio /\ rq.curr = p)
             Q == rq.on_rq
  <1>1. AttrExact(a) /\ a \in Attributes
    BY DEF IInv, AttributesExact, AttrExact
  <1>2. NICE_TO_PRIO(nice) \in MAX_RT_PRIO..(MAX_PRIO - 1)
    BY InputAssumption, PrioFacts
  <1>3. /\ pi' \in [Task -> 0..MAX_PRIO] /\ \A q \in Task : pi'[q] = pi[q]
        /\ UNCHANGED <<state, life>> /\ pi[p] \in Nat
        /\ rt_prio(pi[p]) => a.prio <= pi[p]
        /\ life[p] = "new" => a.prio = a.normal_prio
    BY PrioFacts DEF IInv, ProcessTypes, BoostsExact, SetUserNice
  <1>4. /\ b \in Attributes /\ b.policy = a.policy /\ b.rt_priority = a.rt_priority
        /\ b.static_prio = NICE_TO_PRIO(nice) /\ b.prio = a.prio
        /\ b.normal_prio = a.normal_prio /\ b.sched_class = a.sched_class
    BY <1>1, <1>2 DEF Attributes
  <1>5. CASE rt_policy(a.policy)
    <2>1. rq' = rq /\ task' = [task EXCEPT ![p] = b]
      BY <1>5 DEF SetUserNice, set_user_nice
    <2> HIDE DEF b
    <2>2. AttrExact(b)
      BY <1>1, <1>4, <1>5 DEF AttrExact, normal_prio
    <2>3. \A q \in rq.on_rq : task'[q].sched_class = task[q].sched_class
                              /\ task'[q].prio = task[q].prio
      BY <1>4, <2>1, CurrentQueued DEF IInv, AttributesExact
    <2>4. RqExact(rq', task')
      BY <2>1, <2>3, RetaskRq DEF IInv
    <2> QED
      BY <1>3, <1>4, <2>1, <2>2, <2>4, AttrUpdate, StillTurn
  <1>6. CASE ~ rt_policy(a.policy)
    <2>1. /\ rq' = IF p \notin Q THEN rq ELSE IF resched THEN resched_curr(on) ELSE on
          /\ task' = new
      BY <1>6 DEF SetUserNice, set_user_nice
    <2> HIDE DEF b
    <2>2. normal_prio(b) = NICE_TO_PRIO(nice)
      BY <1>4, <1>6 DEF normal_prio
    <2>3. /\ a.prio \in Nat /\ NICE_TO_PRIO(nice) \in Nat /\ MAX_RT_PRIO \in Nat
          /\ MAX_RT_PRIO <= NICE_TO_PRIO(nice)
          /\ a.prio < MAX_RT_PRIO => effective_prio(b) = a.prio
          /\ ~ (a.prio < MAX_RT_PRIO) => effective_prio(b) = NICE_TO_PRIO(nice)
          /\ normal_prio(b) \in 0..(MAX_PRIO - 1) /\ effective_prio(b) \in 0..(MAX_PRIO - 1)
      BY <1>1, <1>2, <1>4, <2>2, AttrFields, PrioFacts DEF effective_prio, rt_prio
    <2>4. /\ c \in Attributes /\ c.policy = b.policy /\ c.rt_priority = b.rt_priority
          /\ c.static_prio = b.static_prio /\ c.prio = effective_prio(b)
          /\ c.normal_prio = normal_prio(b) /\ c.sched_class = a.sched_class
      BY <1>4, <2>3 DEF Attributes
    <2> HIDE DEF c
    <2>5. AttrExact(c)
      <3>1. c.normal_prio = normal_prio(c)
        BY <2>4 DEF normal_prio
      <3>2. c.prio <= c.normal_prio
        BY <2>2, <2>3, <2>4
      <3>3. c.sched_class = class_for(c.prio)
        BY <1>1, <2>3, <2>4 DEF AttrExact, class_for, rt_prio
      <3> QED
        BY <2>4, <3>1, <3>2, <3>3 DEF AttrExact
    <2>6. rt_prio(pi[p]) => c.prio <= pi[p]
      BY <1>3, <2>3, <2>4 DEF rt_prio
    <2>7. /\ ClassExact(new) /\ \A q \in Task \ {p} : new[q] = task[q]
          /\ new[p] = c
      BY <2>5 DEF IInv, AttributesExact, ClassExact, AttrExact
    <2> HIDE DEF new
    <2>8. /\ RqExact(rq', new) /\ rq'.on_rq = rq.on_rq
          /\ rq'.curr = rq.curr /\ Requeued(rq.ring, rq'.ring, p)
      <3>1. CASE p \notin Q
        <4>1. \A q \in Q : new[q] = task[q]
          BY <2>7, <3>1, CurrentQueued
        <4> QED
          BY <2>1, <3>1, <4>1, RetaskRq DEF IInv, Requeued
      <3>2. CASE p \in Q
        <4> DEFINE rest == Q \ {p}
        <4>1. /\ Q \in SUBSET Task /\ rest \in SUBSET Task /\ p \notin rest
              /\ rest \cup {p} = Q /\ rq.curr \in Q \cup {IDLE} /\ rq.curr \in Task \cup {IDLE}
          BY <3>2, CurrentQueued DEF IInv, RqExact
        <4>2. /\ BooksExact(off, task, rest, Running(task, rq.curr)) /\ SameOutside(off, rq)
              /\ Removed(rq.ring, off.ring, p)
          BY <3>2, <4>1, CurrentQueued, DequeueTask
        <4>3. \A q \in rest : new[q].sched_class = task[q].sched_class /\ new[q].prio = task[q].prio
          BY <2>7, <4>1
        <4> HIDE DEF rest, off
        <4>4. BooksExact(off, new, rest, Running(task, rq.curr))
          BY <4>2, <4>3, Reattribute
        <4>5. /\ BooksExact(on, new, rest \cup {p}, Running(task, rq.curr)) /\ SameOutside(on, off)
              /\ Appended(off.ring, on.ring, p)
          BY <2>7, <4>1, <4>4, EnqueueTask
        <4>6. Running(task, rq.curr) = Running(new, rq.curr)
          BY <2>4, <2>7, <4>1 DEF Running, class_of
        <4> HIDE DEF on
        <4>7. /\ BooksExact(on, new, Q, Running(new, rq.curr))
              /\ on.curr = rq.curr /\ on.on_rq = Q /\ on.need_resched = rq.need_resched
          BY <4>1, <4>2, <4>5, <4>6 DEF SameOutside
        <4>8. /\ BooksExact(resched_curr(on), new, Q, Running(new, rq.curr))
              /\ resched_curr(on).need_resched
              /\ resched_curr(on).curr = rq.curr /\ resched_curr(on).on_rq = Q
              /\ resched_curr(on).ring = on.ring
          BY <4>7, ReschedBooks
        <4>9. Requeued(rq.ring, on.ring, p)
          BY <4>2, <4>5, RingType, MovedToEnd
        <4>10. CASE resched
          <5>1. rq' = resched_curr(on)
            BY <2>1, <3>2, <4>10
          <5> QED
            BY <4>1, <4>8, <4>9, <5>1 DEF RqExact, Pending
        <4>11. CASE ~ resched
          <5>1. rq' = on
            BY <2>1, <3>2, <4>11
          <5>2. ASSUME NEW q \in Q, Better(new, q, rq.curr) PROVE Better(task, q, rq.curr)
            <6>1. CASE rq.curr = IDLE
              BY <4>1, <6>1, CurrentQueued, BetterFacts
            <6>2. CASE rq.curr \in Task
              <7>1. new[q].sched_class = "rt" /\ new[q].prio < new[rq.curr].prio
                BY <2>7, <4>1, <5>2, <6>2, BetterFacts
              <7>2. /\ task[q].sched_class = new[q].sched_class
                    /\ task[q].prio = new[q].prio
                <8>1. CASE q = p
                  <9>1. a.sched_class = "rt" /\ a.prio < MAX_RT_PRIO
                    BY <2>4, <2>7, <7>1, <8>1, CurrentQueued, ClassFacts
                  <9> QED
                    BY <2>3, <2>4, <2>7, <8>1, <9>1
                <8>2. CASE q # p
                  BY <2>7, <4>1, <8>2
                <8> QED
                  BY <8>1, <8>2
              <7>3. /\ new[rq.curr].prio \in Nat /\ task[rq.curr].prio \in Nat
                    /\ task[q].prio \in Nat
                BY <2>7, <4>1, <6>2, CurrentQueued, ClassFacts
              <7>4. new[rq.curr].prio <= task[rq.curr].prio
                <8>1. CASE rq.curr = p
                  BY <2>7, <4>11, <7>3, <8>1
                <8>2. CASE rq.curr # p
                  BY <2>7, <6>2, <7>3, <8>2
                <8> QED
                  BY <8>1, <8>2
              <7>5. task[q].sched_class = "rt" /\ task[q].prio < task[rq.curr].prio
                BY <7>1, <7>2, <7>3, <7>4
              <7> QED
                BY <4>1, <6>2, <7>5, CurrentQueued, BetterFacts
            <6> QED
              BY <4>1, <6>1, <6>2
          <5>3. Pending(on, new)
            BY <4>7, <5>2 DEF IInv, RqExact, Pending
          <5> QED
            BY <4>1, <4>7, <4>9, <5>1, <5>3 DEF RqExact
        <4> QED
          BY <4>10, <4>11
      <3> QED
        BY <3>1, <3>2
    <2>9. task' = [task EXCEPT ![p] = c] /\ RqExact(rq', task')
      BY <2>1, <2>8 DEF new
    <2>10. task'[p] # task[p]
      <3>1. c.static_prio # a.static_prio
        BY <1>4, <2>4, NiceToPrio, InputAssumption DEF SetUserNice
      <3> QED
        BY <2>1, <2>7, <3>1
    <2>11. InTurn
      BY <2>8, <2>10, RequeueTurn
    <2>12. life[p] = "new" => c.prio = c.normal_prio
      <3>1. a.normal_prio = a.static_prio /\ MAX_RT_PRIO <= a.static_prio
        BY <1>1, <1>6, AttrFields, PrioFacts DEF AttrExact, normal_prio
      <3> QED
        BY <1>3, <2>2, <2>3, <2>4, <3>1
    <2>13. IInv'
      BY <1>3, <2>5, <2>6, <2>8, <2>9, <2>12, AttrUpdate
    <2> QED
      BY <2>11, <2>13
  <1> QED
    BY <1>5, <1>6

LEMMA AdjustPrioInv ==
    ASSUME IInv, NEW p \in Holder, NEW waiter \in Boost, AdjustPrio(p, waiter)
    PROVE  IInv' /\ InTurn
  <1> DEFINE a == task[p]
             prio == rt_mutex_getprio(p, waiter)
             b == [a EXCEPT !.prio = prio, !.sched_class = class_for(prio)]
             new == [task EXCEPT ![p] = b]
             head == rt_prio(prio) /\ task[p].prio < prio
  <1>1. p \in Task /\ waiter \in 0..MAX_PRIO
    BY WorkerAssumption, InputAssumption
  <1>2. AttrExact(a) /\ a \in Attributes
    BY <1>1 DEF IInv, AttributesExact, AttrExact
  <1>3. /\ prio \in 0..(MAX_PRIO - 1) /\ prio <= a.normal_prio /\ prio <= waiter
        /\ class_for(prio) \in {"rt", "circular"}
    BY <1>1, <1>2, AttrFields, PrioFacts DEF rt_mutex_getprio, class_for
  <1>4. /\ UNCHANGED <<state, life>> /\ life[p] = "live" /\ pi' = [pi EXCEPT ![p] = waiter]
        /\ \/ a.prio # prio /\ task' = new /\ rq' = change_class(rq, task, new, p, head)
           \/ a.prio = prio /\ task' = task /\ rq' = rq
    <2>1. new = [task EXCEPT ![p].prio = prio, ![p].sched_class = class_for(prio)]
      BY <1>1 DEF IInv, AttributesExact
    <2> HIDE DEF new
    <2> QED
      BY <2>1 DEF AdjustPrio
  <1> HIDE DEF prio
  <1>5. /\ pi' \in [Task -> 0..MAX_PRIO] /\ pi'[p] = waiter
        /\ \A q \in Task \ {p} : pi'[q] = pi[q]
    BY <1>1, <1>4 DEF IInv, ProcessTypes
  <1>6. CASE a.prio # prio /\ task' = new /\ rq' = change_class(rq, task, new, p, head)
    <2>1. /\ b \in Attributes /\ b.prio = prio /\ b.sched_class = class_for(prio)
          /\ b.normal_prio = a.normal_prio /\ b.policy = a.policy
          /\ b.static_prio = a.static_prio /\ b.rt_priority = a.rt_priority
      BY <1>2, <1>3 DEF Attributes
    <2> HIDE DEF b
    <2>2. AttrExact(b)
      BY <1>2, <1>3, <2>1 DEF AttrExact, normal_prio
    <2>3. ClassExact(new) /\ \A q \in Task \ {p} : new[q] = task[q]
      BY <2>2 DEF IInv, AttributesExact, ClassExact, AttrExact
    <2>4. task' = [task EXCEPT ![p] = b]
      BY <1>6
    <2> HIDE DEF new, head
    <2>5. /\ BooksExact(rq', new, rq'.on_rq, Running(new, rq'.curr))
          /\ rq'.curr = rq.curr /\ rq'.on_rq = rq.on_rq
          /\ Pending(rq, task) => Pending(rq', new)
          /\ Requeued(rq.ring, rq'.ring, p)
      <3>1. /\ BooksExact(rq, task, rq.on_rq, Running(task, rq.curr)) /\ ClassExact(task)
            /\ rq.curr \in rq.on_rq \cup {IDLE}
        BY CurrentQueued DEF IInv, RqExact
      <3>2. rq' = change_class(rq, task, new, p, head)
        BY <1>6
      <3> QED
        BY <1>1, <2>3, <3>1, <3>2, ChangeClass
    <2>6. RqExact(rq', task') /\ rq'.on_rq = rq.on_rq
      BY <1>6, <2>5 DEF IInv, RqExact
    <2>7. task'[p] # task[p]
      BY <1>1, <1>6, <2>1, <2>4 DEF IInv, AttributesExact
    <2>8. InTurn
      BY <1>1, <2>5, <2>7, RequeueTurn
    <2>9. IInv'
      BY <1>1, <1>3, <1>4, <1>5, <2>1, <2>2, <2>4, <2>6, AttrUpdate
    <2> QED
      BY <2>8, <2>9
  <1>7. CASE a.prio = prio /\ task' = task /\ rq' = rq
    <2>1. task' = [task EXCEPT ![p] = a]
      BY <1>1, <1>7 DEF IInv, AttributesExact
    <2>2. RqExact(rq', task') /\ rq'.on_rq = rq.on_rq
      BY <1>7 DEF IInv
    <2> QED
      BY <1>1, <1>2, <1>3, <1>4, <1>5, <1>7, <2>1, <2>2, AttrUpdate, StillTurn
  <1> QED
    BY <1>4, <1>6, <1>7

-----------------------------------------------------------------------------
(* The timer interrupt *)

LEMMA TickInv == ASSUME IInv, Tick PROVE IInv' /\ InTurn
  <1> DEFINE p == rq.curr
             a == task[p]
             slice == IF a.time_slice = 1 THEN RR_TIMESLICE ELSE a.time_slice - 1
             b == [a EXCEPT !.time_slice = slice]
             e == requeue_task_rt(rq, task, p)
  <1>1. p \in Task /\ a.sched_class = "rt"
    BY DEF Tick, InTask, Current
  <1>2. AttrExact(a) /\ a \in Attributes
    BY <1>1 DEF IInv, AttributesExact, AttrExact
  <1>3. /\ task' = [task EXCEPT ![p] = b] /\ UNCHANGED <<state, life, pi>>
        /\ rq' = rq \/ rq' = resched_curr(e)
    <2>1. [task EXCEPT ![p] = b] =
            [task EXCEPT ![p].time_slice = IF @ = 1 THEN RR_TIMESLICE ELSE @ - 1]
      BY <1>1 DEF IInv, AttributesExact
    <2> HIDE DEF b
    <2> QED
      BY <2>1 DEF Tick, Current
  <1>4. slice \in 1..RR_TIMESLICE
    BY <1>2, AttrFields, SizeAssumption
  <1> HIDE DEF slice
  <1>5. /\ b \in Attributes /\ b.prio = a.prio /\ b.sched_class = a.sched_class
        /\ b.normal_prio = a.normal_prio /\ b.policy = a.policy
        /\ b.static_prio = a.static_prio /\ b.rt_priority = a.rt_priority
    BY <1>2, <1>4 DEF Attributes
  <1> HIDE DEF b
  <1>6. AttrExact(b)
    BY <1>2, <1>5 DEF AttrExact, normal_prio
  <1>7. /\ RqExact(e, task) /\ e.on_rq = rq.on_rq
        /\ e.ring = rq.ring /\ e.curr = rq.curr
    <2>1. /\ BooksExact(e, task, rq.on_rq, Running(task, rq.curr)) /\ SameOutside(e, rq)
          /\ SameCircular(e, rq)
      BY <1>1, CurrentQueued, RequeueRt
    <2> HIDE DEF e
    <2> QED
      BY <2>1 DEF IInv, RqExact, Pending, SameOutside, SameCircular
  <1> HIDE DEF e
  <1>8. /\ RqExact(rq', task) /\ rq'.on_rq = rq.on_rq
        /\ rq'.ring = rq.ring /\ rq'.curr = rq.curr
    BY <1>3, <1>7, ReschedRq DEF IInv
  <1>9. \A q \in rq'.on_rq : task'[q].sched_class = task[q].sched_class
                             /\ task'[q].prio = task[q].prio
    BY <1>1, <1>3, <1>5, <1>8, CurrentQueued DEF IInv, AttributesExact
  <1>10. RqExact(rq', task')
    BY <1>8, <1>9, RetaskRq
  <1>11. /\ pi' \in [Task -> 0..MAX_PRIO] /\ \A q \in Task : pi'[q] = pi[q]
         /\ UNCHANGED <<state, life>> /\ (rt_prio(pi[p]) => b.prio <= pi[p])
         /\ life[p] = "new" => b.prio = b.normal_prio
    BY <1>1, <1>3, <1>5 DEF IInv, ProcessTypes, BoostsExact
  <1>12. InTurn
    BY <1>8, StillTurn
  <1> QED
    BY <1>1, <1>3, <1>6, <1>8, <1>10, <1>11, <1>12, AttrUpdate

-----------------------------------------------------------------------------
(* The theorems *)

LEMMA NextInv == IInv /\ [Next]_vars => IInv' /\ InTurn
  <1> SUFFICES ASSUME IInv, [Next]_vars PROVE IInv' /\ InTurn
    OBVIOUS
  <1>1. CASE Next
    BY <1>1, SetCurrentStateInv, PreemptInv, ScheduleRunningInv, ScheduleSignalledInv,
       ScheduleBlocksInv, ScheduleBlocksWorkerInv, ExitInv, WakeUpQueuedInv, WakeUpInv,
       ForkInv, WakeUpNewTaskInv, SetSchedulerInv, SetUserNiceInv, AdjustPrioInv,
       SchedYieldInv, YieldToInv, TickInv DEF Next
  <1>2. CASE UNCHANGED vars
    <2>1. IInv'
      BY <1>2 DEF vars, IInv, ProcessTypes, AttributesExact, RqExact, Pending, LivesExact,
                  BoostsExact
    <2>2. InTurn
      BY <1>2, StillTurn DEF vars
    <2> QED
      BY <2>1, <2>2
  <1> QED
    BY <1>1, <1>2

LEMMA Invariance == Spec => []IInv
  BY InitInv, NextInv, PTL DEF Spec

LEMMA QueuedParts ==
    Queued("circular") = Circ(task, rq.on_rq) /\ Queued("rt") = Rt(task, rq.on_rq)
  BY DEF Queued, Circ, Rt

(***************************************************************************)
(* struct rq and the attributes stay well-typed: no counter goes below     *)
(* zero, and no priority leaves the range of the code's array of lists.    *)
(***************************************************************************)
THEOREM TypeCorrect == Spec => []TypeOK
  <1>1. IInv => TypeOK
    <2> SUFFICES ASSUME IInv PROVE TypeOK
      OBVIOUS
    <2>1. rq \in RqType
      BY DEF IInv, RqExact, BooksExact
    <2>2. /\ rq.curr \in Task \cup {IDLE} /\ rq.need_resched \in BOOLEAN
          /\ rq.on_rq \subseteq Task /\ rq.se_on_rq \subseteq Task
          /\ rq.ring \in Seq(Task) /\ rq.circ_curr \in Task \cup {NULL}
          /\ rq.queue \in [RtPrio -> Seq(Task)] /\ rq.bitmap \subseteq RtPrio
          /\ rq.nr_running \in Nat /\ rq.circ_nr \in Nat /\ rq.rt_nr \in Nat
          /\ rq.rt_queued \in BOOLEAN
      BY <2>1 DEF RqType
    <2> QED
      BY <2>2 DEF IInv, ProcessTypes, AttributesExact, TypeOK
  <1> QED
    BY <1>1, Invariance, PTL

(***************************************************************************)
(* circular.c keeps to the contract of circlist.c, and a pick that the     *)
(* counters promise always finds a task.                                   *)
(***************************************************************************)
THEOREM NoListFaultCorrect == Spec => []NoListFault
  <1>1. IInv => NoListFault
    BY DEF IInv, RqExact, BooksExact, CircularExact, NoListFault
  <1> QED
    BY <1>1, Invariance, PTL

(***************************************************************************)
(* A runnable task of the circular class is running or in the ring, once,  *)
(* and circ_nr counts both.                                                *)
(***************************************************************************)
THEOREM RingExactCorrect == Spec => []RingExact
  <1>1. IInv => RingExact
    <2> SUFFICES ASSUME IInv PROVE RingExact
      OBVIOUS
    <2> DEFINE C == Circ(task, rq.on_rq)
    <2>1. CircularExact(rq, task, rq.on_rq, Running(task, rq.curr)) /\ rq.ring \in Seq(Task)
      BY DEF IInv, RqExact, BooksExact, RqType
    <2>2. Cardinality(Elems(rq.ring)) = Len(rq.ring)
      BY <2>1, DistinctCount DEF CircularExact
    <2>3. C \ {Running(task, rq.curr)} = C \ {rq.curr}
      <3>1. rq.curr \in Task \cup {IDLE} /\ rq.on_rq \in SUBSET Task
        BY CurrentQueued
      <3>2. CASE class_of(task, rq.curr) = "circular"
        BY <3>2 DEF Running
      <3>3. CASE class_of(task, rq.curr) # "circular"
        <4>1. rq.curr \notin C /\ NULL \notin C
          BY <3>1, <3>3, NameAssumption DEF Circ, class_of
        <4> QED
          BY <3>3, <4>1 DEF Running
      <3> QED
        BY <3>2, <3>3
    <2> QED
      BY <2>1, <2>2, <2>3, QueuedParts DEF CircularExact, RingExact, Running
  <1> QED
    BY <1>1, Invariance, PTL

(***************************************************************************)
(* A runnable real-time task is on the list of its effective priority,     *)
(* once; bitmap and counters of rt.c agree with the lists.                 *)
(***************************************************************************)
THEOREM RtQueuesExactCorrect == Spec => []RtQueuesExact
  <1>1. IInv => RtQueuesExact
    <2> SUFFICES ASSUME IInv PROVE RtQueuesExact
      OBVIOUS
    <2>1. RtExact(rq, task, rq.on_rq) /\ rq.queue \in [RtPrio -> Seq(Task)]
      BY DEF IInv, RqExact, BooksExact, RqType
    <2>2. \A i \in RtPrio : Cardinality(Elems(rq.queue[i])) = Len(rq.queue[i])
      BY <2>1, DistinctCount DEF RtExact
    <2> QED
      BY <2>1, <2>2, QueuedParts DEF RtExact, RtQueuesExact
  <1> QED
    BY <1>1, Invariance, PTL

(***************************************************************************)
(* No task is lost between set_current_state(), schedule() and             *)
(* try_to_wake_up(): one that does not mean to sleep is on the run queue,  *)
(* and nr_running counts the queue.                                        *)
(***************************************************************************)
THEOREM RunnableIsQueuedCorrect == Spec => []RunnableIsQueued
  <1>1. IInv => RunnableIsQueued
    <2> SUFFICES ASSUME IInv PROVE RunnableIsQueued
      OBVIOUS
    <2>1. rq.on_rq \in SUBSET Task /\ rq.curr \in rq.on_rq \cup {IDLE}
          /\ rq.nr_running = Cardinality(rq.on_rq)
      BY CurrentQueued DEF IInv, RqExact, BooksExact
    <2> QED
      BY <2>1 DEF IInv, LivesExact, RunnableIsQueued
  <1> QED
    BY <1>1, Invariance, PTL

(***************************************************************************)
(* No preemption is missed: wakeups, new tasks, boosts and changes of      *)
(* policy or nice level mark the running task as soon as another beats it. *)
(***************************************************************************)
THEOREM ReschedPendingCorrect == Spec => []ReschedPending
  <1>1. IInv => ReschedPending
    <2>1. \A p, q : Beats(p, q) <=> Better(task, p, q)
      BY DEF Beats, Better
    <2> QED
      BY <2>1 DEF IInv, RqExact, Pending, ReschedPending
  <1> QED
    BY <1>1, Invariance, PTL

(***************************************************************************)
(* Through fork, sched_setscheduler, set_user_nice and rt_mutex_setprio    *)
(* the class goes with the effective priority, normal_prio is current, and *)
(* a child starts without the boost of its parent.                         *)
(***************************************************************************)
THEOREM ClassFollowsPrioCorrect == Spec => []ClassFollowsPrio
  <1>1. IInv => ClassFollowsPrio
    BY DEF IInv, AttributesExact, AttrExact, BoostsExact, ClassFollowsPrio
  <1> QED
    BY <1>1, Invariance, PTL

(***************************************************************************)
(* The boost by a real-time waiter survives every change of attributes     *)
(* until the waiter is gone.                                               *)
(***************************************************************************)
THEOREM NoInversionCorrect == Spec => []NoInversion
  <1>1. IInv => NoInversion
    BY DEF IInv, BoostsExact, NoInversion
  <1> QED
    BY <1>1, Invariance, PTL

(***************************************************************************)
(* Round robin for any number of tasks: through every switch, wakeup and   *)
(* change of attributes circular.c lets no task pass another in the ring,  *)
(* and gives the CPU to the one that has waited longest.                   *)
(***************************************************************************)
THEOREM OldestFirstCorrect == Spec => OldestFirst
  <1>1. IInv /\ [Next]_vars => [InTurn]_vars
    BY NextInv
  <1> QED
    BY <1>1, Invariance, PTL DEF Spec, OldestFirst
=============================================================================
